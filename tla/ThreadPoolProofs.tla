--------------------------- MODULE ThreadPoolProofs ---------------------------
(***************************************************************************)
(* What holds of the thread pool for every number of calls and whether or  *)
(* not pthread_create fails: it is well typed, has at most one thread,     *)
(* handles events in order, and, without spurious wakeups, writes an event *)
(* only while the worker is away from it, implements JobMailbox, and is    *)
(* ended by one dead job.                                                  *)
(***************************************************************************)
EXTENDS ThreadPool, TLAPS

-------------------------------------------------------------------------------
(* The inductive invariants *)

\* Where the dispatcher is in the list of jobs.  The scan of start_job is at the
\* first job with found false, or past the only job with found true: so it makes
\* a thread only when there is none.
ScanInv ==
  /\ Len(threads) <= 1
  /\ pc = "scan" => (idx = 1 /\ found = FALSE) \/ (idx = 2 /\ found = TRUE /\ Len(threads) = 1)
  /\ pc \in {"hand", "signal"} => idx = 1 /\ Len(threads) = 1
  /\ pc = "spawn" => threads = <<>>
  /\ pc \in {"await", "waiting", "kick"} => Len(threads) = 1
  /\ pc \in {"stopSignal", "join"} => idx \in DOMAIN threads

\* The events handled are older than the one a job still owes, and that is older
\* than the one start_job is about to write.
Offering == pc \in {"scan", "hand", "spawn"}

OrderInv ==
  /\ HandledInOrder
  /\ Offering => calls > 0
  /\ \A k \in DOMAIN handled : handled[k] <= calls /\ (Offering => handled[k] < calls)
  /\ \A i \in DOMAIN threads :
       /\ Offering => threads[i].event < calls
       /\ threads[i].event <= calls
       /\ Pending(i) # 0 => \A k \in DOMAIN handled : handled[k] < Pending(i)

\* The worker cannot go past its pthread_cond_wait before it is signalled.
Parked(job) == job.pc = "loop" \/ (job.pc = "wait" /\ "worker" \in job.waiters)

\* Without spurious wakeups a free job has no event and its worker is parked,
\* and it stays parked until start_job has written the event and signals.  Here
\* for one job, with the dispatcher at p.
ParkedJob(job, p) ==
  /\ "worker" \in job.waiters => job.pc = "wait"
  /\ ~job.occupied => job.event = 0
  /\ ~job.occupied => Parked(job) \/ p \in {"stop", "stopSignal", "join", "gone", "crashed"}
  /\ p = "hand" => job.event = 0
  /\ p \in {"hand", "signal"} => job.occupied /\ Parked(job)
  /\ p \in {"await", "waiting", "kick"} => job.occupied /\ (job.pc = "start" \/ Parked(job))
  /\ job.pc = "release" => job.event = 0
  /\ job.stop \/ job.pc = "done" => p \in {"stop", "stopSignal", "join", "gone", "crashed"}

ParkedInv == \A i \in DOMAIN threads : ParkedJob(threads[i], pc)

-------------------------------------------------------------------------------
(* Jobs and the list of jobs *)

\* SetJob replaces one job and leaves the others and their number alone.
LEMMA SetJobFacts ==
  ASSUME threads \in Seq(Job), NEW i \in DOMAIN threads, NEW job \in Job, SetJob(i, job)
  PROVE  /\ threads' \in Seq(Job)
         /\ Len(threads') = Len(threads)
         /\ DOMAIN threads' = DOMAIN threads
         /\ threads'[i] = job
         /\ \A k \in DOMAIN threads : k # i => threads'[k] = threads[k]
BY DEF SetJob

\* A signal changes nothing of a job but its waiters, of which it removes at
\* most one.
LEMMA SignalledFacts ==
  ASSUME NEW job \in Job, NEW out \in Signalled(job)
  PROVE  /\ out \in Job
         /\ out.waiters \subseteq job.waiters
         /\ out.event = job.event /\ out.stop = job.stop
         /\ out.occupied = job.occupied /\ out.pc = job.pc
BY DEF Signalled, Job

LEMMA NewJobFacts ==
  ASSUME NEW e \in 0..MaxEvents
  PROVE  NewJob(e) \in Job /\ [NewJob(e) EXCEPT !.pc = "none"] \in Job
BY DEF NewJob, Job, WorkerPc

LEMMA JobAt ==
  ASSUME threads \in Seq(Job), NEW i \in DOMAIN threads
  PROVE  threads[i] \in Job
OBVIOUS

\* What process_messages, start_job and destroy may do to a job keeps its type.
LEMMA JobUpdates ==
  ASSUME NEW job \in Job
  PROVE  /\ [job EXCEPT !.occupied = TRUE] \in Job
         /\ [job EXCEPT !.stop = TRUE] \in Job
         /\ \A e \in 0..MaxEvents : [job EXCEPT !.event = e, !.stop = FALSE] \in Job
         /\ [job EXCEPT !.waiters = @ \cup {"dispatcher"}] \in Job
         /\ [job EXCEPT !.pc = "wait", !.waiters = @ \cup {"worker"}] \in Job
         /\ \A t \in {"dispatcher", "worker"} : [job EXCEPT !.waiters = @ \ {t}] \in Job
         /\ \A q \in WorkerPc : [job EXCEPT !.pc = q] \in Job
         /\ [job EXCEPT !.pc = "release", !.event = 0] \in Job
         /\ [job EXCEPT !.pc = "loop", !.occupied = FALSE] \in Job
<1>1. [job EXCEPT !.occupied = TRUE] \in Job
  BY DEF Job
<1>2. [job EXCEPT !.stop = TRUE] \in Job
  BY DEF Job
<1>3. \A e \in 0..MaxEvents : [job EXCEPT !.event = e, !.stop = FALSE] \in Job
  BY DEF Job
<1>4. [job EXCEPT !.waiters = @ \cup {"dispatcher"}] \in Job
  BY DEF Job
<1>5. [job EXCEPT !.pc = "wait", !.waiters = @ \cup {"worker"}] \in Job
  BY DEF Job, WorkerPc
<1>6. \A t \in {"dispatcher", "worker"} : [job EXCEPT !.waiters = @ \ {t}] \in Job
  BY DEF Job
<1>7. \A q \in WorkerPc : [job EXCEPT !.pc = q] \in Job
  BY DEF Job
<1>8. \A e \in 0..MaxEvents : [job EXCEPT !.pc = "release", !.event = e] \in Job
  BY DEF Job, WorkerPc
<1>9. 0 \in 0..MaxEvents
  BY MaxEventsAssumption
<1>10. [job EXCEPT !.pc = "loop", !.occupied = FALSE] \in Job
  BY DEF Job, WorkerPc
<1> QED BY <1>1, <1>2, <1>3, <1>4, <1>5, <1>6, <1>7, <1>8, <1>9, <1>10

-------------------------------------------------------------------------------
(* Types and the shape of the list *)

\* The type invariant without its two Boolean conjuncts, which the provers need
\* apart from the arithmetic.
DataOK ==
  /\ threads \in Seq(Job)
  /\ pc \in DispatcherPc
  /\ idx \in Nat \ {0}
  /\ calls \in 0..MaxEvents
  /\ handled \in Seq(1..MaxEvents)

LEMMA TypeInit == Init => TypeOK /\ ScanInv
<1>1. Init => DataOK
  BY MaxEventsAssumption DEF Init, DataOK, DispatcherPc
<1>2. Init => found \in BOOLEAN /\ result \in BOOLEAN
  BY DEF Init
<1>3. Init => ScanInv
  BY DEF Init, ScanInv
<1> QED BY <1>1, <1>2, <1>3 DEF TypeOK, DataOK

\* An action that does nothing but replace one job and move the dispatcher.
LEMMA DataOfJob ==
  ASSUME DataOK, NEW i \in DOMAIN threads, NEW job \in Job, SetJob(i, job),
         UNCHANGED <<calls, handled>>, idx' = idx, pc' \in DispatcherPc
  PROVE  DataOK' /\ Len(threads') = Len(threads)
<1>1. threads' \in Seq(Job) /\ Len(threads') = Len(threads)
  BY SetJobFacts DEF DataOK
<1> QED BY <1>1 DEF DataOK

LEMMA FlagsStep ==
  ASSUME TypeOK, [Next]_vars
  PROVE  found' \in BOOLEAN /\ result' \in BOOLEAN
<1>1. CASE CasFails
  <2>1. threads[idx] \in Job
    BY <1>1, JobAt DEF TypeOK, CasFails
  <2>2. threads[idx].occupied \in BOOLEAN
    BY <2>1 DEF Job
  <2> QED BY <1>1, <2>2 DEF TypeOK, CasFails
<1>2. CASE StartJob \/ Destroy \/ SpawnFails \/ CasSucceeds \/ EndScan \/ HandOver \/ SignalJob
  BY <1>2 DEF TypeOK, StartJob, Destroy, SpawnFails, CasSucceeds, EndScan, HandOver,
              SignalJob, Return
<1>3. CASE Spawn \/ AwaitStart \/ Started \/ Kick
  BY <1>3 DEF TypeOK, Spawn, AwaitStart, Started, Kick, Return
<1>4. CASE StopJob \/ StopSignal \/ Join \/ JoinNothing \/ Destroyed
  BY <1>4 DEF TypeOK, StopJob, StopSignal, Join, JoinNothing, Destroyed
<1>5. ASSUME NEW i \in DOMAIN threads,
             WorkerStep(i) \/ \E t \in {"dispatcher", "worker"} : Spurious(i, t)
      PROVE  found' \in BOOLEAN /\ result' \in BOOLEAN
  BY <1>5 DEF TypeOK, WorkerStep, Announce, Wait, Wake, Process, Free, Release, Spurious
<1>6. CASE UNCHANGED vars
  BY <1>6 DEF TypeOK, vars
<1> QED BY <1>1, <1>2, <1>3, <1>4, <1>5, <1>6 DEF Next, DispatcherStep

LEMMA DataStep ==
  ASSUME DataOK, found \in BOOLEAN, ScanInv, [Next]_vars
  PROVE  DataOK' /\ ScanInv'
<1>1. CASE StartJob
  <2>1. DataOK'
    BY <1>1, MaxEventsAssumption DEF StartJob, DataOK, DispatcherPc
  <2> QED BY <1>1, <2>1 DEF StartJob, ScanInv
<1>2. CASE CasSucceeds
  <2>0. pc = "scan" /\ idx \in DOMAIN threads
    BY <1>2 DEF CasSucceeds
  <2>a. (idx = 1 \/ (idx = 2 /\ Len(threads) = 1)) /\ Len(threads) <= 1
    BY <2>0, Zenon DEF ScanInv
  <2>1. idx = 1 /\ Len(threads) = 1
    <3>1. idx \in 1..Len(threads) /\ Len(threads) \in Nat
      BY <2>0 DEF DataOK
    <3> QED BY <2>a, <3>1
  <2>3. [threads[idx] EXCEPT !.occupied = TRUE] \in Job
    BY <1>2, JobAt, JobUpdates DEF CasSucceeds, DataOK
  <2>2. DataOK' /\ Len(threads') = Len(threads)
    BY <1>2, <2>3, DataOfJob DEF CasSucceeds, DispatcherPc
  <2> QED BY <1>2, <2>1, <2>2 DEF CasSucceeds, ScanInv
<1>3. CASE CasFails
  <2>0. pc = "scan" /\ idx \in DOMAIN threads
    BY <1>3 DEF CasFails
  <2>a. (idx = 1 \/ (idx = 2 /\ Len(threads) = 1)) /\ Len(threads) <= 1
    BY <2>0, Zenon DEF ScanInv
  <2>1. idx = 1 /\ Len(threads) = 1
    <3>1. idx \in 1..Len(threads) /\ Len(threads) \in Nat
      BY <2>0 DEF DataOK
    <3> QED BY <2>a, <3>1
  <2>6. threads[idx] \in Job
    BY <1>3, JobAt DEF CasFails, DataOK
  <2>2. found = FALSE
    BY <1>3, <2>1 DEF CasFails, ScanInv
  <2>3. threads[idx].occupied \in BOOLEAN
    BY <2>6 DEF Job
  <2>4. found' = TRUE
    BY <1>3, <2>2, <2>3 DEF CasFails
  <2>5. DataOK'
    BY <1>3 DEF CasFails, DataOK
  <2> QED BY <1>3, <2>1, <2>4, <2>5 DEF CasFails, ScanInv
<1>4. CASE EndScan
  <2>1. DataOK'
    BY <1>4 DEF EndScan, Return, DataOK, DispatcherPc
  <2>2. found = FALSE => threads = <<>>
    BY <1>4 DEF EndScan, DataOK, ScanInv
  <2> QED BY <1>4, <2>1, <2>2 DEF EndScan, Return, ScanInv
<1>5. CASE HandOver
  <2>3. idx \in DOMAIN threads
    BY <1>5 DEF HandOver, DataOK, ScanInv
  <2>1. [threads[idx] EXCEPT !.event = calls, !.stop = FALSE] \in Job
    BY <2>3, JobAt, JobUpdates DEF DataOK
  <2>2. DataOK' /\ Len(threads') = Len(threads)
    BY <1>5, <2>1, <2>3, DataOfJob DEF HandOver, DispatcherPc
  <2> QED BY <1>5, <2>2 DEF HandOver, ScanInv
<1>6. CASE SignalJob
  <2>1. threads[idx] \in Job /\ idx \in DOMAIN threads
    BY <1>6, JobAt DEF SignalJob, DataOK, ScanInv
  <2>2. DataOK' /\ Len(threads') = Len(threads)
    BY <1>6, <2>1, SignalledFacts, DataOfJob DEF SignalJob, Return, DispatcherPc
  <2> QED BY <1>6, <2>2 DEF SignalJob, Return, ScanInv
<1>7. CASE Spawn
  <2>1. threads = <<>> /\ NewJob(calls) \in Job
    BY <1>7, NewJobFacts DEF Spawn, DataOK, ScanInv
  <2>2. threads' \in Seq(Job) /\ Len(threads') = 1
    BY <1>7, <2>1 DEF Spawn
  <2>3. DataOK'
    BY <1>7, <2>2 DEF Spawn, DataOK, DispatcherPc
  <2> QED BY <1>7, <2>2, <2>3 DEF Spawn, ScanInv
<1>8. CASE SpawnFails
  <2>1. threads = <<>> /\ [NewJob(calls) EXCEPT !.pc = "none"] \in Job
    BY <1>8, NewJobFacts DEF SpawnFails, DataOK, ScanInv
  <2>2. threads' \in Seq(Job) /\ Len(threads') = 1
    BY <1>8, <2>1 DEF SpawnFails
  <2>3. DataOK'
    BY <1>8, <2>2 DEF SpawnFails, Return, DataOK, DispatcherPc
  <2> QED BY <1>8, <2>2, <2>3 DEF SpawnFails, Return, ScanInv
<1>9. CASE AwaitStart
  <2>3. Len(threads) \in DOMAIN threads
    BY <1>9 DEF AwaitStart, DataOK, ScanInv
  <2>1. [threads[Len(threads)] EXCEPT !.waiters = @ \cup {"dispatcher"}] \in Job
    BY <2>3, JobAt, JobUpdates DEF DataOK
  <2>2. DataOK' /\ Len(threads') = Len(threads)
    BY <1>9, <2>1, <2>3, DataOfJob DEF AwaitStart, DispatcherPc
  <2> QED BY <1>9, <2>2 DEF AwaitStart, ScanInv
<1>10. CASE Started
  <2>1. DataOK'
    BY <1>10 DEF Started, DataOK, DispatcherPc
  <2> QED BY <1>10, <2>1 DEF Started, ScanInv
<1>11. CASE Kick
  <2>3. Len(threads) \in DOMAIN threads
    BY <1>11 DEF Kick, DataOK, ScanInv
  <2>1. threads[Len(threads)] \in Job
    BY <2>3, JobAt DEF DataOK
  <2>2. DataOK' /\ Len(threads') = Len(threads)
    BY <1>11, <2>1, <2>3, SignalledFacts, DataOfJob DEF Kick, Return, DispatcherPc
  <2> QED BY <1>11, <2>2 DEF Kick, Return, ScanInv
<1>12. CASE Destroy
  <2>1. DataOK'
    BY <1>12 DEF Destroy, DataOK, DispatcherPc
  <2> QED BY <1>12, <2>1 DEF Destroy, ScanInv
<1>13. CASE StopJob
  <2>1. [threads[idx] EXCEPT !.stop = TRUE] \in Job /\ idx \in DOMAIN threads
    BY <1>13, JobAt, JobUpdates DEF StopJob, DataOK
  <2>2. DataOK' /\ Len(threads') = Len(threads)
    BY <1>13, <2>1, DataOfJob DEF StopJob, DispatcherPc
  <2>3. DOMAIN threads' = DOMAIN threads
    BY <2>2 DEF DataOK
  <2> QED BY <1>13, <2>1, <2>2, <2>3 DEF StopJob, ScanInv
<1>14. CASE StopSignal
  <2>1. threads[idx] \in Job /\ idx \in DOMAIN threads
    BY <1>14, JobAt DEF StopSignal, DataOK, ScanInv
  <2>2. DataOK' /\ Len(threads') = Len(threads)
    BY <1>14, <2>1, SignalledFacts, DataOfJob DEF StopSignal, DispatcherPc
  <2>3. DOMAIN threads' = DOMAIN threads
    BY <2>2 DEF DataOK
  <2> QED BY <1>14, <2>1, <2>2, <2>3 DEF StopSignal, ScanInv
<1>15. CASE Join \/ JoinNothing
  <2>1. DataOK'
    BY <1>15 DEF Join, JoinNothing, DataOK, DispatcherPc
  <2> QED BY <1>15, <2>1 DEF Join, JoinNothing, ScanInv
<1>16. CASE Destroyed
  <2>1. DataOK'
    BY <1>16 DEF Destroyed, DataOK, DispatcherPc
  <2> QED BY <1>16, <2>1 DEF Destroyed, ScanInv
<1>17. ASSUME NEW i \in DOMAIN threads, NEW job \in Job, SetJob(i, job),
              pc' = pc /\ idx' = idx /\ found' = found /\ calls' = calls,
              handled' \in Seq(1..MaxEvents)
       PROVE  DataOK' /\ ScanInv'
  <2>1. /\ threads' \in Seq(Job) /\ Len(threads') = Len(threads)
        /\ DOMAIN threads' = DOMAIN threads
    BY <1>17, SetJobFacts DEF DataOK
  <2>2. DataOK'
    BY <1>17, <2>1 DEF DataOK
  <2>3. Len(threads) = 0 <=> threads = <<>>
    BY DEF DataOK
  <2>4. Len(threads') = 0 <=> threads' = <<>>
    BY <2>1
  <2> QED BY <1>17, <2>1, <2>2, <2>3, <2>4 DEF ScanInv
<1>18. ASSUME NEW i \in DOMAIN threads,
              WorkerStep(i) \/ \E t \in {"dispatcher", "worker"} : Spurious(i, t)
       PROVE  /\ \E job \in Job : SetJob(i, job)
              /\ pc' = pc /\ idx' = idx /\ found' = found /\ calls' = calls
              /\ handled' \in Seq(1..MaxEvents)
  <2>1. threads[i] \in Job /\ handled \in Seq(1..MaxEvents)
    BY JobAt DEF DataOK
  <2>2. {"loop", "done", "process", "free"} \subseteq WorkerPc
    BY DEF WorkerPc
  <2>3. CASE Announce(i)
    <3>1. PICK job \in Signalled(threads[i]) : SetJob(i, [job EXCEPT !.pc = "loop"])
      BY <2>3 DEF Announce
    <3>2. [job EXCEPT !.pc = "loop"] \in Job
      BY <2>1, <2>2, SignalledFacts, JobUpdates
    <3> QED BY <2>1, <2>3, <3>1, <3>2 DEF Announce
  <2>4. CASE Wait(i) \/ Free(i) \/ Release(i)
    BY <2>1, <2>4, JobUpdates DEF Wait, Free, Release
  <2>5. CASE Wake(i)
    <3>1. (IF threads[i].stop THEN "done" ELSE "process") \in WorkerPc
      BY <2>2
    <3> QED BY <2>1, <2>5, <3>1, JobUpdates DEF Wake, WorkerMoves
  <2>6. CASE Process(i)
    <3>1. threads[i].event \in 0..MaxEvents
      BY <2>1 DEF Job
    <3>3. threads[i].event # 0 => threads[i].event \in 1..MaxEvents
      BY <3>1, MaxEventsAssumption
    <3>2. handled' \in Seq(1..MaxEvents)
      <4>1. CASE threads[i].event = 0
        BY <2>1, <2>6, <4>1 DEF Process
      <4>2. CASE threads[i].event # 0
        <5>1. handled' = Append(handled, threads[i].event)
          BY <2>6, <4>2 DEF Process
        <5> QED BY <2>1, <3>3, <4>2, <5>1
      <4> QED BY <4>1, <4>2
    <3> QED BY <2>1, <2>2, <2>6, <3>2, JobUpdates DEF Process, WorkerMoves
  <2>7. CASE \E t \in {"dispatcher", "worker"} : Spurious(i, t)
    BY <2>1, <2>7, JobUpdates DEF Spurious
  <2> QED BY <1>18, <2>3, <2>4, <2>5, <2>6, <2>7 DEF WorkerStep
<1>19. CASE UNCHANGED vars
  BY <1>19 DEF vars, DataOK, ScanInv
<1> QED
  BY <1>1, <1>2, <1>3, <1>4, <1>5, <1>6, <1>7, <1>8, <1>9, <1>10, <1>11, <1>12, <1>13,
     <1>14, <1>15, <1>16, <1>17, <1>18, <1>19
  DEF Next, DispatcherStep

LEMMA TypeStep ==
  ASSUME TypeOK, ScanInv, [Next]_vars
  PROVE  TypeOK' /\ ScanInv'
<1>1. DataOK /\ found \in BOOLEAN
  BY DEF TypeOK, DataOK
<1>2. DataOK' /\ ScanInv'
  BY <1>1, DataStep
<1> QED BY <1>2, FlagsStep DEF TypeOK, DataOK

\* Every variable keeps its type (the structures of thread_pool.h and the locals
\* of thread_pool_start_job).
THEOREM TypeCorrect == Spec => []TypeOK
<1>1. TypeOK /\ ScanInv /\ [Next]_vars => TypeOK' /\ ScanInv'
  BY TypeStep
<1> QED BY <1>1, TypeInit, PTL DEF Spec

-------------------------------------------------------------------------------
(* Order *)

\* job may take the place of job i without owing more than job i owed.
OwesNoMore(i, job) ==
  \/ job.event = 0
  \/ job.event = threads[i].event /\ (threads[i].pc = "free" => job.pc = "free")

\* A step that changes at most one job, which then owes no more than before.
Quiet ==
  /\ handled' = handled /\ calls' = calls
  /\ Offering' => Offering
  /\ \/ threads' = threads
     \/ threads' = <<>>
     \/ \E i \in DOMAIN threads, job \in Job : SetJob(i, job) /\ OwesNoMore(i, job)

LEMMA HandledAt ==
  ASSUME handled \in Seq(1..MaxEvents), NEW k \in DOMAIN handled
  PROVE  handled[k] \in Nat
<1>1. handled[k] \in 1..MaxEvents
  <2> DEFINE E == 1..MaxEvents
  <2>1. handled \in Seq(E)
    OBVIOUS
  <2> HIDE DEF E
  <2>2. handled[k] \in E
    BY <2>1
  <2> QED BY <2>2 DEF E
<1> QED BY <1>1, MaxEventsAssumption

LEMMA QuietOrder ==
  ASSUME DataOK, OrderInv, Quiet
  PROVE  OrderInv'
<1>1. /\ handled' = handled /\ calls' = calls /\ calls \in Nat
      /\ Offering' => Offering
  BY MaxEventsAssumption DEF Quiet, DataOK
<1>2. ASSUME NEW k \in DOMAIN threads'
      PROVE  /\ k \in DOMAIN threads
             /\ threads'[k].event \in {0, threads[k].event}
             /\ Pending(k)' \in {0, Pending(k)}
  <2>1. CASE threads' = threads
    BY <2>1 DEF Pending
  <2>2. CASE threads' = <<>>
    BY <2>2
  <2>3. ASSUME NEW i \in DOMAIN threads, NEW job \in Job, SetJob(i, job), OwesNoMore(i, job)
        PROVE  /\ k \in DOMAIN threads
               /\ threads'[k].event \in {0, threads[k].event}
               /\ Pending(k)' \in {0, Pending(k)}
    <3>1. k \in DOMAIN threads /\ threads'[i] = job /\ (k # i => threads'[k] = threads[k])
      BY <2>3, SetJobFacts DEF DataOK
    <3>2. CASE k # i
      BY <3>1, <3>2 DEF Pending
    <3>3. CASE k = i
      BY <2>3, <3>1, <3>3 DEF Pending, OwesNoMore
    <3> QED BY <3>2, <3>3
  <2> QED BY <2>1, <2>2, <2>3 DEF Quiet
<1>3. HandledInOrder'
  BY <1>1 DEF OrderInv, HandledInOrder
<1>4. \A j \in DOMAIN handled' : handled'[j] <= calls' /\ (Offering' => handled'[j] < calls')
  BY <1>1 DEF OrderInv
<1>5. ASSUME NEW k \in DOMAIN threads'
      PROVE  /\ Offering' => threads'[k].event < calls'
             /\ threads'[k].event <= calls'
             /\ Pending(k)' # 0 => \A j \in DOMAIN handled' : handled'[j] < Pending(k)'
  <2>1. threads[k].event \in Nat
    BY <1>2, <1>5, JobAt, MaxEventsAssumption DEF DataOK, Job
  <2>2. (Offering => threads[k].event < calls) /\ threads[k].event <= calls
    BY <1>2, <1>5 DEF OrderInv
  <2>3. Pending(k) # 0 => \A j \in DOMAIN handled : handled[j] < Pending(k)
    BY <1>2, <1>5 DEF OrderInv
  <2>4. (Offering' => threads'[k].event < calls') /\ threads'[k].event <= calls'
    BY <1>1, <1>2, <1>5, <2>1, <2>2
  <2> QED BY <1>1, <1>2, <1>5, <2>3, <2>4
<1>6. Offering' => calls' > 0
  BY <1>1 DEF OrderInv
<1> QED BY <1>3, <1>4, <1>5, <1>6 DEF OrderInv

\* The steps that neither hand over an event nor handle one.
LEMMA QuietSteps ==
  ASSUME DataOK, ScanInv,
         \/ CasSucceeds \/ CasFails \/ EndScan \/ SignalJob \/ AwaitStart \/ Started \/ Kick
         \/ Destroy \/ StopJob \/ StopSignal \/ Join \/ JoinNothing \/ Destroyed
         \/ UNCHANGED vars
  PROVE  Quiet
<1>1. CASE CasFails \/ EndScan \/ Started \/ Destroy \/ Join \/ JoinNothing \/ Destroyed
           \/ UNCHANGED vars
  BY <1>1 DEF CasFails, EndScan, Started, Destroy, Join, JoinNothing, Destroyed, Return, vars,
              Quiet, Offering
<1>2. CASE CasSucceeds
  <2>1. idx \in DOMAIN threads /\ threads[idx] \in Job
    BY <1>2, JobAt DEF CasSucceeds, DataOK
  <2>2. [threads[idx] EXCEPT !.occupied = TRUE] \in Job
    BY <2>1, JobUpdates
  <2>3. OwesNoMore(idx, [threads[idx] EXCEPT !.occupied = TRUE])
    BY <2>1 DEF OwesNoMore, Job
  <2> QED BY <1>2, <2>1, <2>2, <2>3 DEF CasSucceeds, Quiet, Offering
<1>3. ASSUME NEW i \in DOMAIN threads, \E job \in Signalled(threads[i]) : SetJob(i, job)
      PROVE  \E job \in Job : SetJob(i, job) /\ OwesNoMore(i, job)
  BY <1>3, JobAt, SignalledFacts DEF DataOK, OwesNoMore
<1>4. CASE SignalJob
  <2>1. idx \in DOMAIN threads
    BY <1>4 DEF SignalJob, DataOK, ScanInv
  <2> QED BY <1>3, <1>4, <2>1 DEF SignalJob, Return, Quiet, Offering
<1>5. CASE Kick
  <2>1. Len(threads) \in DOMAIN threads
    BY <1>5 DEF Kick, DataOK, ScanInv
  <2> QED BY <1>3, <1>5, <2>1 DEF Kick, Return, Quiet, Offering
<1>6. CASE StopSignal
  <2>1. idx \in DOMAIN threads
    BY <1>6 DEF StopSignal, DataOK, ScanInv
  <2> QED BY <1>3, <1>6, <2>1 DEF StopSignal, Quiet, Offering
<1>7. CASE AwaitStart
  <2>0. Len(threads) \in DOMAIN threads
    BY <1>7 DEF AwaitStart, DataOK, ScanInv
  <2>1. Len(threads) \in DOMAIN threads /\ threads[Len(threads)] \in Job
    BY <2>0, JobAt DEF DataOK
  <2>2. [threads[Len(threads)] EXCEPT !.waiters = @ \cup {"dispatcher"}] \in Job
    BY <2>1, JobUpdates
  <2>3. OwesNoMore(Len(threads), [threads[Len(threads)] EXCEPT !.waiters = @ \cup {"dispatcher"}])
    BY <2>1 DEF OwesNoMore, Job
  <2> QED BY <1>7, <2>1, <2>2, <2>3 DEF AwaitStart, Quiet, Offering
<1>8. CASE StopJob
  <2>1. idx \in DOMAIN threads /\ threads[idx] \in Job
    BY <1>8, JobAt DEF StopJob, DataOK
  <2>2. [threads[idx] EXCEPT !.stop = TRUE] \in Job
    BY <2>1, JobUpdates
  <2>3. OwesNoMore(idx, [threads[idx] EXCEPT !.stop = TRUE])
    BY <2>1 DEF OwesNoMore, Job
  <2> QED BY <1>8, <2>1, <2>2, <2>3 DEF StopJob, Quiet, Offering
<1> QED BY <1>1, <1>2, <1>4, <1>5, <1>6, <1>7, <1>8

LEMMA QuietWorkerSteps ==
  ASSUME DataOK, NEW i \in DOMAIN threads,
         \/ Announce(i) \/ Wait(i) \/ Wake(i) \/ Free(i) \/ Release(i)
         \/ \E t \in {"dispatcher", "worker"} : Spurious(i, t)
  PROVE  Quiet
<1>1. threads[i] \in Job
  BY JobAt DEF DataOK
<1>2. SUFFICES ASSUME TRUE
               PROVE  \E job \in Job : SetJob(i, job) /\ OwesNoMore(i, job)
  BY DEF Announce, Wait, Wake, Free, Release, Spurious, Quiet, Offering
<1>3. CASE Announce(i)
  <2>1. PICK job \in Signalled(threads[i]) : SetJob(i, [job EXCEPT !.pc = "loop"])
    BY <1>3 DEF Announce
  <2>2. job \in Job /\ job.event = threads[i].event /\ threads[i].pc = "start"
    BY <1>1, <1>3, SignalledFacts DEF Announce
  <2>3. [job EXCEPT !.pc = "loop"] \in Job
    BY <2>2, JobUpdates DEF WorkerPc
  <2>4. OwesNoMore(i, [job EXCEPT !.pc = "loop"])
    BY <2>2 DEF OwesNoMore, Job
  <2> QED BY <2>1, <2>3, <2>4
<1>4. CASE Wait(i)
  <2>1. OwesNoMore(i, [threads[i] EXCEPT !.pc = "wait", !.waiters = @ \cup {"worker"}])
    BY <1>1, <1>4 DEF Wait, OwesNoMore, Job
  <2> QED BY <1>1, <1>4, <2>1, JobUpdates DEF Wait
<1>5. CASE Wake(i)
  <2>1. PICK q \in {"done", "process"} : SetJob(i, [threads[i] EXCEPT !.pc = q])
    BY <1>5 DEF Wake, WorkerMoves
  <2>2. [threads[i] EXCEPT !.pc = q] \in Job
    BY <1>1, JobUpdates DEF WorkerPc
  <2>3. OwesNoMore(i, [threads[i] EXCEPT !.pc = q])
    BY <1>1, <1>5 DEF Wake, WorkerMoves, OwesNoMore, Job
  <2> QED BY <2>1, <2>2, <2>3
<1>6. CASE Free(i)
  <2>1. OwesNoMore(i, [threads[i] EXCEPT !.pc = "release", !.event = 0])
    BY <1>1 DEF OwesNoMore, Job
  <2> QED BY <1>1, <1>6, <2>1, JobUpdates DEF Free
<1>7. CASE Release(i)
  <2>1. OwesNoMore(i, [threads[i] EXCEPT !.pc = "loop", !.occupied = FALSE])
    BY <1>1, <1>7 DEF Release, OwesNoMore, Job
  <2> QED BY <1>1, <1>7, <2>1, JobUpdates DEF Release
<1>8. ASSUME NEW t \in {"dispatcher", "worker"}, Spurious(i, t)
      PROVE  \E job \in Job : SetJob(i, job) /\ OwesNoMore(i, job)
  <2>1. OwesNoMore(i, [threads[i] EXCEPT !.waiters = @ \ {t}])
    BY <1>1 DEF OwesNoMore, Job
  <2> QED BY <1>1, <1>8, <2>1, JobUpdates DEF Spurious
<1> QED BY <1>3, <1>4, <1>5, <1>6, <1>7, <1>8

\* The event of the current call is the youngest: it may be put into a job.
LEMMA HandOverOrder ==
  ASSUME DataOK, DataOK', OrderInv, Offering, ~Offering',
         handled' = handled, calls' = calls,
         \A k \in DOMAIN threads' :
           threads'[k].event = calls \/ (k \in DOMAIN threads /\ threads'[k] = threads[k])
  PROVE  OrderInv'
<1>1. calls \in Nat
  BY MaxEventsAssumption DEF DataOK
<1>2. \A k \in DOMAIN handled : handled[k] < calls
  BY DEF OrderInv
<1>3. HandledInOrder'
  BY DEF OrderInv, HandledInOrder
<1>4. ASSUME NEW k \in DOMAIN threads'
      PROVE  /\ threads'[k].event <= calls
             /\ Pending(k)' # 0 => \A j \in DOMAIN handled : handled[j] < Pending(k)'
  <2>1. CASE threads'[k].event = calls
    BY <1>1, <1>2, <2>1 DEF Pending
  <2>2. CASE k \in DOMAIN threads /\ threads'[k] = threads[k]
    BY <1>1, <2>2 DEF OrderInv, Pending
  <2> QED BY <1>4, <2>1, <2>2
<1> QED BY <1>1, <1>2, <1>3, <1>4 DEF OrderInv

LEMMA ProcessOrder ==
  ASSUME DataOK, ScanInv, OrderInv, NEW i \in DOMAIN threads, Process(i)
  PROVE  OrderInv'
<1>1. threads[i] \in Job /\ threads[i].pc = "process" /\ pc' = pc /\ calls' = calls
  BY JobAt DEF DataOK, Process, WorkerMoves
<1>2. [threads[i] EXCEPT !.pc = "free"] \in Job /\ SetJob(i, [threads[i] EXCEPT !.pc = "free"])
  BY <1>1, JobUpdates DEF WorkerPc, Process, WorkerMoves
<1>3. OwesNoMore(i, [threads[i] EXCEPT !.pc = "free"])
  BY <1>1 DEF OwesNoMore, Job
<1>4. CASE threads[i].event = 0
  <2>1. Quiet
    BY <1>1, <1>2, <1>3, <1>4 DEF Process, Quiet, Offering
  <2> QED BY <2>1, QuietOrder
<1>5. CASE threads[i].event # 0
  <2>1. handled' = Append(handled, threads[i].event) /\ handled \in Seq(1..MaxEvents)
    BY <1>5 DEF Process, DataOK
  <2>2. threads[i].event \in Nat /\ calls \in Nat
    BY <1>1, MaxEventsAssumption DEF Job, DataOK
  <2>a. Pending(i) = threads[i].event
    BY <1>1 DEF Pending
  <2>b. \A k \in DOMAIN handled : handled[k] \in Nat
    BY <2>1, HandledAt
  <2>3. \A k \in DOMAIN handled : handled[k] < threads[i].event /\ handled[k] \in Nat
    BY <1>5, <2>a, <2>b DEF OrderInv
  <2>4. /\ Len(handled) \in Nat /\ DOMAIN handled = 1..Len(handled)
        /\ DOMAIN handled' = 1..(Len(handled) + 1)
        /\ \A k \in DOMAIN handled : handled'[k] = handled[k]
        /\ handled'[Len(handled) + 1] = threads[i].event
    BY <2>1, <2>2
  <2>5. HandledInOrder'
    BY <2>3, <2>4 DEF OrderInv, HandledInOrder
  <2>6. /\ threads[i].event <= calls
        /\ Offering' => threads[i].event < calls
    BY <1>1 DEF OrderInv, Offering
  <2>7. \A k \in DOMAIN handled' : handled'[k] <= calls' /\ (Offering' => handled'[k] < calls')
    BY <1>1, <2>4, <2>6 DEF OrderInv, Offering
  <2>8. ASSUME NEW k \in DOMAIN threads'
        PROVE  /\ Offering' => threads'[k].event < calls'
               /\ threads'[k].event <= calls'
               /\ Pending(k)' # 0 => \A j \in DOMAIN handled' : handled'[j] < Pending(k)'
    <3>1. k \in DOMAIN threads /\ (k # i => threads'[k] = threads[k])
          /\ threads'[i] = [threads[i] EXCEPT !.pc = "free"]
      BY <1>2, SetJobFacts DEF DataOK
    <3>2. threads'[k].event = threads[k].event
      BY <1>1, <3>1 DEF Job
    <3>3. CASE k = i
      BY <1>1, <2>6, <3>1, <3>2, <3>3 DEF Pending, Job
    <3>4. CASE k # i
      <4>1. Len(threads) \in Nat /\ Len(threads) <= 1 /\ k \in 1..Len(threads) /\ i \in 1..Len(threads)
        BY <3>1 DEF DataOK, ScanInv
      <4> QED BY <3>4, <4>1
    <3> QED BY <3>3, <3>4
  <2>9. Offering' => calls' > 0
    BY <1>1 DEF OrderInv, Offering
  <2> QED BY <2>5, <2>7, <2>8, <2>9 DEF OrderInv
<1> QED BY <1>4, <1>5

LEMMA OrderInit == Init => OrderInv
BY DEF Init, OrderInv, HandledInOrder, Offering

LEMMA OrderStep ==
  ASSUME TypeOK, TypeOK', ScanInv, OrderInv, [Next]_vars
  PROVE  OrderInv'
<1>1. DataOK /\ DataOK'
  BY DEF TypeOK, DataOK
<1>2. calls \in Nat
  BY <1>1, MaxEventsAssumption DEF DataOK
<1>3. CASE StartJob
  <2>1. /\ handled' = handled /\ threads' = threads /\ calls' = calls + 1
        /\ \A k \in DOMAIN threads : Pending(k)' = Pending(k)
    BY <1>3 DEF StartJob, Pending
  <2>2. HandledInOrder'
    BY <2>1 DEF OrderInv, HandledInOrder
  <2>3. \A k \in DOMAIN handled : handled[k] \in Nat /\ handled[k] <= calls
    BY <1>1, HandledAt DEF DataOK, OrderInv
  <2>4. \A k \in DOMAIN threads : threads[k].event \in Nat /\ threads[k].event <= calls
    BY <1>1, JobAt, MaxEventsAssumption DEF DataOK, OrderInv, Job
  <2>5. \A k \in DOMAIN threads' :
          Pending(k)' # 0 => \A j \in DOMAIN handled' : handled'[j] < Pending(k)'
    BY <2>1 DEF OrderInv
  <2> QED BY <1>2, <2>1, <2>2, <2>3, <2>4, <2>5 DEF OrderInv
<1>4. CASE HandOver
  <2>1. idx \in DOMAIN threads
    BY <1>1, <1>4 DEF HandOver, DataOK, ScanInv
  <2>2. threads[idx] \in Job
    BY <1>1, <2>1, JobAt DEF DataOK
  <2>3. [threads[idx] EXCEPT !.event = calls, !.stop = FALSE] \in Job
    BY <1>1, <2>2, JobUpdates DEF DataOK
  <2>4. \A k \in DOMAIN threads' :
          threads'[k].event = calls \/ (k \in DOMAIN threads /\ threads'[k] = threads[k])
    <3>1. [threads[idx] EXCEPT !.event = calls, !.stop = FALSE].event = calls
      BY <2>2 DEF Job
    <3> QED BY <1>1, <1>4, <2>1, <2>3, <3>1, SetJobFacts DEF HandOver, DataOK
  <2>5. Offering /\ ~Offering' /\ handled' = handled /\ calls' = calls
    BY <1>4 DEF HandOver, Offering
  <2> QED BY <1>1, <2>4, <2>5, HandOverOrder
<1>5. CASE Spawn \/ SpawnFails
  <2>1. threads = <<>> /\ Offering /\ ~Offering' /\ handled' = handled /\ calls' = calls
    BY <1>5 DEF Spawn, SpawnFails, Return, ScanInv, Offering
  <2>2. ASSUME NEW job \in Job, job.event = calls, threads' = Append(threads, job)
        PROVE  \A k \in DOMAIN threads' : threads'[k].event = calls
    BY <1>1, <2>1, <2>2 DEF DataOK
  <2>a. NewJob(calls) \in Job /\ [NewJob(calls) EXCEPT !.pc = "none"] \in Job
    BY <1>1, NewJobFacts DEF DataOK
  <2>b. NewJob(calls).event = calls /\ [NewJob(calls) EXCEPT !.pc = "none"].event = calls
    BY DEF NewJob
  <2>3. \A k \in DOMAIN threads' : threads'[k].event = calls
    BY <1>5, <2>2, <2>a, <2>b DEF Spawn, SpawnFails
  <2> QED BY <1>1, <2>1, <2>3, HandOverOrder
<1>6. CASE \/ CasSucceeds \/ CasFails \/ EndScan \/ SignalJob \/ AwaitStart \/ Started \/ Kick
           \/ Destroy \/ StopJob \/ StopSignal \/ Join \/ JoinNothing \/ Destroyed
           \/ UNCHANGED vars
  BY <1>1, <1>6, QuietSteps, QuietOrder
<1>7. ASSUME NEW i \in DOMAIN threads,
             WorkerStep(i) \/ \E t \in {"dispatcher", "worker"} : Spurious(i, t)
      PROVE  OrderInv'
  <2>1. CASE Process(i)
    BY <1>1, <2>1, ProcessOrder
  <2>2. CASE \/ Announce(i) \/ Wait(i) \/ Wake(i) \/ Free(i) \/ Release(i)
             \/ \E t \in {"dispatcher", "worker"} : Spurious(i, t)
    BY <1>1, <2>2, QuietWorkerSteps, QuietOrder
  <2> QED BY <1>7, <2>1, <2>2 DEF WorkerStep
<1> QED BY <1>3, <1>4, <1>5, <1>6, <1>7 DEF Next, DispatcherStep

\* Events are handled at most once and in the order of the calls of
\* thread_pool_start_job, spurious wakeups and lost signals notwithstanding: the
\* worker empties the event before it gives the job up (connections.c:184).
THEOREM OnceAndInOrder == Spec => []HandledInOrder
<1>1. TypeOK /\ ScanInv /\ OrderInv /\ [Next]_vars => TypeOK' /\ ScanInv' /\ OrderInv'
  BY TypeStep, OrderStep
<1>2. OrderInv => HandledInOrder
  BY DEF OrderInv
<1> QED BY <1>1, <1>2, TypeInit, OrderInit, PTL DEF Spec

-------------------------------------------------------------------------------
(* The handshake, without spurious wakeups *)

LEMMA ParkedByJob ==
  ASSUME DataOK, ScanInv, NEW i \in DOMAIN threads, NEW job \in Job, SetJob(i, job),
         ParkedJob(job, pc')
  PROVE  ParkedInv'
<1>1. ASSUME NEW k \in DOMAIN threads'
      PROVE  ParkedJob(threads'[k], pc')
  <2>1. k \in DOMAIN threads /\ threads'[i] = job
    BY SetJobFacts DEF DataOK
  <2>2. Len(threads) \in Nat /\ Len(threads) <= 1 /\ k \in 1..Len(threads) /\ i \in 1..Len(threads)
    BY <2>1 DEF DataOK, ScanInv
  <2>3. k = i
    BY <2>2
  <2> QED BY <2>1, <2>3
<1> QED BY <1>1 DEF ParkedInv

\* Steps of the dispatcher that touch no job.
LEMMA ParkedElsewhere ==
  ASSUME ParkedInv, ScanInv, DataOK,
         \/ StartJob \/ CasFails \/ EndScan \/ Started \/ Destroy \/ Join \/ JoinNothing
         \/ Destroyed \/ UNCHANGED vars
  PROVE  ParkedInv'
<1>1. CASE Destroyed
  BY <1>1 DEF Destroyed, ParkedInv
<1>2. CASE UNCHANGED vars
  BY <1>2 DEF ParkedInv, vars
<1>3. CASE EndScan /\ pc' = "spawn"
  <2>1. threads = <<>> /\ threads' = threads
    <3>1. found = FALSE
      BY <1>3 DEF EndScan, Return
    <3> QED BY <1>3, <3>1 DEF EndScan, ScanInv, DataOK
  <2> QED BY <2>1 DEF ParkedInv
<1>4. ASSUME threads' = threads,
             \/ pc = "idle" /\ pc' \in {"scan", "stop"}
             \/ pc = "scan" /\ pc' \in {"scan", "idle"}
             \/ pc = "waiting" /\ pc' = "kick"
             \/ pc = "join" /\ pc' \in {"stop", "crashed"}
      PROVE  ParkedInv'
  BY <1>4 DEF ParkedInv, ParkedJob
<1> QED BY <1>1, <1>2, <1>3, <1>4
        DEF StartJob, CasFails, EndScan, Return, Started, Destroy, Join, JoinNothing

LEMMA ParkedDispatcher ==
  ASSUME ParkedInv, ScanInv, DataOK, found \in BOOLEAN,
         \/ CasSucceeds \/ HandOver \/ SignalJob \/ AwaitStart \/ Kick \/ StopJob \/ StopSignal
  PROVE  ParkedInv'
<1>1. CASE CasSucceeds
  <2>1. idx \in DOMAIN threads /\ threads[idx] \in Job
    BY <1>1, JobAt DEF CasSucceeds, DataOK
  <2>2. (idx = 1 \/ (idx = 2 /\ Len(threads) = 1)) /\ Len(threads) <= 1
    BY <1>1, Zenon DEF CasSucceeds, ScanInv
  <2>3. idx \in 1..Len(threads) /\ Len(threads) \in Nat
    BY <2>1 DEF DataOK
  <2>4. idx = 1
    BY <2>2, <2>3
  <2>5. found = FALSE
    BY <1>1, <2>4 DEF CasSucceeds, ScanInv
  <2>6. ~threads[idx].occupied /\ ParkedJob(threads[idx], "scan") /\ pc' = "hand"
    BY <1>1, <2>1, <2>5 DEF CasSucceeds, ParkedInv
  <2>7. [threads[idx] EXCEPT !.occupied = TRUE] \in Job
    BY <2>1, JobUpdates
  <2>8. ParkedJob([threads[idx] EXCEPT !.occupied = TRUE], "hand")
    BY <2>1, <2>6 DEF ParkedJob, Parked, Job
  <2> QED BY <1>1, <2>1, <2>6, <2>7, <2>8, ParkedByJob DEF CasSucceeds
<1>2. CASE HandOver
  <2>1. idx \in DOMAIN threads
    BY <1>2 DEF HandOver, DataOK, ScanInv
  <2>2. threads[idx] \in Job
    BY <2>1, JobAt DEF DataOK
  <2>3. ParkedJob(threads[idx], "hand") /\ pc' = "signal"
    BY <1>2, <2>1 DEF HandOver, ParkedInv
  <2>4. [threads[idx] EXCEPT !.event = calls, !.stop = FALSE] \in Job
    BY <2>2, JobUpdates DEF DataOK
  <2>5. ParkedJob([threads[idx] EXCEPT !.event = calls, !.stop = FALSE], "signal")
    BY <2>2, <2>3 DEF ParkedJob, Parked, Job
  <2> QED BY <1>2, <2>1, <2>3, <2>4, <2>5, ParkedByJob DEF HandOver
<1>3. ASSUME NEW job \in Job, NEW out \in Signalled(job), NEW p, NEW q, ParkedJob(job, p),
             <<p, q>> \in {<<"signal", "idle">>, <<"kick", "idle">>, <<"stopSignal", "join">>}
      PROVE  ParkedJob(out, q)
  BY <1>3, SignalledFacts DEF ParkedJob, Parked
<1>4. CASE SignalJob
  <2>1. idx \in DOMAIN threads
    BY <1>4 DEF SignalJob, DataOK, ScanInv
  <2>2. threads[idx] \in Job /\ ParkedJob(threads[idx], "signal") /\ pc' = "idle"
    BY <1>4, <2>1, JobAt DEF SignalJob, Return, DataOK, ParkedInv
  <2>3. PICK out \in Signalled(threads[idx]) : SetJob(idx, out)
    BY <1>4 DEF SignalJob
  <2>4. out \in Job /\ ParkedJob(out, "idle")
    BY <1>3, <2>2, SignalledFacts
  <2> QED BY <2>1, <2>2, <2>3, <2>4, ParkedByJob
<1>5. CASE Kick
  <2>1. Len(threads) \in DOMAIN threads
    BY <1>5 DEF Kick, DataOK, ScanInv
  <2>2. threads[Len(threads)] \in Job /\ ParkedJob(threads[Len(threads)], "kick") /\ pc' = "idle"
    BY <1>5, <2>1, JobAt DEF Kick, Return, DataOK, ParkedInv
  <2>3. PICK out \in Signalled(threads[Len(threads)]) : SetJob(Len(threads), out)
    BY <1>5 DEF Kick
  <2>4. out \in Job /\ ParkedJob(out, "idle")
    BY <1>3, <2>2, SignalledFacts
  <2> QED BY <2>1, <2>2, <2>3, <2>4, ParkedByJob
<1>6. CASE StopSignal
  <2>1. idx \in DOMAIN threads
    BY <1>6 DEF StopSignal, DataOK, ScanInv
  <2>2. threads[idx] \in Job /\ ParkedJob(threads[idx], "stopSignal") /\ pc' = "join"
    BY <1>6, <2>1, JobAt DEF StopSignal, DataOK, ParkedInv
  <2>3. PICK out \in Signalled(threads[idx]) : SetJob(idx, out)
    BY <1>6 DEF StopSignal
  <2>4. out \in Job /\ ParkedJob(out, "join")
    BY <1>3, <2>2, SignalledFacts
  <2> QED BY <2>1, <2>2, <2>3, <2>4, ParkedByJob
<1>7. CASE AwaitStart
  <2>1. Len(threads) \in DOMAIN threads
    BY <1>7 DEF AwaitStart, DataOK, ScanInv
  <2>2. threads[Len(threads)] \in Job /\ ParkedJob(threads[Len(threads)], "await") /\ pc' = "waiting"
    BY <1>7, <2>1, JobAt DEF AwaitStart, DataOK, ParkedInv
  <2>3. [threads[Len(threads)] EXCEPT !.waiters = @ \cup {"dispatcher"}] \in Job
    BY <2>2, JobUpdates
  <2>4. ParkedJob([threads[Len(threads)] EXCEPT !.waiters = @ \cup {"dispatcher"}], "waiting")
    BY <2>2 DEF ParkedJob, Parked, Job
  <2> QED BY <1>7, <2>1, <2>2, <2>3, <2>4, ParkedByJob DEF AwaitStart
<1>8. CASE StopJob
  <2>1. idx \in DOMAIN threads
    BY <1>8 DEF StopJob
  <2>2. threads[idx] \in Job /\ ParkedJob(threads[idx], "stop") /\ pc' = "stopSignal"
    BY <1>8, <2>1, JobAt DEF StopJob, DataOK, ParkedInv
  <2>3. [threads[idx] EXCEPT !.stop = TRUE] \in Job
    BY <2>2, JobUpdates
  <2>4. ParkedJob([threads[idx] EXCEPT !.stop = TRUE], "stopSignal")
    BY <2>2 DEF ParkedJob, Parked, Job
  <2> QED BY <1>8, <2>1, <2>2, <2>3, <2>4, ParkedByJob DEF StopJob
<1> QED BY <1>1, <1>2, <1>4, <1>5, <1>6, <1>7, <1>8

LEMMA ParkedWorker ==
  ASSUME ParkedInv, ScanInv, DataOK, ~SpuriousWakeups, NEW i \in DOMAIN threads,
         WorkerStep(i) \/ \E t \in {"dispatcher", "worker"} : Spurious(i, t)
  PROVE  ParkedInv'
<1>1. threads[i] \in Job /\ ParkedJob(threads[i], pc)
  BY JobAt DEF DataOK, ParkedInv
<1>2. CASE Announce(i)
  <2>1. PICK job \in Signalled(threads[i]) : SetJob(i, [job EXCEPT !.pc = "loop"])
    BY <1>2 DEF Announce
  <2>2. /\ job \in Job /\ job.waiters \subseteq threads[i].waiters
        /\ job.event = threads[i].event /\ job.stop = threads[i].stop
        /\ job.occupied = threads[i].occupied
        /\ threads[i].pc = "start" /\ pc' = pc
    BY <1>1, <1>2, SignalledFacts DEF Announce
  <2>3. [job EXCEPT !.pc = "loop"] \in Job
    BY <2>2, JobUpdates DEF WorkerPc
  <2>4. ParkedJob([job EXCEPT !.pc = "loop"], pc)
    BY <1>1, <2>2 DEF ParkedJob, Parked, Job
  <2> QED BY <2>1, <2>2, <2>3, <2>4, ParkedByJob
<1>3. CASE Wait(i)
  <2>1. [threads[i] EXCEPT !.pc = "wait", !.waiters = @ \cup {"worker"}] \in Job
    BY <1>1, JobUpdates
  <2>2. ParkedJob([threads[i] EXCEPT !.pc = "wait", !.waiters = @ \cup {"worker"}], pc)
    BY <1>1, <1>3 DEF Wait, ParkedJob, Parked, Job
  <2> QED BY <1>3, <2>1, <2>2, ParkedByJob DEF Wait
<1>4. CASE Wake(i)
  <2>1. "worker" \notin threads[i].waiters /\ threads[i].pc = "wait" /\ pc' = pc
    BY <1>4 DEF Wake, WorkerMoves
  <2>2. CASE threads[i].stop
    <3>1. SetJob(i, [threads[i] EXCEPT !.pc = "done"]) /\ [threads[i] EXCEPT !.pc = "done"] \in Job
      BY <1>1, <1>4, <2>2, JobUpdates DEF Wake, WorkerMoves, WorkerPc
    <3>2. ParkedJob([threads[i] EXCEPT !.pc = "done"], pc)
      BY <1>1, <2>1, <2>2 DEF ParkedJob, Parked, Job
    <3> QED BY <2>1, <3>1, <3>2, ParkedByJob
  <2>3. CASE ~threads[i].stop
    <3>1. SetJob(i, [threads[i] EXCEPT !.pc = "process"]) /\ [threads[i] EXCEPT !.pc = "process"] \in Job
      BY <1>1, <1>4, <2>3, JobUpdates DEF Wake, WorkerMoves, WorkerPc
    <3>2. ParkedJob([threads[i] EXCEPT !.pc = "process"], pc)
      BY <1>1, <2>1, <2>3 DEF ParkedJob, Parked, Job
    <3> QED BY <2>1, <3>1, <3>2, ParkedByJob
  <2> QED BY <2>2, <2>3
<1>5. CASE Process(i)
  <2>1. SetJob(i, [threads[i] EXCEPT !.pc = "free"]) /\ [threads[i] EXCEPT !.pc = "free"] \in Job
    BY <1>1, <1>5, JobUpdates DEF Process, WorkerMoves, WorkerPc
  <2>2. ParkedJob([threads[i] EXCEPT !.pc = "free"], pc)
    BY <1>1, <1>5 DEF Process, WorkerMoves, ParkedJob, Parked, Job
  <2> QED BY <1>5, <2>1, <2>2, ParkedByJob DEF Process
<1>6. CASE Free(i)
  <2>1. [threads[i] EXCEPT !.pc = "release", !.event = 0] \in Job
    BY <1>1, JobUpdates
  <2>2. ParkedJob([threads[i] EXCEPT !.pc = "release", !.event = 0], pc)
    BY <1>1, <1>6 DEF Free, ParkedJob, Parked, Job
  <2> QED BY <1>6, <2>1, <2>2, ParkedByJob DEF Free
<1>7. CASE Release(i)
  <2>1. [threads[i] EXCEPT !.pc = "loop", !.occupied = FALSE] \in Job
    BY <1>1, JobUpdates
  <2>2. ParkedJob([threads[i] EXCEPT !.pc = "loop", !.occupied = FALSE], pc)
    BY <1>1, <1>7 DEF Release, ParkedJob, Parked, Job
  <2> QED BY <1>7, <2>1, <2>2, ParkedByJob DEF Release
<1>8. ~\E t \in {"dispatcher", "worker"} : Spurious(i, t)
  BY DEF Spurious
<1> QED BY <1>2, <1>3, <1>4, <1>5, <1>6, <1>7, <1>8 DEF WorkerStep

LEMMA ParkedStep ==
  ASSUME TypeOK, ScanInv, ParkedInv, ~SpuriousWakeups, [Next]_vars
  PROVE  ParkedInv'
<1>1. DataOK /\ found \in BOOLEAN
  BY DEF TypeOK, DataOK
<1>2. ASSUME NEW job, threads = <<>>, threads' = Append(threads, job), ParkedJob(job, pc')
      PROVE  ParkedInv'
  BY <1>2 DEF ParkedInv
<1>3. CASE Spawn
  <2>1. threads = <<>> /\ pc' = "await" /\ ParkedJob(NewJob(calls), "await")
    BY <1>3 DEF Spawn, ScanInv, ParkedJob, Parked, NewJob
  <2> QED BY <1>2, <1>3, <2>1 DEF Spawn
<1>4. CASE SpawnFails
  <2>1. threads = <<>> /\ pc' = "idle" /\ ParkedJob([NewJob(calls) EXCEPT !.pc = "none"], "idle")
    BY <1>4 DEF SpawnFails, Return, ScanInv, ParkedJob, Parked, NewJob
  <2> QED BY <1>2, <1>4, <2>1 DEF SpawnFails
<1> QED BY <1>1, <1>3, <1>4, ParkedElsewhere, ParkedDispatcher, ParkedWorker DEF Next, DispatcherStep

\* Without spurious wakeups thread_pool_start_job never writes an event while the
\* worker is between its wakeup and its unlock, although it does not take the
\* job's mutex for the write: the flag occupied suffices.
THEOREM WritesAlone == ASSUME ~SpuriousWakeups PROVE Spec => []EventExclusive
<1>1. TypeOK /\ ScanInv /\ ParkedInv /\ [Next]_vars => TypeOK' /\ ScanInv' /\ ParkedInv'
  BY TypeStep, ParkedStep
<1>2. Init => ParkedInv
  BY DEF Init, ParkedInv
<1>3. TypeOK /\ ScanInv /\ ParkedInv => EventExclusive
  <2>1. TypeOK /\ ScanInv /\ pc = "hand" => idx \in DOMAIN threads
    BY DEF TypeOK, ScanInv
  <2> QED BY <2>1 DEF ParkedInv, ParkedJob, Parked, EventExclusive, HoldsMutex
<1> QED BY <1>1, <1>2, <1>3, TypeInit, PTL DEF Spec

-------------------------------------------------------------------------------
(* The pool implements the mailbox *)

\* What the mailbox sees of the pool.
Offered == IF pc \in {"scan", "hand", "spawn"} THEN calls ELSE 0
Place == IF threads = <<>> THEN 0 ELSE Pending(1)

BoxStep == [Mailbox!BoxNext]_Mailbox!boxVars

\* A step the mailbox does not see.
LEMMA Unseen ==
  ASSUME Offered' = Offered, Place' = Place, calls' = calls, handled' = handled,
         (pc' # "gone") = (pc # "gone")
  PROVE  BoxStep
BY DEF BoxStep, Mailbox!boxVars, Offered, Place

LEMMA OneIndex ==
  ASSUME NEW n \in Nat, n <= 1, NEW i \in 1..n
  PROVE  i = 1 /\ n = 1
OBVIOUS

\* Replacing the only job.
LEMMA PlaceOfJob ==
  ASSUME DataOK, ScanInv, NEW i \in DOMAIN threads, NEW job \in Job, SetJob(i, job)
  PROVE  /\ i = 1 /\ threads # <<>> /\ Place = Pending(1)
         /\ Place' = IF job.pc = "free" THEN 0 ELSE job.event
<1>1. Len(threads) \in Nat /\ Len(threads) <= 1 /\ i \in 1..Len(threads)
  BY DEF DataOK, ScanInv
<1>2. i = 1 /\ Len(threads) = 1
  BY <1>1, OneIndex
<1>3. threads' \in Seq(Job) /\ Len(threads') = 1 /\ threads'[1] = job
  BY <1>2, SetJobFacts DEF DataOK
<1>4. threads # <<>> /\ threads' # <<>>
  <2>1. \A t \in Seq(Job) : Len(t) = 1 => t # <<>>
    OBVIOUS
  <2> QED BY <1>2, <1>3, <2>1 DEF DataOK
<1> QED BY <1>2, <1>3, <1>4 DEF Place, Pending

\* Replacing the only job by one that owes the same event.
LEMMA PlaceKept ==
  ASSUME DataOK, ScanInv, NEW i \in DOMAIN threads, NEW job \in Job, SetJob(i, job),
         job.pc = threads[i].pc \/ {job.pc, threads[i].pc} \cap {"free"} = {},
         job.event = threads[i].event
  PROVE  Place' = Place
<1>1. i = 1 /\ Place = Pending(1) /\ Place' = (IF job.pc = "free" THEN 0 ELSE job.event)
  BY PlaceOfJob
<1> QED BY <1>1 DEF Pending

LEMMA BoxInit == Init => Mailbox!BoxInit
BY DEF Init, Mailbox!BoxInit

LEMMA OfferStep ==
  ASSUME StartJob, DataOK
  PROVE  Mailbox!Offer
<1>1. threads' = threads /\ (Pending(1))' = Pending(1) /\ handled' = handled
  BY DEF StartJob, Pending
<1>2. pc = "idle" /\ pc' = "scan" /\ calls < MaxEvents /\ calls' = calls + 1
  BY DEF StartJob
<1> QED BY <1>1, <1>2 DEF Mailbox!Offer

\* start_job writes the event: the place is empty because the worker is parked.
LEMMA TakeStep ==
  ASSUME DataOK, ScanInv, OrderInv, ParkedInv, HandOver \/ Spawn \/ SpawnFails
  PROVE  Mailbox!Take
<1>1. calls # 0 /\ calls' = calls /\ handled' = handled
  <2>1. Offering
    BY DEF HandOver, Spawn, SpawnFails, Offering
  <2>2. calls > 0 /\ calls \in Nat
    BY <2>1, MaxEventsAssumption DEF OrderInv, DataOK
  <2>3. calls' = calls /\ handled' = handled
    BY DEF HandOver, Spawn, SpawnFails
  <2> QED BY <2>2, <2>3
<1>2. pc \in {"hand", "spawn"} /\ pc' \in {"signal", "await", "idle"}
  BY DEF HandOver, Spawn, SpawnFails, Return
<1>3. Place = 0 /\ Place' = calls
  <2>1. CASE HandOver
    <3>1. idx \in DOMAIN threads
      BY <2>1 DEF HandOver, DataOK, ScanInv
    <3>2. threads[idx] \in Job /\ ParkedJob(threads[idx], "hand")
      BY <2>1, <3>1, JobAt DEF HandOver, DataOK, ParkedInv
    <3>3. threads[idx].event = 0 /\ threads[idx].pc \in {"loop", "wait"}
      BY <3>2 DEF ParkedJob, Parked
    <3> DEFINE job == [threads[idx] EXCEPT !.event = calls, !.stop = FALSE]
    <3>4. job \in Job
      BY <3>2, JobUpdates DEF DataOK
    <3>5. job.event = calls /\ job.pc = threads[idx].pc
      BY <3>2 DEF Job
    <3>6. SetJob(idx, job)
      BY <2>1 DEF HandOver
    <3>7. idx = 1 /\ Place = Pending(1) /\ Place' = (IF job.pc = "free" THEN 0 ELSE job.event)
      BY <3>1, <3>4, <3>6, PlaceOfJob
    <3> QED BY <3>3, <3>5, <3>7 DEF Pending
  <2>2. ASSUME NEW job \in Job, threads = <<>>, threads' = Append(threads, job),
               job.event = calls, job.pc # "free"
        PROVE  Place = 0 /\ Place' = calls
    <3>1. threads' # <<>> /\ threads'[1] = job
      BY <2>2
    <3> QED BY <2>2, <3>1 DEF Place, Pending
  <2>3. CASE Spawn \/ SpawnFails
    <3>1. threads = <<>>
      BY <2>3 DEF Spawn, SpawnFails, ScanInv
    <3>2. NewJob(calls) \in Job /\ [NewJob(calls) EXCEPT !.pc = "none"] \in Job
      BY NewJobFacts DEF DataOK
    <3>3. /\ NewJob(calls).event = calls /\ NewJob(calls).pc = "start"
          /\ [NewJob(calls) EXCEPT !.pc = "none"].event = calls
          /\ [NewJob(calls) EXCEPT !.pc = "none"].pc = "none"
      BY DEF NewJob
    <3> QED BY <2>2, <2>3, <3>1, <3>2, <3>3 DEF Spawn, SpawnFails
  <2> QED BY <2>1, <2>3
<1> QED BY <1>1, <1>2, <1>3 DEF Mailbox!Take, Place

LEMMA EndScanStep ==
  ASSUME DataOK, OrderInv, EndScan
  PROVE  BoxStep
<1>1. calls # 0 /\ pc = "scan" /\ UNCHANGED <<threads, calls, handled>>
  BY MaxEventsAssumption DEF EndScan, OrderInv, Offering, DataOK
<1>2. Place' = Place
  BY <1>1 DEF Place, Pending
<1>3. CASE pc' = "idle"
  <2>1. Mailbox!Refuse
    BY <1>1, <1>2, <1>3 DEF Mailbox!Refuse, Place
  <2> QED BY <2>1 DEF BoxStep, Mailbox!BoxNext
<1>4. CASE pc' = "spawn"
  BY <1>1, <1>2, <1>4, Unseen DEF Offered
<1> QED BY <1>3, <1>4 DEF EndScan, Return

LEMMA ServeStep ==
  ASSUME DataOK, ScanInv, NEW i \in DOMAIN threads, Process(i)
  PROVE  BoxStep
<1>1. threads[i] \in Job /\ threads[i].pc = "process" /\ pc' = pc /\ calls' = calls
  BY JobAt DEF DataOK, Process, WorkerMoves
<1> DEFINE job == [threads[i] EXCEPT !.pc = "free"]
<1>2. job \in Job /\ SetJob(i, job) /\ job.pc = "free"
  <2>1. job \in Job
    BY <1>1, JobUpdates DEF WorkerPc
  <2>2. SetJob(i, job)
    BY DEF Process, WorkerMoves
  <2>3. job.pc = "free"
    BY <1>1 DEF Job
  <2> QED BY <2>1, <2>2, <2>3
<1>3. i = 1 /\ Place = Pending(1) /\ Place' = 0
  BY <1>2, PlaceOfJob
<1>4. Place = threads[i].event
  BY <1>1, <1>3 DEF Pending
<1>5. Offered' = Offered /\ (pc' # "gone") = (pc # "gone")
  BY <1>1 DEF Offered
<1>6. CASE threads[i].event = 0
  BY <1>1, <1>3, <1>4, <1>5, <1>6, Unseen DEF Process
<1>7. CASE threads[i].event # 0
  <2>1. handled' = Append(handled, Place)
    BY <1>4, <1>7 DEF Process
  <2>2. Mailbox!Serve
    BY <1>1, <1>3, <1>4, <1>5, <1>7, <2>1 DEF Mailbox!Serve, Place, Offered
  <2> QED BY <2>2 DEF BoxStep, Mailbox!BoxNext
<1> QED BY <1>6, <1>7

LEMMA CloseStep ==
  ASSUME Destroyed
  PROVE  BoxStep
<1>1. /\ pc = "stop" /\ pc' = "gone" /\ threads' = <<>>
      /\ calls' = calls /\ handled' = handled
  BY DEF Destroyed
<1>2. Mailbox!Close
  BY <1>1 DEF Mailbox!Close
<1> QED BY <1>2 DEF BoxStep, Mailbox!BoxNext

\* The other steps of the dispatcher leave what the mailbox sees alone.
LEMMA DispatcherUnseen ==
  ASSUME DataOK, ScanInv,
         \/ CasSucceeds \/ CasFails \/ SignalJob \/ AwaitStart \/ Started \/ Kick
         \/ Destroy \/ StopJob \/ StopSignal \/ Join \/ JoinNothing \/ UNCHANGED vars
  PROVE  BoxStep
<1>1. /\ calls' = calls /\ handled' = handled /\ Offered' = Offered
      /\ (pc' # "gone") = (pc # "gone")
  BY DEF CasSucceeds, CasFails, SignalJob, AwaitStart, Started, Kick, Return, Destroy, StopJob,
         StopSignal, Join, JoinNothing, vars, Offered
<1>2. CASE CasFails \/ Started \/ Destroy \/ Join \/ JoinNothing \/ UNCHANGED vars
  <2>1. threads' = threads
    BY <1>2 DEF CasFails, Started, Destroy, Join, JoinNothing, vars
  <2>2. Place' = Place
    BY <2>1 DEF Place, Pending
  <2> QED BY <1>1, <2>2, Unseen
<1>3. CASE CasSucceeds
  <2>1. idx \in DOMAIN threads /\ threads[idx] \in Job
    BY <1>3, JobAt DEF CasSucceeds, DataOK
  <2> DEFINE job == [threads[idx] EXCEPT !.occupied = TRUE]
  <2>2. job \in Job /\ job.event = threads[idx].event /\ job.pc = threads[idx].pc
    BY <2>1, JobUpdates DEF Job
  <2>3. SetJob(idx, job)
    BY <1>3 DEF CasSucceeds
  <2>4. Place' = Place
    BY <2>1, <2>2, <2>3, PlaceKept
  <2> QED BY <1>1, <2>4, Unseen
<1>4. ASSUME NEW i \in DOMAIN threads, \E job \in Signalled(threads[i]) : SetJob(i, job)
      PROVE  Place' = Place
  BY <1>4, JobAt, SignalledFacts, PlaceKept DEF DataOK
<1>5. CASE SignalJob \/ StopSignal
  <2>1. idx \in DOMAIN threads
    <3>1. CASE SignalJob
      BY <3>1 DEF SignalJob, DataOK, ScanInv
    <3>2. CASE StopSignal
      BY <3>2 DEF StopSignal, ScanInv
    <3> QED BY <1>5, <3>1, <3>2
  <2> QED BY <1>1, <1>4, <1>5, <2>1, Unseen DEF SignalJob, StopSignal
<1>6. CASE Kick
  <2>1. Len(threads) \in DOMAIN threads
    BY <1>6 DEF Kick, DataOK, ScanInv
  <2> QED BY <1>1, <1>4, <1>6, <2>1, Unseen DEF Kick
<1>7. CASE AwaitStart
  <2>0. Len(threads) \in DOMAIN threads
    BY <1>7 DEF AwaitStart, DataOK, ScanInv
  <2>1. threads[Len(threads)] \in Job
    BY <2>0, JobAt DEF DataOK
  <2> DEFINE job == [threads[Len(threads)] EXCEPT !.waiters = @ \cup {"dispatcher"}]
  <2>2. job \in Job
    BY <2>1, JobUpdates
  <2>3. job.event = threads[Len(threads)].event /\ job.pc = threads[Len(threads)].pc
    BY <2>1 DEF Job
  <2>4. SetJob(Len(threads), job)
    BY <1>7 DEF AwaitStart
  <2>5. Place' = Place
    BY <2>0, <2>2, <2>3, <2>4, PlaceKept
  <2> QED BY <1>1, <2>5, Unseen
<1>8. CASE StopJob
  <2>1. idx \in DOMAIN threads /\ threads[idx] \in Job
    BY <1>8, JobAt DEF StopJob, DataOK
  <2> DEFINE job == [threads[idx] EXCEPT !.stop = TRUE]
  <2>2. job \in Job /\ job.event = threads[idx].event /\ job.pc = threads[idx].pc
    BY <2>1, JobUpdates DEF Job
  <2>3. SetJob(idx, job)
    BY <1>8 DEF StopJob
  <2>4. Place' = Place
    BY <2>1, <2>2, <2>3, PlaceKept
  <2> QED BY <1>1, <2>4, Unseen
<1> QED BY <1>2, <1>3, <1>5, <1>6, <1>7, <1>8

LEMMA WorkerUnseen ==
  ASSUME DataOK, ScanInv, NEW i \in DOMAIN threads,
         Announce(i) \/ Wait(i) \/ Wake(i) \/ Free(i) \/ Release(i)
  PROVE  BoxStep
<1>1. /\ calls' = calls /\ handled' = handled /\ Offered' = Offered
      /\ (pc' # "gone") = (pc # "gone")
  BY DEF Announce, Wait, Wake, Free, Release, Offered
<1>2. threads[i] \in Job
  BY JobAt DEF DataOK
<1>3. SUFFICES ASSUME TRUE PROVE Place' = Place
  BY <1>1, Unseen
<1>4. CASE Announce(i)
  <2>1. PICK out \in Signalled(threads[i]) : SetJob(i, [out EXCEPT !.pc = "loop"])
    BY <1>4 DEF Announce
  <2>2. out \in Job /\ out.event = threads[i].event /\ threads[i].pc = "start"
    BY <1>2, <1>4, SignalledFacts DEF Announce
  <2> DEFINE job == [out EXCEPT !.pc = "loop"]
  <2>3. job \in Job
    BY <2>2, JobUpdates DEF WorkerPc
  <2>4. job.event = threads[i].event /\ job.pc = "loop"
    BY <2>2 DEF Job
  <2> QED BY <2>1, <2>2, <2>3, <2>4, PlaceKept
<1>5. CASE Wait(i)
  <2> DEFINE job == [threads[i] EXCEPT !.pc = "wait", !.waiters = @ \cup {"worker"}]
  <2>1. job \in Job
    BY <1>2, JobUpdates
  <2>2. job.event = threads[i].event /\ job.pc = "wait"
    BY <1>2 DEF Job
  <2>3. SetJob(i, job) /\ threads[i].pc = "loop"
    BY <1>5 DEF Wait
  <2> QED BY <2>1, <2>2, <2>3, PlaceKept
<1>6. CASE Wake(i)
  <2>1. PICK q \in {"done", "process"} : SetJob(i, [threads[i] EXCEPT !.pc = q])
    BY <1>6 DEF Wake, WorkerMoves
  <2> DEFINE job == [threads[i] EXCEPT !.pc = q]
  <2>2. job \in Job
    BY <1>2, JobUpdates DEF WorkerPc
  <2>3. job.event = threads[i].event /\ job.pc = q
    BY <1>2 DEF Job
  <2>4. threads[i].pc = "wait"
    BY <1>6 DEF Wake, WorkerMoves
  <2> QED BY <2>1, <2>2, <2>3, <2>4, PlaceKept
<1>7. CASE Free(i)
  <2> DEFINE job == [threads[i] EXCEPT !.pc = "release", !.event = 0]
  <2>1. job \in Job
    BY <1>2, JobUpdates
  <2>2. job.event = 0
    BY <1>2 DEF Job
  <2>3. SetJob(i, job) /\ threads[i].pc = "free"
    BY <1>7 DEF Free
  <2>4. i = 1 /\ Place = Pending(1) /\ Place' = (IF job.pc = "free" THEN 0 ELSE job.event)
    BY <2>1, <2>3, PlaceOfJob
  <2> QED BY <2>2, <2>3, <2>4 DEF Pending
<1>8. CASE Release(i)
  <2> DEFINE job == [threads[i] EXCEPT !.pc = "loop", !.occupied = FALSE]
  <2>1. job \in Job
    BY <1>2, JobUpdates
  <2>2. job.event = threads[i].event /\ job.pc = "loop"
    BY <1>2 DEF Job
  <2>3. SetJob(i, job) /\ threads[i].pc = "release"
    BY <1>8 DEF Release
  <2> QED BY <2>1, <2>2, <2>3, PlaceKept
<1> QED BY <1>4, <1>5, <1>6, <1>7, <1>8

LEMMA MailboxStep ==
  ASSUME TypeOK, ScanInv, OrderInv, ParkedInv, ~SpuriousWakeups, [Next]_vars
  PROVE  BoxStep
<1>1. DataOK
  BY DEF TypeOK, DataOK
<1>2. CASE StartJob
  BY <1>1, <1>2, OfferStep DEF BoxStep, Mailbox!BoxNext
<1>3. CASE HandOver \/ Spawn \/ SpawnFails
  BY <1>1, <1>3, TakeStep DEF BoxStep, Mailbox!BoxNext
<1>4. CASE EndScan
  BY <1>1, <1>4, EndScanStep
<1>5. CASE Destroyed
  BY <1>5, CloseStep
<1>6. CASE \/ CasSucceeds \/ CasFails \/ SignalJob \/ AwaitStart \/ Started \/ Kick
           \/ Destroy \/ StopJob \/ StopSignal \/ Join \/ JoinNothing \/ UNCHANGED vars
  BY <1>1, <1>6, DispatcherUnseen
<1>7. ASSUME NEW i \in DOMAIN threads,
             WorkerStep(i) \/ \E t \in {"dispatcher", "worker"} : Spurious(i, t)
      PROVE  BoxStep
  BY <1>1, <1>7, ServeStep, WorkerUnseen DEF WorkerStep, Spurious
<1> QED BY <1>2, <1>3, <1>4, <1>5, <1>6, <1>7 DEF Next, DispatcherStep

\* Without spurious wakeups the pool is a mailbox with one place: no event that
\* thread_pool_start_job wrote is written over, freed unhandled or handled twice.
THEOREM PoolIsMailbox == ASSUME ~SpuriousWakeups PROVE Spec => ImplementsMailbox
<1>1. TypeOK /\ ScanInv /\ OrderInv /\ ParkedInv /\ [Next]_vars
        => TypeOK' /\ ScanInv' /\ OrderInv' /\ ParkedInv'
  BY TypeStep, OrderStep, ParkedStep
<1>2. Init => ParkedInv
  BY DEF Init, ParkedInv
<1>3. TypeOK /\ ScanInv /\ OrderInv /\ ParkedInv /\ [Next]_vars => [Mailbox!BoxNext]_Mailbox!boxVars
  BY MailboxStep DEF BoxStep
<1> QED BY <1>1, <1>2, <1>3, TypeInit, OrderInit, BoxInit, PTL
        DEF Spec, ImplementsMailbox, Mailbox!BoxSpec

-------------------------------------------------------------------------------
(* The end of the pool *)

\* A job that no thread will release.
DeadJob(job) ==
  /\ job.occupied
  /\ job.pc = "none" \/ (job.pc = "wait" /\ "worker" \in job.waiters)

\* No worker takes a step on a dead job.
LEMMA DeadIsStill ==
  ASSUME DataOK, ScanInv, ~SpuriousWakeups, NEW d \in DOMAIN threads, DeadJob(threads[d]),
         NEW i \in DOMAIN threads,
         WorkerStep(i) \/ \E t \in {"dispatcher", "worker"} : Spurious(i, t)
  PROVE  FALSE
<1>1. Len(threads) \in Nat /\ Len(threads) <= 1 /\ d \in 1..Len(threads) /\ i \in 1..Len(threads)
  BY DEF DataOK, ScanInv
<1>2. i = d
  BY <1>1, OneIndex
<1>3. DeadJob(threads[i])
  BY <1>2
<1> QED
  BY <1>3 DEF DeadJob, WorkerStep, Announce, Wait, Wake, Process, Free, Release, WorkerMoves, Spurious

LEMMA DeadStep ==
  ASSUME TypeOK, ScanInv, ~SpuriousWakeups, [Next]_vars, Dead, pc' # "stop"
  PROVE  Dead'
<1>1. DataOK
  BY DEF TypeOK, DataOK
<1>2. PICK d \in DOMAIN threads : DeadJob(threads[d])
  BY DEF Dead, DeadJob
<1>3. pc \in {"idle", "scan"}
  BY DEF Dead
<1>4. SUFFICES threads' = threads /\ pc' \in {"idle", "scan"}
  BY <1>2 DEF Dead, DeadJob
<1>5. CASE StartJob \/ CasFails \/ UNCHANGED vars
  BY <1>3, <1>5 DEF StartJob, CasFails, vars
<1>6. CASE CasSucceeds
  <2>1. idx \in DOMAIN threads /\ pc = "scan"
    BY <1>6 DEF CasSucceeds
  <2>2. (idx = 1 \/ (idx = 2 /\ Len(threads) = 1)) /\ Len(threads) <= 1
    BY <2>1, Zenon DEF ScanInv
  <2>3. Len(threads) \in Nat /\ d \in 1..Len(threads) /\ idx \in 1..Len(threads)
    BY <1>1, <1>2, <2>1 DEF DataOK
  <2>4. idx = 1 /\ d = 1
    BY <2>2, <2>3, OneIndex
  <2>5. found = FALSE
    BY <2>1, <2>4 DEF ScanInv
  <2>6. threads[idx].occupied = FALSE
    BY <1>6, <2>5 DEF CasSucceeds
  <2> QED BY <1>2, <2>4, <2>6 DEF DeadJob
<1>7. CASE EndScan
  <2>1. found = TRUE
    <3>1. Len(threads) \in Nat /\ d \in 1..Len(threads) /\ Len(threads) <= 1
      BY <1>1, <1>2 DEF DataOK, ScanInv
    <3>2. 1 \in DOMAIN threads
      BY <1>2, <3>1, OneIndex
    <3>3. idx # 1
      BY <1>7, <3>2 DEF EndScan
    <3> QED BY <1>7, <3>3 DEF EndScan, ScanInv
  <2> QED BY <1>7, <2>1 DEF EndScan, Return
<1>8. CASE HandOver \/ SignalJob \/ Spawn \/ SpawnFails \/ AwaitStart \/ Started \/ Kick
  BY <1>3, <1>8 DEF HandOver, SignalJob, Spawn, SpawnFails, AwaitStart, Started, Kick
<1>9. CASE Destroy \/ StopJob \/ StopSignal \/ Join \/ JoinNothing \/ Destroyed
  BY <1>3, <1>9 DEF Destroy, StopJob, StopSignal, Join, JoinNothing, Destroyed
<1>10. ~\E i \in DOMAIN threads :
          WorkerStep(i) \/ \E t \in {"dispatcher", "worker"} : Spurious(i, t)
  BY <1>1, <1>2, DeadIsStill
<1> QED BY <1>5, <1>6, <1>7, <1>8, <1>9, <1>10 DEF Next, DispatcherStep

\* One lost wakeup or one failed pthread_create ends the pool until it is
\* destroyed: the job stays occupied (thread_pool.c:40, :65 and connections.c:125).
THEOREM DeadForGood == ASSUME ~SpuriousWakeups PROVE Spec => DeadStaysDead
<1>1. TypeOK /\ ScanInv /\ [Next]_vars => TypeOK' /\ ScanInv'
  BY TypeStep
<1>2. TypeOK /\ ScanInv /\ [Next]_vars => [Dead /\ pc' # "stop" => Dead']_vars
  BY DeadStep
<1> QED BY <1>1, <1>2, TypeInit, PTL DEF Spec, DeadStaysDead
===============================================================================
