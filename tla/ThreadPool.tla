------------------------------ MODULE ThreadPool ------------------------------
(***************************************************************************)
(* The thread pool of common/structures/thread_pool.c together with the    *)
(* loop its workers run, process_messages of common/handlers/connections.c *)
(* with the handling of one event as a single step.                        *)
(*                                                                         *)
(* One thread, the dispatcher, calls thread_pool_start_job (from           *)
(* process_poll_events) and thread_pool_destroy (from server_state_free).  *)
(* Worker i runs process_messages on threads[i].  They share the job:      *)
(* occupied is an atomic flag, mutex and cond are a pthread mutex and      *)
(* condition variable, event is a plain structure.                         *)
(*                                                                         *)
(* A condition variable is the set of threads blocked on it; a thread that *)
(* left the set still has to take the mutex again.  The dispatcher takes   *)
(* a job's mutex only around its own cond_wait, so it never holds the      *)
(* mutex between two steps; the worker holds it in HoldsMutex.  pool->lock *)
(* is taken by the dispatcher alone and is left out.                       *)
(*                                                                         *)
(* Event n is the event of the n-th call of thread_pool_start_job; event 0 *)
(* is an event whose message array is empty, which is what                 *)
(* message_array_free leaves behind.                                       *)
(***************************************************************************)
EXTENDS Integers, Sequences

CONSTANTS
  MaxEvents,        \* bound on the number of calls of thread_pool_start_job
  SpuriousWakeups,  \* may pthread_cond_wait return without a signal
  CreateMayFail     \* may pthread_create fail

ASSUME MaxEventsAssumption == MaxEvents \in Nat \ {0}
ASSUME SpuriousAssumption == SpuriousWakeups \in BOOLEAN
ASSUME CreateAssumption == CreateMayFail \in BOOLEAN

VARIABLES
  threads,  \* pool->threads: the jobs, worker i's program counter included
  pc,       \* where the dispatcher is
  idx,      \* its loop counter i, counted from 1
  found,    \* its local variable found
  calls,    \* number of calls of thread_pool_start_job so far
  result,   \* what the last call returned
  handled   \* the events handled, oldest first (history)

vars == <<threads, pc, idx, found, calls, result, handled>>

-------------------------------------------------------------------------------
DispatcherPc == {"idle",                                   \* outside the pool
                 "scan", "hand", "signal",                 \* start_job: reuse
                 "spawn", "await", "waiting", "kick",      \* start_job: new thread
                 "stop", "stopSignal", "join",             \* destroy
                 "gone", "crashed"}

WorkerPc == {"none",     \* pthread_create failed, there is no thread
             "start", "loop", "wait", "process", "free", "release", "done"}

Job == [event    : 0..MaxEvents,
        stop     : BOOLEAN,                       \* event.from = -1
        occupied : BOOLEAN,
        waiters  : SUBSET {"dispatcher", "worker"},
        pc       : WorkerPc]

NewJob(e) == [event |-> e, stop |-> FALSE, occupied |-> TRUE,
              waiters |-> {}, pc |-> "start"]

HoldsMutex(job) == job.pc \in {"process", "free"}

\* The jobs pthread_cond_signal may leave: one thread that waits is released,
\* and the signal is lost if none does.
Signalled(job) ==
  IF job.waiters = {}
  THEN {job}
  ELSE {[job EXCEPT !.waiters = @ \ {t}] : t \in job.waiters}

SetJob(i, job) == threads' = [threads EXCEPT ![i] = job]

Init ==
  /\ threads = <<>>
  /\ pc = "idle"
  /\ idx = 1
  /\ found = FALSE
  /\ calls = 0
  /\ result = TRUE
  /\ handled = <<>>

-------------------------------------------------------------------------------
(* thread_pool_start_job *)

Return(r) == pc' = "idle" /\ result' = r

\* Mutant: the loop counter starts one too low.
StartJobBelow ==
  /\ pc = "idle" /\ calls < MaxEvents
  /\ calls' = calls + 1 /\ found' = FALSE /\ idx' = 0 /\ pc' = "scan"
  /\ UNCHANGED <<threads, result, handled>>

StartJob ==
  /\ pc = "idle"
  /\ calls < MaxEvents
  /\ calls' = calls + 1
  /\ found' = FALSE
  /\ idx' = 1
  /\ pc' = "scan"
  /\ UNCHANGED <<threads, result, handled>>

\* atomic_compare_exchange_strong(&job->occupied, &found, true)
CasSucceeds ==
  /\ pc = "scan" /\ idx \in DOMAIN threads
  /\ threads[idx].occupied = found
  /\ SetJob(idx, [threads[idx] EXCEPT !.occupied = TRUE])
  /\ found' = TRUE
  /\ pc' = "hand"
  /\ UNCHANGED <<idx, calls, result, handled>>

\* Mutant: expected is a constant, so found is not overwritten.
CasFailsKeepsFound ==
  /\ pc = "scan" /\ idx \in DOMAIN threads /\ threads[idx].occupied # found
  /\ idx' = idx + 1
  /\ UNCHANGED <<threads, pc, found, calls, result, handled>>

\* Mutant: the same job is tried until it is free.
CasFailsSpins ==
  /\ pc = "scan" /\ idx \in DOMAIN threads /\ threads[idx].occupied # found
  /\ UNCHANGED <<threads, pc, idx, found, calls, result, handled>>

\* A compare-exchange that fails stores the value it saw in found.
CasFails ==
  /\ pc = "scan" /\ idx \in DOMAIN threads
  /\ threads[idx].occupied # found
  /\ found' = threads[idx].occupied
  /\ idx' = idx + 1
  /\ UNCHANGED <<threads, pc, calls, result, handled>>

EndScan ==
  /\ pc = "scan" /\ idx \notin DOMAIN threads
  /\ \/ found /\ Return(TRUE)
     \/ ~found /\ pc' = "spawn" /\ UNCHANGED result
  /\ UNCHANGED <<threads, idx, found, calls, handled>>

HandOver ==
  /\ pc = "hand"
  /\ SetJob(idx, [threads[idx] EXCEPT !.event = calls, !.stop = FALSE])
  /\ pc' = "signal"
  /\ UNCHANGED <<idx, found, calls, result, handled>>

SignalJob ==
  /\ pc = "signal"
  /\ \E job \in Signalled(threads[idx]) : SetJob(idx, job)
  /\ Return(TRUE)
  /\ UNCHANGED <<idx, found, calls, handled>>

Spawn ==
  /\ pc = "spawn"
  /\ threads' = Append(threads, NewJob(calls))
  /\ pc' = "await"
  /\ UNCHANGED <<idx, found, calls, result, handled>>

\* The job stays in the array, occupied, with no thread behind it.
SpawnFails ==
  /\ pc = "spawn" /\ CreateMayFail
  /\ threads' = Append(threads, [NewJob(calls) EXCEPT !.pc = "none"])
  /\ Return(FALSE)
  /\ UNCHANGED <<idx, found, calls, handled>>

\* pthread_mutex_lock and pthread_cond_wait, which gives the mutex back.
AwaitStart ==
  /\ pc = "await"
  /\ ~HoldsMutex(threads[Len(threads)])
  /\ SetJob(Len(threads), [threads[Len(threads)] EXCEPT !.waiters = @ \cup {"dispatcher"}])
  /\ pc' = "waiting"
  /\ UNCHANGED <<idx, found, calls, result, handled>>

\* pthread_cond_wait returns with the mutex, which is unlocked again.
Started ==
  /\ pc = "waiting"
  /\ "dispatcher" \notin threads[Len(threads)].waiters
  /\ ~HoldsMutex(threads[Len(threads)])
  /\ pc' = "kick"
  /\ UNCHANGED <<threads, idx, found, calls, result, handled>>

Kick ==
  /\ pc = "kick"
  /\ \E job \in Signalled(threads[Len(threads)]) : SetJob(Len(threads), job)
  /\ Return(TRUE)
  /\ UNCHANGED <<idx, found, calls, handled>>

-------------------------------------------------------------------------------
(* thread_pool_destroy *)

Destroy ==
  /\ pc = "idle"
  /\ pc' = "stop"
  /\ idx' = 1
  /\ UNCHANGED <<threads, found, calls, result, handled>>

StopJob ==
  /\ pc = "stop" /\ idx \in DOMAIN threads
  /\ SetJob(idx, [threads[idx] EXCEPT !.stop = TRUE])
  /\ pc' = "stopSignal"
  /\ UNCHANGED <<idx, found, calls, result, handled>>

StopSignal ==
  /\ pc = "stopSignal"
  /\ \E job \in Signalled(threads[idx]) : SetJob(idx, job)
  /\ pc' = "join"
  /\ UNCHANGED <<idx, found, calls, result, handled>>

\* pthread_join waits for the worker to return from process_messages.
Join ==
  /\ pc = "join" /\ threads[idx].pc = "done"
  /\ idx' = idx + 1
  /\ pc' = "stop"
  /\ UNCHANGED <<threads, found, calls, result, handled>>

\* pthread_join on a thread_fd that pthread_create never set is undefined: it
\* fails with ESRCH or the process crashes.
JoinNothing ==
  /\ pc = "join" /\ threads[idx].pc = "none"
  /\ \/ pc' = "stop" /\ idx' = idx + 1
     \/ pc' = "crashed" /\ UNCHANGED idx
  /\ UNCHANGED <<threads, found, calls, result, handled>>

Destroyed ==
  /\ pc = "stop" /\ idx \notin DOMAIN threads
  /\ threads' = <<>>
  /\ pc' = "gone"
  /\ UNCHANGED <<idx, found, calls, result, handled>>

-------------------------------------------------------------------------------
(* process_messages, worker i *)

WorkerMoves(i, from, to) ==
  /\ pc # "crashed"
  /\ threads[i].pc = from
  /\ SetJob(i, [threads[i] EXCEPT !.pc = to])

\* Mutant: the worker does not signal that it is there.
AnnounceNothing(i) ==
  /\ WorkerMoves(i, "start", "loop")
  /\ UNCHANGED <<pc, idx, found, calls, result, handled>>

\* pthread_cond_signal before the loop, without the mutex.
Announce(i) ==
  /\ pc # "crashed"
  /\ threads[i].pc = "start"
  /\ \E job \in Signalled(threads[i]) : SetJob(i, [job EXCEPT !.pc = "loop"])
  /\ UNCHANGED <<pc, idx, found, calls, result, handled>>

\* pthread_mutex_lock and pthread_cond_wait, entered unconditionally: the
\* worker does not look whether it has already been given an event.
Wait(i) ==
  /\ pc # "crashed"
  /\ threads[i].pc = "loop"
  /\ SetJob(i, [threads[i] EXCEPT !.pc = "wait", !.waiters = @ \cup {"worker"}])
  /\ UNCHANGED <<pc, idx, found, calls, result, handled>>

\* Mutant: event.from is not tested.
WakeIgnoresStop(i) ==
  /\ "worker" \notin threads[i].waiters
  /\ WorkerMoves(i, "wait", "process")
  /\ UNCHANGED <<pc, idx, found, calls, result, handled>>

\* pthread_cond_wait returns with the mutex held, then event.from is tested.
Wake(i) ==
  /\ "worker" \notin threads[i].waiters
  /\ WorkerMoves(i, "wait", IF threads[i].stop THEN "done" ELSE "process")
  /\ UNCHANGED <<pc, idx, found, calls, result, handled>>

\* Mutant: occupied is cleared before the unlock.
ProcessReleasesEarly(i) ==
  /\ pc # "crashed" /\ threads[i].pc = "process"
  /\ SetJob(i, [threads[i] EXCEPT !.pc = "free", !.occupied = FALSE])
  /\ handled' = IF threads[i].event = 0 THEN handled ELSE Append(handled, threads[i].event)
  /\ UNCHANGED <<pc, idx, found, calls, result>>

\* Mutant: the loop over the messages is not entered.
ProcessNothing(i) ==
  /\ WorkerMoves(i, "process", "free")
  /\ UNCHANGED <<pc, idx, found, calls, result, handled>>

\* The loop over the messages of the event.
Process(i) ==
  /\ WorkerMoves(i, "process", "free")
  /\ handled' = IF threads[i].event = 0
                THEN handled
                ELSE Append(handled, threads[i].event)
  /\ UNCHANGED <<pc, idx, found, calls, result>>

\* Mutant: the message array keeps its length.
FreeKeepsEvent(i) ==
  /\ WorkerMoves(i, "free", "release")
  /\ UNCHANGED <<pc, idx, found, calls, result, handled>>

\* message_array_free_list, message_array_free and pthread_mutex_unlock.
Free(i) ==
  /\ pc # "crashed"
  /\ threads[i].pc = "free"
  /\ SetJob(i, [threads[i] EXCEPT !.pc = "release", !.event = 0])
  /\ UNCHANGED <<pc, idx, found, calls, result, handled>>

\* atomic_store(&job->occupied, false)
Release(i) ==
  /\ pc # "crashed"
  /\ threads[i].pc = "release"
  /\ SetJob(i, [threads[i] EXCEPT !.pc = "loop", !.occupied = FALSE])
  /\ UNCHANGED <<pc, idx, found, calls, result, handled>>

Spurious(i, t) ==
  /\ SpuriousWakeups /\ pc # "crashed"
  /\ t \in threads[i].waiters
  /\ SetJob(i, [threads[i] EXCEPT !.waiters = @ \ {t}])
  /\ UNCHANGED <<pc, idx, found, calls, result, handled>>

-------------------------------------------------------------------------------
DispatcherStep ==
  \/ CasSucceeds \/ CasFails \/ EndScan \/ HandOver \/ SignalJob
  \/ Spawn \/ AwaitStart \/ Started \/ Kick
  \/ StopJob \/ StopSignal \/ Join \/ JoinNothing \/ Destroyed

WorkerStep(i) ==
  \/ Announce(i) \/ Wait(i) \/ Wake(i) \/ Process(i) \/ Free(i) \/ Release(i)

Next ==
  \/ StartJob \/ Destroy \/ SpawnFails
  \/ DispatcherStep
  \/ \E i \in DOMAIN threads :
       \/ WorkerStep(i)
       \/ \E t \in {"dispatcher", "worker"} : Spurious(i, t)

Spec == Init /\ [][Next]_vars

\* Both threads are scheduled: a thread that can take its next step takes it.
\* Calls of the pool, failures and spurious wakeups are never forced.
Fairness ==
  /\ WF_vars(DispatcherStep)
  /\ \A i \in 1..MaxEvents : WF_vars(i \in DOMAIN threads /\ WorkerStep(i))

FairSpec == Spec /\ Fairness

-------------------------------------------------------------------------------
(* Properties *)

\* Type invariant: every variable and every field of a job (struct thread_job).
TypeOK ==
  /\ threads \in Seq(Job)
  /\ pc \in DispatcherPc
  /\ idx \in Nat \ {0}
  /\ found \in BOOLEAN
  /\ calls \in 0..MaxEvents
  /\ result \in BOOLEAN
  /\ handled \in Seq(1..MaxEvents)

Destroying == pc \in {"stop", "stopSignal", "join", "gone", "crashed"}

\* The event job i still owes: freed messages (worker at "free") are not owed.
Pending(i) == IF threads[i].pc = "free" THEN 0 ELSE threads[i].event

WasHandled(e) == \E k \in DOMAIN handled : handled[k] = e

\* Events are handled at most once and in the order of the calls of start_job,
\* whatever wakeups are lost, spurious or late.
HandledInOrder ==
  \A j, k \in DOMAIN handled : j < k => handled[j] < handled[k]

\* start_job writes job->event without the job's mutex; it never does so while
\* the worker, which reads the event under the mutex, is between its wakeup
\* and its unlock.  (The occupied flag alone has to guarantee this.)
EventExclusive == pc = "hand" => ~HoldsMutex(threads[idx])

\* Seen from outside the pool is a mailbox with one place (JobMailbox): an
\* event that start_job wrote into a job leaves it only by being handled or with
\* the pool, it is never written over, never freed before it was handled and
\* never handled twice.  (Without spurious wakeups: a worker woken for nothing
\* may free an event that was just written.)
Mailbox == INSTANCE JobMailbox WITH
  offered  <- calls,
  offering <- IF pc \in {"scan", "hand", "spawn"} THEN calls ELSE 0,
  place    <- IF threads = <<>> THEN 0 ELSE Pending(1),
  served   <- handled,
  open     <- pc # "gone"

ImplementsMailbox == Mailbox!BoxSpec

\* A job that no thread will ever release: there is no thread behind it, or its
\* worker is blocked and no start_job is about to signal it.
Dead ==
  /\ pc \in {"idle", "scan"}
  /\ \E i \in DOMAIN threads :
       /\ threads[i].occupied
       /\ \/ threads[i].pc = "none"
          \/ threads[i].pc = "wait" /\ "worker" \in threads[i].waiters

\* One lost wakeup, or one failed pthread_create, ends the pool: until it is
\* destroyed every later event is refused by CasFails and no other thread is
\* made.  (Without spurious wakeups.)
DeadStaysDead == [][Dead /\ pc' # "stop" => Dead']_vars

\* Once there is a job, start_job does not block: it comes back whatever the
\* worker does.
ReuseReturns ==
  (pc \in {"scan", "hand", "signal"} /\ threads # <<>>) ~> pc = "idle"

\* A worker that was woken for an event handles it, unless the pool is being
\* destroyed meanwhile.
WokenHandles ==
  \A e \in 1..MaxEvents :
    (\E i \in DOMAIN threads : /\ Pending(i) = e
                               /\ threads[i].pc = "wait"
                               /\ "worker" \notin threads[i].waiters)
      ~> (WasHandled(e) \/ Destroying)

\* The start-up wait ends if it is entered before the new thread signals.  (If it
\* is entered after, nothing will ever end it: the wait has no predicate.)
StartupEnds ==
  (pc = "waiting" /\ threads[Len(threads)].pc = "start") ~> pc = "kick"

\* thread_pool_destroy returns if the worker is in its pthread_cond_wait when
\* event.from is set.  (The signal is lost on a worker that is anywhere else.)
DestroyReturns ==
  (pc = "stopSignal" /\ threads[idx].pc = "wait") ~> pc = "gone"

-------------------------------------------------------------------------------
(* What the documentation says and the code does not do *)

\* thread_pool.h: start_job starts a job and returns "True for success".  An
\* event for which it returned TRUE is in a job or was handled.
TrueMeansStarted ==
  [][pc # "idle" /\ pc' = "idle" /\ result' =>
       \/ \E i \in DOMAIN threads' : threads'[i].event = calls
       \/ \E k \in DOMAIN handled' : handled'[k] = calls]_vars

\* thread_pool.c, at the pthread_cond_signal of the reuse path: "signal for the
\* job to start".  An event written into a job is handled.
SignalStartsJob ==
  \A e \in 1..MaxEvents :
    (pc = "signal" /\ calls = e) ~> (WasHandled(e) \/ Destroying)
===============================================================================
