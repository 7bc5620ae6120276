----------------------------- MODULE WorkerRuntime -----------------------------
(***************************************************************************)
(* The OS-thread workers of the V++ virtual machine (src/src/runtime/vm.cpp) *)
(* at the granularity of its mutexes and condition variables.              *)
(*                                                                         *)
(* Thread 0 is the thread that owns the VM; thread t > 0 is the OS thread  *)
(* of the task with id t.  A critical section that neither blocks nor      *)
(* reads a flag written outside the lock is one step.  PARK is two steps,  *)
(* because the destructor of the owner stores cancelRequested and notifies *)
(* WITHOUT the mutex of the task.                                          *)
(***************************************************************************)
EXTENDS Integers, FiniteSets

CONSTANTS MaxId,     \* bound on the ids handed out: one OS thread per id
          Calls,     \* bound on the thread intrinsics one thread executes
          Delayed    \* the tasks made by `tác vụ sau`: park once, then return

TaskIds == 1 .. MaxId
Owner == 0
Threads == 0 .. MaxId

ASSUME ConstantsOK ==
    /\ MaxId \in Nat \ {0}
    /\ Calls \in Nat \ {0}
    /\ Delayed \subseteq TaskIds

Free == -1          \* nobody holds the mutex
NoTask == 0

VARIABLES
    \* ThreadRuntimeState
    registry,        \* the ids in tasks
    nextId,
    stopping,
    \* one WorkerTask per id
    status,          \* WorkerStatus
    cancelRequested,
    joinClaimed,
    mutex,           \* Free or the thread that holds it across steps
    sleepers,        \* the threads blocked in cv
    os,              \* the std::thread: none, live, exited or joined
    \* the threads
    pc,
    target,          \* the task a call is about
    mode,            \* timeout of a WAIT in progress, or the call it is part of
    verdict,         \* how the worker is about to end
    calls,           \* thread intrinsics the thread may still execute
    \* the caller's view
    acked,           \* the tasks `hủy tác vụ` returned 1 for
    tasks,           \* the destructor's copy of the registry
    todo             \* the tasks left in its current loop

registryVars == <<registry, nextId, stopping>>
taskVars == <<status, cancelRequested, joinClaimed, mutex, sleepers, os>>
threadVars == <<pc, target, mode, verdict, calls>>
vars == <<registry, nextId, stopping, status, cancelRequested, joinClaimed,
          mutex, sleepers, os, pc, target, mode, verdict, calls, acked,
          tasks, todo>>

Statuses == {"Running", "Done", "Cancelled", "Failed"}
Verdicts == Statuses \ {"Running"}
Modes == {"now", "timed", "forever", "kill"}
OwnerPcs == {"sdBegin", "sdCancel", "sdNotify", "sdJoin", "sdJoining", "down"}
Pcs == {"off", "check", "exec", "parking", "parked", "cancelNotify", "waiting",
        "joining", "publish", "notifyDone"} \cup OwnerPcs

\* The labels at which target names the task of the call in progress.
CallPcs == {"cancelNotify", "waiting", "joining", "sdNotify", "sdJoining"}

RegistryOK ==
    /\ nextId \in 1 .. MaxId + 1
    /\ registry \in SUBSET TaskIds
    /\ \A t \in registry : t < nextId
    /\ stopping \in BOOLEAN

TaskOK ==
    /\ status \in [TaskIds -> Statuses]
    /\ cancelRequested \in [TaskIds -> BOOLEAN]
    /\ joinClaimed \in [TaskIds -> BOOLEAN]
    /\ mutex \in [TaskIds -> Threads \cup {Free}]
    /\ sleepers \in [TaskIds -> SUBSET Threads]
    /\ os \in [TaskIds -> {"none", "live", "exited", "joined"}]

ThreadOK ==
    /\ pc \in [Threads -> Pcs]
    /\ target \in [Threads -> Threads]
    /\ mode \in [Threads -> Modes]
    /\ verdict \in [Threads -> Verdicts]
    /\ calls \in [Threads -> 0 .. Calls]
    /\ \A th \in Threads : pc[th] \in CallPcs => target[th] \in TaskIds

CallerOK ==
    /\ acked \in SUBSET TaskIds
    /\ tasks \in SUBSET TaskIds
    /\ todo \in SUBSET TaskIds

TypeOK == RegistryOK /\ TaskOK /\ ThreadOK /\ CallerOK

Init ==
    /\ registry = {}
    /\ nextId = 1
    /\ stopping = FALSE
    /\ status = [t \in TaskIds |-> "Running"]
    /\ cancelRequested = [t \in TaskIds |-> FALSE]
    /\ joinClaimed = [t \in TaskIds |-> FALSE]
    /\ mutex = [t \in TaskIds |-> Free]
    /\ sleepers = [t \in TaskIds |-> {}]
    /\ os = [t \in TaskIds |-> "none"]
    /\ pc = [th \in Threads |-> IF th = Owner THEN "check" ELSE "off"]
    /\ target = [th \in Threads |-> NoTask]
    /\ mode = [th \in Threads |-> "now"]
    /\ verdict = [th \in Threads |-> "Done"]
    /\ calls = [th \in Threads |-> IF th \in Delayed THEN 1 ELSE Calls]
    /\ acked = {}
    /\ tasks = {}
    /\ todo = {}

--------------------------------------------------------------------------------
(* Control shared by the operations.                                         *)

Goto(th, label) == pc' = [pc EXCEPT ![th] = label]

\* A thread ends: a worker leaves its try block with a verdict, the owner
\* leaves run() and destroys the VM.
Ends(th, v) ==
    /\ Goto(th, IF th = Owner THEN "sdBegin" ELSE "publish")
    /\ verdict' = IF th = Owner THEN verdict ELSE [verdict EXCEPT ![th] = v]

\* A thread intrinsic is executed by the opcode the loop has just fetched.
Spends(th) ==
    /\ pc[th] = "exec"
    /\ calls[th] > 0
    /\ calls' = [calls EXCEPT ![th] = @ - 1]

Executes(th) == Spends(th) /\ th \notin Delayed

\* An intrinsic that reports err throws a LanguageException: the program
\* catches it and goes on, or the thread ends.
Throws(th) ==
    \/ Goto(th, "check") /\ UNCHANGED verdict
    \/ Ends(th, "Failed")

\* The locals of a call die with it.
Forgets(th) ==
    /\ target' = [target EXCEPT ![th] = NoTask]
    /\ mode' = [mode EXCEPT ![th] = "now"]

Joinable(t) == os[t] \in {"live", "exited"}
Completed(t) == status[t] # "Running"

\* The claim that makes one thread, and no other, join the task.
MayClaimTwice(t) == Joinable(t)
MayClaim(t) == ~joinClaimed[t] /\ Joinable(t)

--------------------------------------------------------------------------------
(* runInterpreterLoop.                                                       *)

\* Top of the loop: a worker that was asked to stop throws VmWorkerCancelled.
LoopTop(th) ==
    /\ pc[th] = "check"
    /\ IF th # Owner /\ cancelRequested[th]
         THEN Ends(th, "Cancelled")
         ELSE Goto(th, "exec") /\ UNCHANGED verdict
    /\ UNCHANGED <<registryVars, taskVars, target, mode, calls, acked, tasks, todo>>

\* Any other opcode.
Compute(th) ==
    /\ pc[th] = "exec"
    /\ Goto(th, "check")
    /\ UNCHANGED <<registryVars, taskVars, target, mode, verdict, calls, acked, tasks, todo>>

\* The last frame returns, or an exception nobody catches leaves the loop.
Finish(th) ==
    /\ pc[th] = "exec"
    /\ \E v \in {"Done", "Failed"} :
         /\ th \in Delayed => calls[th] = 0 /\ v = "Done"
         /\ Ends(th, v)
    /\ UNCHANGED <<registryVars, taskVars, target, mode, calls, acked, tasks, todo>>

--------------------------------------------------------------------------------
(* OP_VM_THREAD_SPAWN.                                                       *)

Accepts == ~stopping

IdKept == nextId
IdTaken == nextId + 1

\* The OS thread is created and the task registered under registryMutex.
Spawn(th) ==
    /\ Executes(th)
    /\ Accepts
    /\ nextId \in TaskIds
    /\ nextId' = IdTaken
    /\ registry' = registry \cup {nextId}
    /\ os' = [os EXCEPT ![nextId] = "live"]
    /\ pc' = [pc EXCEPT ![th] = "check", ![nextId] = "check"]
    /\ UNCHANGED <<stopping, status, cancelRequested, joinClaimed, mutex,
                   sleepers, target, mode, verdict, acked, tasks, todo>>

\* stopping, or the ids are used up: nothing is registered.
SpawnRefused(th) ==
    /\ Executes(th)
    /\ ~Accepts \/ nextId \notin TaskIds
    /\ Throws(th)
    /\ UNCHANGED <<registryVars, taskVars, target, mode, acked, tasks, todo>>

\* std::thread throws system_error: the id is consumed, the task is dropped.
SpawnFails(th) ==
    /\ Executes(th)
    /\ Accepts
    /\ nextId \in TaskIds
    /\ nextId' = IdTaken
    /\ Throws(th)
    /\ UNCHANGED <<registry, stopping, taskVars, target, mode, acked, tasks, todo>>

--------------------------------------------------------------------------------
(* OP_VM_THREAD_PARK, by a worker on its own task.                           *)

\* Lock, and test cancelRequested: the last test before the thread sleeps.
ParkBegins(th) ==
    /\ Spends(th)
    /\ th \in TaskIds
    /\ mutex[th] = Free
    /\ IF cancelRequested[th]
         THEN Ends(th, "Cancelled") /\ UNCHANGED mutex
         ELSE /\ mutex' = [mutex EXCEPT ![th] = th]
              /\ Goto(th, "parking")
              /\ UNCHANGED verdict
    /\ UNCHANGED <<registryVars, status, cancelRequested, joinClaimed, sleepers,
                   os, target, mode, acked, tasks, todo>>

\* wait_for blocks and releases the mutex in one step.
ParkSleeps(th) ==
    /\ pc[th] = "parking"
    /\ mutex' = [mutex EXCEPT ![th] = Free]
    /\ sleepers' = [sleepers EXCEPT ![th] = @ \cup {th}]
    /\ Goto(th, "parked")
    /\ UNCHANGED <<registryVars, status, cancelRequested, joinClaimed, os,
                   target, mode, verdict, calls, acked, tasks, todo>>

\* The predicate of wait_for.
WakesCancelled(th) == TRUE
ParkCancelled(th) == cancelRequested[th]

\* wait_for returns its predicate: at a notification it goes back to sleep when
\* the predicate is false, at the deadline it returns it as it is.
ParkWakes(th) ==
    /\ pc[th] = "parked"
    /\ mutex[th] = Free
    /\ th \notin sleepers[th]
    /\ IF ParkCancelled(th)
         THEN Ends(th, "Cancelled") /\ UNCHANGED sleepers
         ELSE /\ sleepers' = [sleepers EXCEPT ![th] = @ \cup {th}]
              /\ UNCHANGED <<pc, verdict>>
    /\ UNCHANGED <<registryVars, status, cancelRequested, joinClaimed, mutex, os,
                   target, mode, calls, acked, tasks, todo>>

ParkDeadline(th) ==
    /\ pc[th] = "parked"
    /\ mutex[th] = Free
    /\ sleepers' = [sleepers EXCEPT ![th] = @ \ {th}]
    /\ IF ParkCancelled(th)
         THEN Ends(th, "Cancelled")
         ELSE Goto(th, "check") /\ UNCHANGED verdict
    /\ UNCHANGED <<registryVars, status, cancelRequested, joinClaimed, mutex, os,
                   target, mode, calls, acked, tasks, todo>>

\* A condition variable may wake a thread for no reason.
SpuriousWakeup(th) ==
    /\ \E t \in TaskIds :
         /\ th \in sleepers[t]
         /\ sleepers' = [sleepers EXCEPT ![t] = @ \ {th}]
    /\ UNCHANGED <<registryVars, status, cancelRequested, joinClaimed, mutex, os,
                   threadVars, acked, tasks, todo>>

--------------------------------------------------------------------------------
(* Lookup of an id, OP_VM_THREAD_STATUS and OP_VM_THREAD_CANCEL.             *)

\* A bad argument, an id nobody registered, or PARK outside of a worker.
InvalidCall(th) ==
    /\ Executes(th)
    /\ Throws(th)
    /\ UNCHANGED <<registryVars, taskVars, target, mode, acked, tasks, todo>>

ReadStatus(th) ==
    /\ Executes(th)
    /\ \E t \in registry : mutex[t] = Free
    /\ Goto(th, "check")
    /\ UNCHANGED <<registryVars, taskVars, target, mode, verdict, acked, tasks, todo>>

CancelsUnlocked(t) == TRUE
CancelsLocked(t) == mutex[t] = Free

\* `hủy luồng` and `hủy tác vụ` both cancel first; only the second one ("kill")
\* waits for the verdict, and only if the cancellation was accepted.
Cancel(th) ==
    /\ Executes(th)
    /\ \E t \in registry, m \in {"now", "kill"} :
         /\ CancelsLocked(t)
         /\ IF Completed(t)
              THEN /\ Goto(th, "check")
                   /\ UNCHANGED <<cancelRequested, target, mode>>
              ELSE /\ cancelRequested' = [cancelRequested EXCEPT ![t] = TRUE]
                   /\ target' = [target EXCEPT ![th] = t]
                   /\ mode' = [mode EXCEPT ![th] = m]
                   /\ Goto(th, "cancelNotify")
    /\ UNCHANGED <<registryVars, status, joinClaimed, mutex, sleepers, os,
                   verdict, acked, tasks, todo>>

\* notify_all after the lock is released; "kill" goes on with WAIT(-1).
CancelNotifies(th) ==
    /\ pc[th] = "cancelNotify"
    /\ sleepers' = [sleepers EXCEPT ![target[th]] = {}]
    /\ IF mode[th] = "kill"
         THEN Goto(th, "waiting") /\ UNCHANGED <<target, mode>>
         ELSE Goto(th, "check") /\ Forgets(th)
    /\ UNCHANGED <<registryVars, status, cancelRequested, joinClaimed, mutex, os,
                   verdict, calls, acked, tasks, todo>>

--------------------------------------------------------------------------------
(* OP_VM_THREAD_WAIT.                                                        *)

\* The call returns to the caller.
Returns(th, t) ==
    /\ Goto(th, "check")
    /\ Forgets(th)
    /\ acked' = IF mode[th] = "kill" THEN acked \cup {t} ELSE acked

\* Whoever first sees a verdict claims the join.
SnapshotClaims(t) == Completed(t) /\ MayClaim(t)

\* The snapshot under the lock.
TakesSnapshot(th, t) ==
    IF SnapshotClaims(t)
      THEN /\ joinClaimed' = [joinClaimed EXCEPT ![t] = TRUE]
           /\ Goto(th, "joining")
           /\ UNCHANGED <<target, mode, acked>>
      ELSE Returns(th, t) /\ UNCHANGED joinClaimed

WaitBegins(th) ==
    /\ Executes(th)
    /\ \E t \in registry, m \in {"now", "timed", "forever"} :
         /\ target' = [target EXCEPT ![th] = t]
         /\ mode' = [mode EXCEPT ![th] = m]
    /\ Goto(th, "waiting")
    /\ UNCHANGED <<registryVars, taskVars, verdict, acked, tasks, todo>>

\* Lock and test the predicate: sleep while the task runs and time is left.
WaitSleeps(th) ==
    LET t == target[th] IN
    /\ pc[th] = "waiting"
    /\ mode[th] # "now"
    /\ th \notin sleepers[t]
    /\ mutex[t] = Free
    /\ ~Completed(t)
    /\ sleepers' = [sleepers EXCEPT ![t] = @ \cup {th}]
    /\ UNCHANGED <<registryVars, status, cancelRequested, joinClaimed, mutex, os,
                   threadVars, acked, tasks, todo>>

\* The predicate holds, or the timeout (0, or the deadline) has passed.
WaitIsOver(th) ==
    \/ Completed(target[th]) /\ th \notin sleepers[target[th]]
    \/ mode[th] \in {"now", "timed"}

WaitEnds(th) ==
    LET t == target[th] IN
    /\ pc[th] = "waiting"
    /\ mutex[t] = Free
    /\ WaitIsOver(th)
    /\ sleepers' = [sleepers EXCEPT ![t] = @ \ {th}]
    /\ TakesSnapshot(th, t)
    /\ UNCHANGED <<registryVars, status, cancelRequested, mutex, os, verdict,
                   calls, tasks, todo>>

\* std::thread::join blocks until the OS thread has exited.
Joins(th) ==
    LET t == target[th] IN
    /\ pc[th] = "joining"
    /\ os[t] = "exited"
    /\ os' = [os EXCEPT ![t] = "joined"]
    /\ Returns(th, t)
    /\ UNCHANGED <<registryVars, status, cancelRequested, joinClaimed, mutex,
                   sleepers, verdict, calls, tasks, todo>>

--------------------------------------------------------------------------------
(* The end of a worker thread: verdict under the lock, then notify_all.      *)

Publishes(th) ==
    /\ pc[th] = "publish"
    /\ mutex[th] = Free
    /\ status' = [status EXCEPT ![th] = verdict[th]]
    /\ verdict' = [verdict EXCEPT ![th] = "Done"]
    /\ Goto(th, "notifyDone")
    /\ UNCHANGED <<registryVars, cancelRequested, joinClaimed, mutex, sleepers, os,
                   target, mode, calls, acked, tasks, todo>>

NotifiesNobody(th) == sleepers
NotifiesAll(th) == [sleepers EXCEPT ![th] = {}]

NotifiesAndExits(th) ==
    /\ pc[th] = "notifyDone"
    /\ sleepers' = NotifiesAll(th)
    /\ os' = [os EXCEPT ![th] = "exited"]
    /\ Goto(th, "off")
    /\ UNCHANGED <<registryVars, status, cancelRequested, joinClaimed, mutex,
                   target, mode, verdict, calls, acked, tasks, todo>>

--------------------------------------------------------------------------------
(* shutdownThreadRuntime, called by the destructor of the owner.             *)

\* Under registryMutex: no task is registered after this step, and the loops
\* below run over the tasks registered so far.
ShutdownBegins ==
    /\ pc[Owner] = "sdBegin"
    /\ stopping' = TRUE
    /\ tasks' = registry
    /\ todo' = registry
    /\ Goto(Owner, "sdCancel")
    /\ UNCHANGED <<registry, nextId, taskVars, target, mode, verdict, calls, acked>>

RequestsNothing(t) == cancelRequested
RequestsCancel(t) == [cancelRequested EXCEPT ![t] = TRUE]

\* First loop: the flag is stored without the mutex of the task ...
ShutdownCancels ==
    /\ pc[Owner] = "sdCancel"
    /\ \E t \in todo :
         /\ cancelRequested' = RequestsCancel(t)
         /\ target' = [target EXCEPT ![Owner] = t]
    /\ Goto(Owner, "sdNotify")
    /\ UNCHANGED <<registryVars, status, joinClaimed, mutex, sleepers, os,
                   mode, verdict, calls, acked, tasks, todo>>

\* ... and so is the notification.
ShutdownNotifies ==
    /\ pc[Owner] = "sdNotify"
    /\ sleepers' = [sleepers EXCEPT ![target[Owner]] = {}]
    /\ todo' = todo \ {target[Owner]}
    /\ Goto(Owner, "sdCancel")
    /\ Forgets(Owner)
    /\ UNCHANGED <<registryVars, status, cancelRequested, joinClaimed, mutex, os,
                   verdict, calls, acked, tasks>>

\* Second loop over the same snapshot of the registry.
ShutdownStartsJoining ==
    /\ pc[Owner] = "sdCancel"
    /\ todo = {}
    /\ todo' = tasks
    /\ Goto(Owner, "sdJoin")
    /\ UNCHANGED <<registryVars, taskVars, target, mode, verdict, calls, acked, tasks>>

ShutdownClaims ==
    /\ pc[Owner] = "sdJoin"
    /\ \E t \in todo :
         /\ mutex[t] = Free
         /\ IF MayClaim(t)
              THEN /\ joinClaimed' = [joinClaimed EXCEPT ![t] = TRUE]
                   /\ target' = [target EXCEPT ![Owner] = t]
                   /\ Goto(Owner, "sdJoining")
                   /\ UNCHANGED todo
              ELSE /\ todo' = todo \ {t}
                   /\ UNCHANGED <<joinClaimed, target, pc>>
    /\ UNCHANGED <<registryVars, status, cancelRequested, mutex, sleepers, os,
                   mode, verdict, calls, acked, tasks>>

ShutdownJoins ==
    LET t == target[Owner] IN
    /\ pc[Owner] = "sdJoining"
    /\ os[t] = "exited"
    /\ os' = [os EXCEPT ![t] = "joined"]
    /\ todo' = todo \ {t}
    /\ Goto(Owner, "sdJoin")
    /\ Forgets(Owner)
    /\ UNCHANGED <<registryVars, status, cancelRequested, joinClaimed, mutex,
                   sleepers, verdict, calls, acked, tasks>>

\* tasks.clear() drops the last reference to every WorkerTask.
ShutdownClears ==
    /\ pc[Owner] = "sdJoin"
    /\ todo = {}
    /\ registry' = {}
    /\ Goto(Owner, "down")
    /\ UNCHANGED <<nextId, stopping, taskVars, target, mode, verdict, calls,
                   acked, tasks, todo>>

Shutdown ==
    \/ ShutdownBegins \/ ShutdownCancels \/ ShutdownNotifies \/ ShutdownStartsJoining
    \/ ShutdownClaims \/ ShutdownJoins \/ ShutdownClears

\* The process is over.
Stopped == pc[Owner] = "down" /\ UNCHANGED vars

--------------------------------------------------------------------------------
\* Everything a thread does on its own.
Step(th) ==
    \/ LoopTop(th) \/ Compute(th) \/ Finish(th)
    \/ Spawn(th) \/ SpawnRefused(th) \/ SpawnFails(th)
    \/ ParkBegins(th) \/ ParkSleeps(th) \/ ParkWakes(th) \/ ParkDeadline(th)
    \/ InvalidCall(th) \/ ReadStatus(th) \/ Cancel(th) \/ CancelNotifies(th)
    \/ WaitBegins(th) \/ WaitSleeps(th) \/ WaitEnds(th) \/ Joins(th)
    \/ Publishes(th) \/ NotifiesAndExits(th)

Next ==
    \/ \E th \in Threads : Step(th) \/ SpuriousWakeup(th)
    \/ Shutdown
    \/ Stopped

Spec == Init /\ [][Next]_vars

\* The operating system runs every thread that can run and lets every deadline
\* pass; a condition variable owes nobody a spurious wakeup.
FairSpec ==
    /\ Spec
    /\ \A th \in Threads :
         WF_vars(Step(th)) /\ WF_vars(ParkDeadline(th)) /\ WF_vars(WaitEnds(th))
    /\ WF_vars(Shutdown)

--------------------------------------------------------------------------------
(* Properties.                                                               *)

\* A worker asleep in PARK whose cancellation was requested has a notification
\* on its way: CANCEL stores the flag under the mutex PARK sleeps on, so the
\* wakeup cannot fall between PARK's test and its sleep (vm.cpp:1651, 1813).
\* Claimed up to the moment the owner begins its destructor.
CancelReachesPark ==
    \A t \in TaskIds :
        pc[t] = "parked" /\ t \in sleepers[t] /\ cancelRequested[t]
        => \/ stopping
           \/ \E th \in Threads : pc[th] = "cancelNotify" /\ target[th] = t

\* The same claim for every cancellation, the destructor's included: park can be
\* woken by a cooperative cancellation ("đồng thời.vi":45).
EveryCancelReachesPark ==
    \A t \in TaskIds :
        pc[t] = "parked" /\ t \in sleepers[t] /\ cancelRequested[t]
        => \E th \in Threads :
             pc[th] \in {"cancelNotify", "sdNotify"} /\ target[th] = t

\* std::thread::join is called at most once per task, whatever waiters and the
\* destructor do at the same time (joinClaimed): two joins are undefined.
InJoin(th) == pc[th] \in {"joining", "sdJoining"}
OneJoiner ==
    \A t \in TaskIds :
        /\ \A a, b \in Threads :
             InJoin(a) /\ InJoin(b) /\ target[a] = t /\ target[b] = t => a = b
        /\ \A a \in Threads : InJoin(a) /\ target[a] = t => os[t] # "joined"

\* A waiter joins only a worker that has its verdict, so the join waits for the
\* exit of the thread and never for V++ code, and no worker joins itself.
WaiterJoinsFinished ==
    \A th \in Threads :
        pc[th] = "joining" => Completed(target[th]) /\ target[th] # th

\* When the destructor of the owner returns no worker thread is left: each one
\* was joined, also the ones other workers claimed (a WorkerTask destroyed with a
\* joinable std::thread would terminate the process).
NothingOutlivesOwner ==
    pc[Owner] = "down" => \A t \in TaskIds : os[t] \in {"none", "joined"}

\* `hủy tác vụ` returns 1 only after the worker has written its verdict
\* ("đồng thời.vi":73), whatever wakes its wait up.
AckedIsFinal == \A t \in acked : Completed(t)

\* A cancellation is seen by the worker, and acknowledged only once it was.
CancelsAreSeen == CancelReachesPark /\ AckedIsFinal

\* Whoever waits and however the owner ends, each thread is joined once, when
\* it has finished, and before its owner is gone.
JoinsAreSafe == OneJoiner /\ WaiterJoinsFinished /\ NothingOutlivesOwner

\* A thread that waits for a task is released once the task has its verdict.
WaiterReleased ==
    \A th \in Threads, t \in TaskIds :
        (pc[th] = "waiting" /\ target[th] = t /\ Completed(t)) ~> pc[th] # "waiting"

\* Tasks that wait for each other, or one for itself, without a timeout: WAIT
\* looks at the status of its target only, never at its own cancellation.
CyclicWait ==
    \E ring \in SUBSET TaskIds :
        /\ ring # {}
        /\ \A th \in ring :
             pc[th] = "waiting" /\ mode[th] \in {"forever", "kill"} /\ target[th] \in ring

\* The destructor of the owner returns, whatever the tasks do and however they
\* wait, and only a cycle of waits without a timeout can keep it from that.
ShutdownReturns == pc[Owner] = "sdBegin" ~> (pc[Owner] = "down" \/ CyclicWait)

\* The runtime implements the life cycle of TaskLifecycle.
Lifecycle == INSTANCE TaskLifecycle WITH
    Tasks <- TaskIds,
    life <- [t \in TaskIds |-> IF os[t] = "none" THEN "Absent" ELSE status[t]],
    asked <- {t \in TaskIds : cancelRequested[t]},
    live <- {t \in TaskIds : os[t] = "live"},
    accepting <- ~stopping,
    closed <- (pc[Owner] = "down")

LifecycleSpec == Lifecycle!Spec

================================================================================
