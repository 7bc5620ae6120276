-------------------------- MODULE WorkerRuntimeProofs --------------------------
(***************************************************************************)
(* Theorems about WorkerRuntime for every number of tasks, every budget of *)
(* calls and every set of pairs that wait for each other.                  *)
(***************************************************************************)
EXTENDS WorkerRuntime, TLAPS

LEMMA IdFacts ==
    /\ Owner \in Threads /\ NoTask \in Threads
    /\ TaskIds \subseteq Threads /\ TaskIds \subseteq Int
    /\ Owner \notin TaskIds
    /\ \A th \in Threads : th # Owner => th \in TaskIds
BY ConstantsOK DEF Owner, NoTask, Threads, TaskIds

LEMMA LabelFacts ==
    /\ {"off", "check", "exec", "parking", "parked", "cancelNotify", "waiting",
        "joining", "publish", "notifyDone"} \subseteq Pcs
    /\ {"sdBegin", "sdCancel", "sdNotify", "sdJoin", "sdJoining", "down"}
         \subseteq Pcs
    /\ {"now", "timed", "forever", "kill"} \subseteq Modes
    /\ {"Done", "Failed", "Cancelled"} \subseteq Verdicts
    /\ Verdicts \subseteq Statuses
    /\ "Running" \in Statuses /\ "Running" \notin Verdicts
BY DEF Pcs, OwnerPcs, Modes, Verdicts, Statuses

\* Every reachable state is well typed, and every registered id was handed out.
THEOREM TypeCorrect == Spec => []TypeOK
<1> USE ConstantsOK, IdFacts, LabelFacts DEF ConstantsOK, TypeOK, registryVars, taskVars, threadVars, Goto
<1>1. Init => TypeOK
  <2> SUFFICES ASSUME Init PROVE TypeOK
    OBVIOUS
  <2>1. RegistryOK
    <3>1. nextId = 1 /\ registry = {} /\ stopping = FALSE
      BY DEF Init
    <3>2. nextId \in 1 .. MaxId + 1
      BY <3>1
    <3> QED
      BY <3>1, <3>2 DEF RegistryOK
  <2>2. TaskOK
    BY DEF Init, TaskOK
  <2>3. ThreadOK
    BY DEF Init, ThreadOK, CallPcs
  <2>4. CallerOK
    BY DEF Init, CallerOK
  <2> QED
    BY <2>1, <2>2, <2>3, <2>4
<1>2. TypeOK /\ [Next]_vars => TypeOK'
  <2> SUFFICES ASSUME TypeOK, [Next]_vars PROVE TypeOK'
    OBVIOUS
  <2>1. ASSUME NEW th \in Threads, LoopTop(th) PROVE TypeOK'
    <3>1. RegistryOK'
      BY <2>1 DEF LoopTop, Ends, RegistryOK
    <3>2. TaskOK'
      BY <2>1 DEF LoopTop, Ends, TaskOK
    <3>3. ThreadOK'
      BY <2>1 DEF LoopTop, Ends, ThreadOK, CallPcs
    <3>4. CallerOK'
      BY <2>1 DEF LoopTop, Ends, CallerOK
    <3> QED
      BY <3>1, <3>2, <3>3, <3>4
  <2>2. ASSUME NEW th \in Threads, Compute(th) PROVE TypeOK'
    <3>1. RegistryOK'
      BY <2>2 DEF Compute, RegistryOK
    <3>2. TaskOK'
      BY <2>2 DEF Compute, TaskOK
    <3>3. ThreadOK'
      BY <2>2 DEF Compute, ThreadOK, CallPcs
    <3>4. CallerOK'
      BY <2>2 DEF Compute, CallerOK
    <3> QED
      BY <3>1, <3>2, <3>3, <3>4
  <2>3. ASSUME NEW th \in Threads, Finish(th) PROVE TypeOK'
    <3>1. RegistryOK'
      BY <2>3 DEF Finish, Ends, RegistryOK
    <3>2. TaskOK'
      BY <2>3 DEF Finish, Ends, TaskOK
    <3>3. ThreadOK'
      BY <2>3 DEF Finish, Ends, ThreadOK, CallPcs
    <3>4. CallerOK'
      BY <2>3 DEF Finish, Ends, CallerOK
    <3> QED
      BY <3>1, <3>2, <3>3, <3>4
  <2>4. ASSUME NEW th \in Threads, Spawn(th) PROVE TypeOK'
    <3>1. RegistryOK'
      BY <2>4 DEF Spawn, Executes, Spends, Accepts, IdTaken, RegistryOK, TaskIds
    <3>2. TaskOK'
      BY <2>4 DEF Spawn, Executes, Spends, Accepts, IdTaken, TaskOK
    <3>3. ThreadOK'
      BY <2>4 DEF Spawn, Executes, Spends, Accepts, IdTaken, ThreadOK, CallPcs
    <3>4. CallerOK'
      BY <2>4 DEF Spawn, Executes, Spends, Accepts, IdTaken, CallerOK
    <3> QED
      BY <3>1, <3>2, <3>3, <3>4
  <2>5. ASSUME NEW th \in Threads, SpawnRefused(th) PROVE TypeOK'
    <3>1. RegistryOK'
      BY <2>5 DEF SpawnRefused, Executes, Spends, Throws, Ends, RegistryOK
    <3>2. TaskOK'
      BY <2>5 DEF SpawnRefused, Executes, Spends, Throws, Ends, TaskOK
    <3>3. ThreadOK'
      BY <2>5 DEF SpawnRefused, Executes, Spends, Throws, Ends, ThreadOK, CallPcs
    <3>4. CallerOK'
      BY <2>5 DEF SpawnRefused, Executes, Spends, Throws, Ends, CallerOK
    <3> QED
      BY <3>1, <3>2, <3>3, <3>4
  <2>6. ASSUME NEW th \in Threads, SpawnFails(th) PROVE TypeOK'
    <3>1. RegistryOK'
      BY <2>6 DEF SpawnFails, Executes, Spends, Throws, Ends, Accepts, IdTaken, RegistryOK, TaskIds
    <3>2. TaskOK'
      BY <2>6 DEF SpawnFails, Executes, Spends, Throws, Ends, Accepts, IdTaken, TaskOK
    <3>3. ThreadOK'
      BY <2>6 DEF SpawnFails, Executes, Spends, Throws, Ends, Accepts, IdTaken, ThreadOK, CallPcs
    <3>4. CallerOK'
      BY <2>6 DEF SpawnFails, Executes, Spends, Throws, Ends, Accepts, IdTaken, CallerOK
    <3> QED
      BY <3>1, <3>2, <3>3, <3>4
  <2>7. ASSUME NEW th \in Threads, ParkBegins(th) PROVE TypeOK'
    <3>1. RegistryOK'
      BY <2>7 DEF ParkBegins, Spends, Ends, RegistryOK
    <3>2. TaskOK'
      BY <2>7 DEF ParkBegins, Spends, Ends, TaskOK
    <3>3. ThreadOK'
      BY <2>7 DEF ParkBegins, Spends, Ends, ThreadOK, CallPcs
    <3>4. CallerOK'
      BY <2>7 DEF ParkBegins, Spends, Ends, CallerOK
    <3> QED
      BY <3>1, <3>2, <3>3, <3>4
  <2>8. ASSUME NEW th \in Threads, ParkSleeps(th) PROVE TypeOK'
    <3>1. RegistryOK'
      BY <2>8 DEF ParkSleeps, RegistryOK
    <3>2. TaskOK'
      BY <2>8 DEF ParkSleeps, TaskOK
    <3>3. ThreadOK'
      BY <2>8 DEF ParkSleeps, ThreadOK, CallPcs
    <3>4. CallerOK'
      BY <2>8 DEF ParkSleeps, CallerOK
    <3> QED
      BY <3>1, <3>2, <3>3, <3>4
  <2>9. ASSUME NEW th \in Threads, ParkWakes(th) PROVE TypeOK'
    <3>1. RegistryOK'
      BY <2>9 DEF ParkWakes, Ends, RegistryOK
    <3>2. TaskOK'
      BY <2>9 DEF ParkWakes, Ends, TaskOK
    <3>3. ThreadOK'
      BY <2>9 DEF ParkWakes, Ends, ThreadOK, CallPcs
    <3>4. CallerOK'
      BY <2>9 DEF ParkWakes, Ends, CallerOK
    <3> QED
      BY <3>1, <3>2, <3>3, <3>4
  <2>10. ASSUME NEW th \in Threads, ParkDeadline(th) PROVE TypeOK'
    <3>1. RegistryOK'
      BY <2>10 DEF ParkDeadline, Ends, RegistryOK
    <3>2. TaskOK'
      BY <2>10 DEF ParkDeadline, Ends, TaskOK
    <3>3. ThreadOK'
      BY <2>10 DEF ParkDeadline, Ends, ThreadOK, CallPcs
    <3>4. CallerOK'
      BY <2>10 DEF ParkDeadline, Ends, CallerOK
    <3> QED
      BY <3>1, <3>2, <3>3, <3>4
  <2>11. ASSUME NEW th \in Threads, InvalidCall(th) PROVE TypeOK'
    <3>1. RegistryOK'
      BY <2>11 DEF InvalidCall, Executes, Spends, Throws, Ends, RegistryOK
    <3>2. TaskOK'
      BY <2>11 DEF InvalidCall, Executes, Spends, Throws, Ends, TaskOK
    <3>3. ThreadOK'
      BY <2>11 DEF InvalidCall, Executes, Spends, Throws, Ends, ThreadOK, CallPcs
    <3>4. CallerOK'
      BY <2>11 DEF InvalidCall, Executes, Spends, Throws, Ends, CallerOK
    <3> QED
      BY <3>1, <3>2, <3>3, <3>4
  <2>12. ASSUME NEW th \in Threads, ReadStatus(th) PROVE TypeOK'
    <3>1. RegistryOK'
      BY <2>12 DEF ReadStatus, Executes, Spends, RegistryOK
    <3>2. TaskOK'
      BY <2>12 DEF ReadStatus, Executes, Spends, TaskOK
    <3>3. ThreadOK'
      BY <2>12 DEF ReadStatus, Executes, Spends, ThreadOK, CallPcs
    <3>4. CallerOK'
      BY <2>12 DEF ReadStatus, Executes, Spends, CallerOK
    <3> QED
      BY <3>1, <3>2, <3>3, <3>4
  <2>13. ASSUME NEW th \in Threads, Cancel(th) PROVE TypeOK'
    <3>1. RegistryOK'
      BY <2>13 DEF Cancel, Executes, Spends, Completed, RegistryOK
    <3>2. TaskOK'
      BY <2>13 DEF Cancel, Executes, Spends, Completed, TaskOK
    <3>3. ThreadOK'
      BY <2>13 DEF Cancel, Executes, Spends, Completed, RegistryOK, ThreadOK, CallPcs
    <3>4. CallerOK'
      BY <2>13 DEF Cancel, Executes, Spends, Completed, CallerOK
    <3> QED
      BY <3>1, <3>2, <3>3, <3>4
  <2>14. ASSUME NEW th \in Threads, CancelNotifies(th) PROVE TypeOK'
    <3>1. RegistryOK'
      BY <2>14 DEF CancelNotifies, Forgets, RegistryOK
    <3>2. TaskOK'
      BY <2>14 DEF CancelNotifies, Forgets, TaskOK
    <3>3. ThreadOK'
      BY <2>14 DEF CancelNotifies, Forgets, ThreadOK, CallPcs
    <3>4. CallerOK'
      BY <2>14 DEF CancelNotifies, Forgets, CallerOK
    <3> QED
      BY <3>1, <3>2, <3>3, <3>4
  <2>15. ASSUME NEW th \in Threads, WaitBegins(th) PROVE TypeOK'
    <3>1. RegistryOK'
      BY <2>15 DEF WaitBegins, Executes, Spends, RegistryOK
    <3>2. TaskOK'
      BY <2>15 DEF WaitBegins, Executes, Spends, TaskOK
    <3>3. ThreadOK'
      BY <2>15 DEF WaitBegins, Executes, Spends, RegistryOK, ThreadOK, CallPcs
    <3>4. CallerOK'
      BY <2>15 DEF WaitBegins, Executes, Spends, CallerOK
    <3> QED
      BY <3>1, <3>2, <3>3, <3>4
  <2>16. ASSUME NEW th \in Threads, WaitSleeps(th) PROVE TypeOK'
    <3>1. RegistryOK'
      BY <2>16 DEF WaitSleeps, RegistryOK
    <3>2. TaskOK'
      BY <2>16 DEF WaitSleeps, TaskOK
    <3>3. ThreadOK'
      BY <2>16 DEF WaitSleeps, ThreadOK, CallPcs
    <3>4. CallerOK'
      BY <2>16 DEF WaitSleeps, CallerOK
    <3> QED
      BY <3>1, <3>2, <3>3, <3>4
  <2>17. ASSUME NEW th \in Threads, WaitEnds(th) PROVE TypeOK'
    <3>1. RegistryOK'
      BY <2>17 DEF WaitEnds, TakesSnapshot, Returns, Forgets, RegistryOK
    <3>2. TaskOK'
      BY <2>17 DEF WaitEnds, TakesSnapshot, Returns, Forgets, TaskOK
    <3>3. ThreadOK'
      BY <2>17 DEF WaitEnds, TakesSnapshot, Returns, Forgets, ThreadOK, CallPcs
    <3>4. CallerOK'
      <4>1. target[th] \in TaskIds /\ UNCHANGED <<tasks, todo>>
        BY <2>17 DEF WaitEnds, ThreadOK, CallPcs
      <4>2. acked' = acked \/ acked' = acked \cup {target[th]}
        BY <2>17 DEF WaitEnds, TakesSnapshot, Returns
      <4> QED
        BY <4>1, <4>2 DEF CallerOK
    <3> QED
      BY <3>1, <3>2, <3>3, <3>4
  <2>18. ASSUME NEW th \in Threads, Joins(th) PROVE TypeOK'
    <3>1. RegistryOK'
      BY <2>18 DEF Joins, Returns, Forgets, RegistryOK
    <3>2. TaskOK'
      BY <2>18 DEF Joins, Returns, Forgets, TaskOK
    <3>3. ThreadOK'
      BY <2>18 DEF Joins, Returns, Forgets, ThreadOK, CallPcs
    <3>4. CallerOK'
      BY <2>18 DEF Joins, Returns, Forgets, CallerOK, ThreadOK, CallPcs
    <3> QED
      BY <3>1, <3>2, <3>3, <3>4
  <2>19. ASSUME NEW th \in Threads, Publishes(th) PROVE TypeOK'
    <3>1. RegistryOK'
      BY <2>19 DEF Publishes, RegistryOK
    <3>2. TaskOK'
      BY <2>19 DEF Publishes, ThreadOK, TaskOK
    <3>3. ThreadOK'
      BY <2>19 DEF Publishes, ThreadOK, CallPcs
    <3>4. CallerOK'
      BY <2>19 DEF Publishes, CallerOK
    <3> QED
      BY <3>1, <3>2, <3>3, <3>4
  <2>20. ASSUME NEW th \in Threads, NotifiesAndExits(th) PROVE TypeOK'
    <3>1. RegistryOK'
      BY <2>20 DEF NotifiesAndExits, NotifiesAll, RegistryOK
    <3>2. TaskOK'
      BY <2>20 DEF NotifiesAndExits, NotifiesAll, TaskOK
    <3>3. ThreadOK'
      BY <2>20 DEF NotifiesAndExits, NotifiesAll, ThreadOK, CallPcs
    <3>4. CallerOK'
      BY <2>20 DEF NotifiesAndExits, NotifiesAll, CallerOK
    <3> QED
      BY <3>1, <3>2, <3>3, <3>4
  <2>21. ASSUME NEW th \in Threads, SpuriousWakeup(th) PROVE TypeOK'
    <3>1. RegistryOK'
      BY <2>21 DEF SpuriousWakeup, RegistryOK
    <3>2. TaskOK'
      BY <2>21 DEF SpuriousWakeup, TaskOK
    <3>3. ThreadOK'
      BY <2>21 DEF SpuriousWakeup, ThreadOK, CallPcs
    <3>4. CallerOK'
      BY <2>21 DEF SpuriousWakeup, CallerOK
    <3> QED
      BY <3>1, <3>2, <3>3, <3>4
  <2>22. CASE ShutdownBegins
    <3>1. RegistryOK'
      BY <2>22 DEF ShutdownBegins, RegistryOK
    <3>2. TaskOK'
      BY <2>22 DEF ShutdownBegins, TaskOK
    <3>3. ThreadOK'
      BY <2>22 DEF ShutdownBegins, ThreadOK, CallPcs
    <3>4. CallerOK'
      BY <2>22 DEF ShutdownBegins, RegistryOK, CallerOK
    <3> QED
      BY <3>1, <3>2, <3>3, <3>4
  <2>23. CASE ShutdownCancels
    <3>1. RegistryOK'
      BY <2>23 DEF ShutdownCancels, RequestsCancel, RegistryOK
    <3>2. TaskOK'
      BY <2>23 DEF ShutdownCancels, RequestsCancel, TaskOK
    <3>3. ThreadOK'
      BY <2>23 DEF ShutdownCancels, RequestsCancel, CallerOK, ThreadOK, CallPcs
    <3>4. CallerOK'
      BY <2>23 DEF ShutdownCancels, RequestsCancel, CallerOK
    <3> QED
      BY <3>1, <3>2, <3>3, <3>4
  <2>24. CASE ShutdownNotifies
    <3>1. RegistryOK'
      BY <2>24 DEF ShutdownNotifies, Forgets, RegistryOK
    <3>2. TaskOK'
      BY <2>24 DEF ShutdownNotifies, Forgets, TaskOK
    <3>3. ThreadOK'
      BY <2>24 DEF ShutdownNotifies, Forgets, ThreadOK, CallPcs
    <3>4. CallerOK'
      BY <2>24 DEF ShutdownNotifies, Forgets, CallerOK
    <3> QED
      BY <3>1, <3>2, <3>3, <3>4
  <2>25. CASE ShutdownStartsJoining
    <3>1. RegistryOK'
      BY <2>25 DEF ShutdownStartsJoining, RegistryOK
    <3>2. TaskOK'
      BY <2>25 DEF ShutdownStartsJoining, TaskOK
    <3>3. ThreadOK'
      BY <2>25 DEF ShutdownStartsJoining, ThreadOK, CallPcs
    <3>4. CallerOK'
      BY <2>25 DEF ShutdownStartsJoining, CallerOK
    <3> QED
      BY <3>1, <3>2, <3>3, <3>4
  <2>26. CASE ShutdownClaims
    <3>1. RegistryOK'
      BY <2>26 DEF ShutdownClaims, RegistryOK
    <3>2. TaskOK'
      BY <2>26 DEF ShutdownClaims, TaskOK
    <3>3. ThreadOK'
      BY <2>26 DEF ShutdownClaims, CallerOK, ThreadOK, CallPcs
    <3>4. CallerOK'
      BY <2>26 DEF ShutdownClaims, CallerOK
    <3> QED
      BY <3>1, <3>2, <3>3, <3>4
  <2>27. CASE ShutdownJoins
    <3>1. RegistryOK'
      BY <2>27 DEF ShutdownJoins, Forgets, RegistryOK
    <3>2. TaskOK'
      BY <2>27 DEF ShutdownJoins, Forgets, TaskOK
    <3>3. ThreadOK'
      BY <2>27 DEF ShutdownJoins, Forgets, ThreadOK, CallPcs
    <3>4. CallerOK'
      BY <2>27 DEF ShutdownJoins, Forgets, CallerOK
    <3> QED
      BY <3>1, <3>2, <3>3, <3>4
  <2>28. CASE ShutdownClears
    <3>1. RegistryOK'
      BY <2>28 DEF ShutdownClears, RegistryOK
    <3>2. TaskOK'
      BY <2>28 DEF ShutdownClears, TaskOK
    <3>3. ThreadOK'
      BY <2>28 DEF ShutdownClears, ThreadOK, CallPcs
    <3>4. CallerOK'
      BY <2>28 DEF ShutdownClears, CallerOK
    <3> QED
      BY <3>1, <3>2, <3>3, <3>4
  <2>29. CASE Stopped \/ UNCHANGED vars
    BY <2>29, ZenonT(30) DEF Stopped, vars, RegistryOK, TaskOK, ThreadOK, CallerOK
  <2> QED
    BY <2>1, <2>2, <2>3, <2>4, <2>5, <2>6, <2>7, <2>8, <2>9, <2>10, <2>11, <2>12, <2>13, <2>14, <2>15, <2>16, <2>17, <2>18, <2>19, <2>20, <2>21, <2>22, <2>23, <2>24, <2>25, <2>26, <2>27, <2>28, <2>29 DEF Next, Step, Shutdown
<1> QED
  BY <1>1, <1>2, PTL DEF Spec

--------------------------------------------------------------------------------
(* The inductive invariant behind the safety properties.                     *)

\* A thread is off exactly when its task is not live; unused ids are untouched.
LiveInv ==
    /\ \A t \in TaskIds : os[t] = "live" <=> pc[t] # "off"
    /\ \A t \in TaskIds : nextId <= t => os[t] = "none"
    /\ \A t \in TaskIds : os[t] = "none" => ~Completed(t)
    /\ \A t \in TaskIds : Completed(t) => pc[t] \in {"notifyDone", "off"}
    /\ \A t \in TaskIds : pc[t] \notin OwnerPcs
    /\ stopping <=> pc[Owner] \in OwnerPcs \ {"sdBegin"}

\* Between the test of PARK and its sleep the mutex keeps CANCEL out.
ParkInv ==
    /\ \A t \in TaskIds : pc[t] = "parking" => mutex[t] = t
    /\ \A t \in TaskIds : pc[t] = "parking" /\ ~stopping => ~cancelRequested[t]
    /\ CancelReachesPark

\* A claimed task is joined, or exactly one thread is about to join it.
JoinInv ==
    /\ \A t \in TaskIds : os[t] = "joined" => joinClaimed[t]
    /\ \A t \in TaskIds :
         joinClaimed[t] =>
            os[t] = "joined" \/ \E th \in Threads : InJoin(th) /\ target[th] = t
    /\ \A th \in Threads : InJoin(th) =>
         joinClaimed[target[th]] /\ Joinable(target[th])
    /\ \A a, b \in Threads :
         InJoin(a) /\ InJoin(b) /\ target[a] = target[b] => a = b
    /\ \A th \in Threads : pc[th] = "joining" => Completed(target[th])

\* The destructor sees every task, and leaves a task behind only claimed.
ShutdownInv ==
    /\ ~stopping => \A t \in TaskIds : os[t] # "none" => t \in registry
    /\ stopping => \A t \in TaskIds : os[t] # "none" => t \in tasks
    /\ \A t \in registry \cup tasks : os[t] # "none"
    /\ pc[Owner] \in {"sdJoin", "sdJoining", "down"} =>
         \A t \in tasks \ todo : joinClaimed[t]
    /\ pc[Owner] = "sdJoining" => joinClaimed[target[Owner]]
    /\ pc[Owner] = "down" => todo = {}

\* Every step preserves LiveInv.
LEMMA LiveStep == TypeOK /\ LiveInv /\ [Next]_vars => LiveInv'
<1> SUFFICES ASSUME TypeOK, LiveInv, [Next]_vars PROVE LiveInv'
  OBVIOUS
<1> USE ConstantsOK, IdFacts, LabelFacts DEF ConstantsOK, TypeOK, RegistryOK, TaskOK, ThreadOK, CallerOK, registryVars, taskVars, threadVars, Goto, LiveInv, OwnerPcs, CallPcs, Completed
<1>1. ASSUME NEW th \in Threads, LoopTop(th) PROVE LiveInv'
  BY <1>1 DEF LoopTop, Ends
<1>2. ASSUME NEW th \in Threads, Compute(th) PROVE LiveInv'
  BY <1>2 DEF Compute
<1>3. ASSUME NEW th \in Threads, Finish(th) PROVE LiveInv'
  BY <1>3 DEF Finish, Ends
<1>4. ASSUME NEW th \in Threads, Spawn(th) PROVE LiveInv'
  <2>1. nextId # th /\ pc[nextId] = "off" /\ ~Completed(nextId) /\ nextId # Owner
    BY <1>4 DEF Spawn, Executes, Spends, Accepts, IdTaken
  <2> QED
    BY <1>4, <2>1 DEF Spawn, Executes, Spends, Accepts, IdTaken
<1>5. ASSUME NEW th \in Threads, SpawnRefused(th) PROVE LiveInv'
  BY <1>5 DEF SpawnRefused, Executes, Spends, Throws, Ends
<1>6. ASSUME NEW th \in Threads, SpawnFails(th) PROVE LiveInv'
  BY <1>6 DEF SpawnFails, Executes, Spends, Throws, Ends, Accepts, IdTaken
<1>7. ASSUME NEW th \in Threads, ParkBegins(th) PROVE LiveInv'
  BY <1>7 DEF ParkBegins, Spends, Ends
<1>8. ASSUME NEW th \in Threads, ParkSleeps(th) PROVE LiveInv'
  BY <1>8 DEF ParkSleeps
<1>9. ASSUME NEW th \in Threads, ParkWakes(th) PROVE LiveInv'
  BY <1>9 DEF ParkWakes, Ends, ParkCancelled
<1>10. ASSUME NEW th \in Threads, ParkDeadline(th) PROVE LiveInv'
  BY <1>10 DEF ParkDeadline, Ends, ParkCancelled
<1>11. ASSUME NEW th \in Threads, InvalidCall(th) PROVE LiveInv'
  <2>1. CASE pc' = [pc EXCEPT ![th] = "check"]
    BY <1>11, <2>1 DEF InvalidCall, Executes, Spends, Throws, Ends
  <2>2. CASE th = Owner /\ pc' = [pc EXCEPT ![th] = "sdBegin"]
    BY <1>11, <2>2 DEF InvalidCall, Executes, Spends, Throws, Ends
  <2>3. CASE th # Owner /\ pc' = [pc EXCEPT ![th] = "publish"]
    BY <1>11, <2>3 DEF InvalidCall, Executes, Spends, Throws, Ends
  <2> QED
    BY <1>11, <2>1, <2>2, <2>3 DEF InvalidCall, Executes, Spends, Throws, Ends
<1>12. ASSUME NEW th \in Threads, ReadStatus(th) PROVE LiveInv'
  BY <1>12 DEF ReadStatus, Executes, Spends
<1>13. ASSUME NEW th \in Threads, Cancel(th) PROVE LiveInv'
  BY <1>13 DEF Cancel, Executes, Spends, CancelsLocked
<1>14. ASSUME NEW th \in Threads, CancelNotifies(th) PROVE LiveInv'
  BY <1>14 DEF CancelNotifies, Forgets
<1>15. ASSUME NEW th \in Threads, WaitBegins(th) PROVE LiveInv'
  BY <1>15 DEF WaitBegins, Executes, Spends
<1>16. ASSUME NEW th \in Threads, WaitSleeps(th) PROVE LiveInv'
  BY <1>16 DEF WaitSleeps
<1>17. ASSUME NEW th \in Threads, WaitEnds(th) PROVE LiveInv'
  BY <1>17 DEF WaitEnds, WaitIsOver, TakesSnapshot, SnapshotClaims, MayClaim, Returns, Forgets
<1>18. ASSUME NEW th \in Threads, Joins(th) PROVE LiveInv'
  BY <1>18 DEF Joins, Returns, Forgets
<1>19. ASSUME NEW th \in Threads, Publishes(th) PROVE LiveInv'
  BY <1>19 DEF Publishes
<1>20. ASSUME NEW th \in Threads, NotifiesAndExits(th) PROVE LiveInv'
  BY <1>20 DEF NotifiesAndExits, NotifiesAll
<1>21. ASSUME NEW th \in Threads, SpuriousWakeup(th) PROVE LiveInv'
  BY <1>21 DEF SpuriousWakeup
<1>22. CASE ShutdownBegins
  BY <1>22 DEF ShutdownBegins
<1>23. CASE ShutdownCancels
  BY <1>23 DEF ShutdownCancels, RequestsCancel
<1>24. CASE ShutdownNotifies
  BY <1>24 DEF ShutdownNotifies, Forgets
<1>25. CASE ShutdownStartsJoining
  BY <1>25 DEF ShutdownStartsJoining
<1>26. CASE ShutdownClaims
  BY <1>26 DEF ShutdownClaims, MayClaim
<1>27. CASE ShutdownJoins
  BY <1>27 DEF ShutdownJoins, Forgets
<1>28. CASE ShutdownClears
  BY <1>28 DEF ShutdownClears
<1>29. CASE Stopped \/ UNCHANGED vars
  BY <1>29 DEF Stopped, vars
<1> QED
  BY <1>1, <1>2, <1>3, <1>4, <1>5, <1>6, <1>7, <1>8, <1>9, <1>10, <1>11, <1>12, <1>13, <1>14, <1>15, <1>16, <1>17, <1>18, <1>19, <1>20, <1>21, <1>22, <1>23, <1>24, <1>25, <1>26, <1>27, <1>28, <1>29 DEF Next, Step, Shutdown

\* Every step preserves ParkInv.
LEMMA ParkStep == TypeOK /\ LiveInv /\ ParkInv /\ [Next]_vars => ParkInv'
<1> SUFFICES ASSUME TypeOK, LiveInv, ParkInv, [Next]_vars PROVE ParkInv'
  OBVIOUS
<1> USE ConstantsOK, IdFacts, LabelFacts DEF ConstantsOK, TypeOK, RegistryOK, TaskOK, ThreadOK, CallerOK, registryVars, taskVars, threadVars, Goto, LiveInv, ParkInv, CancelReachesPark, CallPcs, Completed
<1>1. ASSUME NEW th \in Threads, LoopTop(th) PROVE ParkInv'
  BY <1>1 DEF LoopTop, Ends
<1>2. ASSUME NEW th \in Threads, Compute(th) PROVE ParkInv'
  BY <1>2 DEF Compute
<1>3. ASSUME NEW th \in Threads, Finish(th) PROVE ParkInv'
  BY <1>3 DEF Finish, Ends
<1>4. ASSUME NEW th \in Threads, Spawn(th) PROVE ParkInv'
  BY <1>4 DEF Spawn, Executes, Spends, Accepts, IdTaken
<1>5. ASSUME NEW th \in Threads, SpawnRefused(th) PROVE ParkInv'
  BY <1>5 DEF SpawnRefused, Executes, Spends, Throws, Ends
<1>6. ASSUME NEW th \in Threads, SpawnFails(th) PROVE ParkInv'
  BY <1>6 DEF SpawnFails, Executes, Spends, Throws, Ends, Accepts, IdTaken
<1>7. ASSUME NEW th \in Threads, ParkBegins(th) PROVE ParkInv'
  BY <1>7 DEF ParkBegins, Spends, Ends
<1>8. ASSUME NEW th \in Threads, ParkSleeps(th) PROVE ParkInv'
  BY <1>8 DEF ParkSleeps
<1>9. ASSUME NEW th \in Threads, ParkWakes(th) PROVE ParkInv'
  BY <1>9 DEF ParkWakes, Ends, ParkCancelled
<1>10. ASSUME NEW th \in Threads, ParkDeadline(th) PROVE ParkInv'
  BY <1>10 DEF ParkDeadline, Ends, ParkCancelled
<1>11. ASSUME NEW th \in Threads, InvalidCall(th) PROVE ParkInv'
  BY <1>11 DEF InvalidCall, Executes, Spends, Throws, Ends
<1>12. ASSUME NEW th \in Threads, ReadStatus(th) PROVE ParkInv'
  BY <1>12 DEF ReadStatus, Executes, Spends
<1>13. ASSUME NEW th \in Threads, Cancel(th) PROVE ParkInv'
  <2>1. PICK t \in registry, m \in {"now", "kill"} :
          /\ mutex[t] = Free
          /\ \/ pc' = [pc EXCEPT ![th] = "check"]
                /\ UNCHANGED <<cancelRequested, target>>
             \/ /\ cancelRequested' = [cancelRequested EXCEPT ![t] = TRUE]
                /\ target' = [target EXCEPT ![th] = t]
                /\ pc' = [pc EXCEPT ![th] = "cancelNotify"]
    BY <1>13 DEF Cancel, Executes, Spends, CancelsLocked
  <2>2. pc[th] = "exec" /\ t \in TaskIds /\ mutex[t] # t
    BY <1>13, <2>1 DEF Cancel, Executes, Spends, CancelsLocked, Free, TaskIds
  <2>4. CancelReachesPark'
    <3> SUFFICES ASSUME NEW u \in TaskIds, pc'[u] = "parked", u \in sleepers'[u],
                        cancelRequested'[u], ~stopping'
                 PROVE \E x \in Threads : pc'[x] = "cancelNotify" /\ target'[x] = u
      OBVIOUS
    <3>1. u # th /\ pc[u] = "parked" /\ u \in sleepers[u] /\ ~stopping
      BY <1>13, <2>1, <2>2 DEF Cancel, Executes, Spends, CancelsLocked
    <3>2. CASE cancelRequested[u]
      <4>1. PICK x \in Threads : pc[x] = "cancelNotify" /\ target[x] = u
        BY <3>1, <3>2
      <4>2. x # th
        BY <2>2, <4>1
      <4>3. pc'[x] = pc[x] /\ target'[x] = target[x]
        BY <2>1, <4>2
      <4> QED
        BY <4>1, <4>3
    <3>3. CASE ~cancelRequested[u]
      BY <2>1, <2>2, <3>3
    <3> QED
      BY <3>2, <3>3
  <2> QED
    BY <1>13, <2>1, <2>2, <2>4 DEF Cancel, Executes, Spends, CancelsLocked
<1>14. ASSUME NEW th \in Threads, CancelNotifies(th) PROVE ParkInv'
  BY <1>14 DEF CancelNotifies, Forgets
<1>15. ASSUME NEW th \in Threads, WaitBegins(th) PROVE ParkInv'
  BY <1>15 DEF WaitBegins, Executes, Spends
<1>16. ASSUME NEW th \in Threads, WaitSleeps(th) PROVE ParkInv'
  BY <1>16 DEF WaitSleeps
<1>17. ASSUME NEW th \in Threads, WaitEnds(th) PROVE ParkInv'
  BY <1>17 DEF WaitEnds, WaitIsOver, TakesSnapshot, SnapshotClaims, MayClaim, Returns, Forgets
<1>18. ASSUME NEW th \in Threads, Joins(th) PROVE ParkInv'
  BY <1>18 DEF Joins, Returns, Forgets
<1>19. ASSUME NEW th \in Threads, Publishes(th) PROVE ParkInv'
  BY <1>19 DEF Publishes
<1>20. ASSUME NEW th \in Threads, NotifiesAndExits(th) PROVE ParkInv'
  BY <1>20 DEF NotifiesAndExits, NotifiesAll
<1>21. ASSUME NEW th \in Threads, SpuriousWakeup(th) PROVE ParkInv'
  BY <1>21 DEF SpuriousWakeup
<1>22. CASE ShutdownBegins
  BY <1>22 DEF ShutdownBegins
<1>23. CASE ShutdownCancels
  <2>1. stopping /\ stopping' /\ pc[Owner] = "sdCancel" /\ UNCHANGED mutex
    BY <1>23 DEF ShutdownCancels, RequestsCancel, OwnerPcs
  <2>2. \A t \in TaskIds : pc'[t] = pc[t]
    BY <1>23 DEF ShutdownCancels, RequestsCancel
  <2> QED
    BY <2>1, <2>2
<1>24. CASE ShutdownNotifies
  BY <1>24 DEF ShutdownNotifies, Forgets
<1>25. CASE ShutdownStartsJoining
  BY <1>25 DEF ShutdownStartsJoining
<1>26. CASE ShutdownClaims
  BY <1>26 DEF ShutdownClaims, MayClaim
<1>27. CASE ShutdownJoins
  BY <1>27 DEF ShutdownJoins, Forgets
<1>28. CASE ShutdownClears
  BY <1>28 DEF ShutdownClears
<1>29. CASE Stopped \/ UNCHANGED vars
  BY <1>29 DEF Stopped, vars
<1> QED
  BY <1>1, <1>2, <1>3, <1>4, <1>5, <1>6, <1>7, <1>8, <1>9, <1>10, <1>11, <1>12, <1>13, <1>14, <1>15, <1>16, <1>17, <1>18, <1>19, <1>20, <1>21, <1>22, <1>23, <1>24, <1>25, <1>26, <1>27, <1>28, <1>29 DEF Next, Step, Shutdown

\* Every step preserves JoinInv.
LEMMA JoinStep == TypeOK /\ LiveInv /\ JoinInv /\ [Next]_vars => JoinInv'
<1> SUFFICES ASSUME TypeOK, LiveInv, JoinInv, [Next]_vars PROVE JoinInv'
  OBVIOUS
<1> USE ConstantsOK, IdFacts, LabelFacts DEF ConstantsOK, TypeOK, RegistryOK, TaskOK, ThreadOK, CallerOK, registryVars, taskVars, threadVars, Goto, LiveInv, JoinInv, InJoin, Joinable, OwnerPcs, CallPcs, Completed
<1>1. ASSUME NEW th \in Threads, LoopTop(th) PROVE JoinInv'
  BY <1>1 DEF LoopTop, Ends
<1>2. ASSUME NEW th \in Threads, Compute(th) PROVE JoinInv'
  BY <1>2 DEF Compute
<1>3. ASSUME NEW th \in Threads, Finish(th) PROVE JoinInv'
  BY <1>3 DEF Finish, Ends
<1>4. ASSUME NEW th \in Threads, Spawn(th) PROVE JoinInv'
  BY <1>4 DEF Spawn, Executes, Spends, Accepts, IdTaken
<1>5. ASSUME NEW th \in Threads, SpawnRefused(th) PROVE JoinInv'
  BY <1>5 DEF SpawnRefused, Executes, Spends, Throws, Ends
<1>6. ASSUME NEW th \in Threads, SpawnFails(th) PROVE JoinInv'
  BY <1>6 DEF SpawnFails, Executes, Spends, Throws, Ends, Accepts, IdTaken
<1>7. ASSUME NEW th \in Threads, ParkBegins(th) PROVE JoinInv'
  BY <1>7 DEF ParkBegins, Spends, Ends
<1>8. ASSUME NEW th \in Threads, ParkSleeps(th) PROVE JoinInv'
  BY <1>8 DEF ParkSleeps
<1>9. ASSUME NEW th \in Threads, ParkWakes(th) PROVE JoinInv'
  BY <1>9 DEF ParkWakes, Ends, ParkCancelled
<1>10. ASSUME NEW th \in Threads, ParkDeadline(th) PROVE JoinInv'
  BY <1>10 DEF ParkDeadline, Ends, ParkCancelled
<1>11. ASSUME NEW th \in Threads, InvalidCall(th) PROVE JoinInv'
  BY <1>11 DEF InvalidCall, Executes, Spends, Throws, Ends
<1>12. ASSUME NEW th \in Threads, ReadStatus(th) PROVE JoinInv'
  BY <1>12 DEF ReadStatus, Executes, Spends
<1>13. ASSUME NEW th \in Threads, Cancel(th) PROVE JoinInv'
  BY <1>13 DEF Cancel, Executes, Spends, CancelsLocked
<1>14. ASSUME NEW th \in Threads, CancelNotifies(th) PROVE JoinInv'
  BY <1>14 DEF CancelNotifies, Forgets
<1>15. ASSUME NEW th \in Threads, WaitBegins(th) PROVE JoinInv'
  BY <1>15 DEF WaitBegins, Executes, Spends
<1>16. ASSUME NEW th \in Threads, WaitSleeps(th) PROVE JoinInv'
  BY <1>16 DEF WaitSleeps
<1>17. ASSUME NEW th \in Threads, WaitEnds(th) PROVE JoinInv'
  <2>1. target[th] \in TaskIds /\ pc[th] = "waiting" /\ UNCHANGED <<os, status>>
    BY <1>17 DEF WaitEnds, CallPcs
  <2>2. CASE SnapshotClaims(target[th])
    <3>1. /\ joinClaimed' = [joinClaimed EXCEPT ![target[th]] = TRUE]
          /\ pc' = [pc EXCEPT ![th] = "joining"]
          /\ UNCHANGED <<target, stopping, registry, tasks, todo>>
      BY <1>17, <2>2 DEF WaitEnds, TakesSnapshot
    <3>2. /\ Completed(target[th]) /\ ~joinClaimed[target[th]]
          /\ Joinable(target[th])
      BY <2>2 DEF SnapshotClaims, MayClaim
    <3> QED
      BY <2>1, <3>1, <3>2
  <2>3. CASE ~SnapshotClaims(target[th])
    <3>1. /\ pc' = [pc EXCEPT ![th] = "check"]
          /\ target' = [target EXCEPT ![th] = NoTask]
          /\ UNCHANGED <<joinClaimed, stopping, registry, tasks, todo>>
      BY <1>17, <2>3 DEF WaitEnds, TakesSnapshot, Returns, Forgets
    <3> QED
      BY <2>1, <3>1
  <2> QED
    BY <2>2, <2>3
<1>18. ASSUME NEW th \in Threads, Joins(th) PROVE JoinInv'
  BY <1>18 DEF Joins, Returns, Forgets
<1>19. ASSUME NEW th \in Threads, Publishes(th) PROVE JoinInv'
  BY <1>19 DEF Publishes
<1>20. ASSUME NEW th \in Threads, NotifiesAndExits(th) PROVE JoinInv'
  BY <1>20 DEF NotifiesAndExits, NotifiesAll
<1>21. ASSUME NEW th \in Threads, SpuriousWakeup(th) PROVE JoinInv'
  BY <1>21 DEF SpuriousWakeup
<1>22. CASE ShutdownBegins
  BY <1>22 DEF ShutdownBegins
<1>23. CASE ShutdownCancels
  BY <1>23 DEF ShutdownCancels, RequestsCancel
<1>24. CASE ShutdownNotifies
  BY <1>24 DEF ShutdownNotifies, Forgets
<1>25. CASE ShutdownStartsJoining
  BY <1>25 DEF ShutdownStartsJoining
<1>26. CASE ShutdownClaims
  <2>1. PICK t \in todo :
          IF MayClaim(t)
            THEN /\ joinClaimed' = [joinClaimed EXCEPT ![t] = TRUE]
                 /\ target' = [target EXCEPT ![Owner] = t]
                 /\ pc' = [pc EXCEPT ![Owner] = "sdJoining"]
                 /\ UNCHANGED todo
            ELSE /\ todo' = todo \ {t}
                 /\ UNCHANGED <<joinClaimed, target, pc>>
    BY <1>26 DEF ShutdownClaims
  <2>2. /\ pc[Owner] = "sdJoin" /\ t \in TaskIds
        /\ UNCHANGED <<os, status, stopping, registry, tasks>>
    BY <1>26 DEF ShutdownClaims
  <2>3. CASE MayClaim(t)
    <3>1. ~joinClaimed[t] /\ Joinable(t) /\ t \in Threads
      BY <2>2, <2>3 DEF MayClaim
    <3>2. /\ joinClaimed' = [joinClaimed EXCEPT ![t] = TRUE]
          /\ target' = [target EXCEPT ![Owner] = t]
          /\ pc' = [pc EXCEPT ![Owner] = "sdJoining"]
      BY <2>1, <2>3
    <3>3. \A th \in Threads : InJoin(th) => target[th] # t
      BY <3>1
    <3>4. \A th \in Threads :
            InJoin(th)' <=> InJoin(th) \/ th = Owner
      BY <2>2, <3>2
    <3>5. \A th \in Threads : InJoin(th) => target'[th] = target[th]
      BY <2>2, <3>2
    <3>6. target'[Owner] = t /\ joinClaimed'[t] /\ InJoin(Owner)'
      BY <2>2, <3>2
    <3>7. \A x \in TaskIds : x # t => joinClaimed'[x] = joinClaimed[x]
      BY <3>2
    <3>8. \A th \in Threads : pc'[th] = "joining" => pc[th] = "joining"
      BY <3>2
    <3>9. \A th \in Threads : InJoin(th) => target[th] \in TaskIds
      OBVIOUS
    <3> HIDE DEF InJoin
    <3>10. \A x \in TaskIds :
            joinClaimed'[x] => os[x] = "joined" \/ \E th \in Threads : InJoin(th)' /\ target'[th] = x
      BY <3>4, <3>5, <3>6, <3>7
    <3>11. \A th \in Threads : InJoin(th)' => joinClaimed'[target'[th]] /\ os'[target'[th]] \in {"live", "exited"}
      BY <2>2, <3>1, <3>3, <3>4, <3>5, <3>6, <3>7, <3>9
    <3>12. \A a, b \in Threads :
            InJoin(a)' /\ InJoin(b)' /\ target'[a] = target'[b] => a = b
      BY <3>3, <3>4, <3>5, <3>6
    <3>13. \A x \in TaskIds : os'[x] = "joined" => joinClaimed'[x]
      BY <2>2, <3>6, <3>7
    <3>14. \A th \in Threads : pc'[th] = "joining" => Completed(target[th])'
      BY <2>2, <3>5, <3>8 DEF InJoin
    <3> QED
      BY <2>2, <3>10, <3>11, <3>12, <3>13, <3>14 DEF InJoin
  <2>4. CASE ~MayClaim(t)
    <3>1. joinClaimed[t] \/ os[t] = "none" \/ os[t] = "joined"
      BY <2>2, <2>4 DEF MayClaim
    <3> QED
      BY <2>1, <2>2, <2>4, <3>1
  <2> QED
    BY <2>3, <2>4
<1>27. CASE ShutdownJoins
  BY <1>27 DEF ShutdownJoins, Forgets
<1>28. CASE ShutdownClears
  BY <1>28 DEF ShutdownClears
<1>29. CASE Stopped \/ UNCHANGED vars
  BY <1>29 DEF Stopped, vars
<1> QED
  BY <1>1, <1>2, <1>3, <1>4, <1>5, <1>6, <1>7, <1>8, <1>9, <1>10, <1>11, <1>12, <1>13, <1>14, <1>15, <1>16, <1>17, <1>18, <1>19, <1>20, <1>21, <1>22, <1>23, <1>24, <1>25, <1>26, <1>27, <1>28, <1>29 DEF Next, Step, Shutdown

\* Every step preserves ShutdownInv.
LEMMA ShutdownStep == TypeOK /\ LiveInv /\ JoinInv /\ ShutdownInv /\ [Next]_vars => ShutdownInv'
<1> SUFFICES ASSUME TypeOK, LiveInv, JoinInv, ShutdownInv, [Next]_vars PROVE ShutdownInv'
  OBVIOUS
<1> USE ConstantsOK, IdFacts, LabelFacts DEF ConstantsOK, TypeOK, RegistryOK, TaskOK, ThreadOK, CallerOK, registryVars, taskVars, threadVars, Goto, LiveInv, JoinInv, ShutdownInv, InJoin, Joinable, OwnerPcs, CallPcs, Completed
<1>1. ASSUME NEW th \in Threads, LoopTop(th) PROVE ShutdownInv'
  BY <1>1 DEF LoopTop, Ends
<1>2. ASSUME NEW th \in Threads, Compute(th) PROVE ShutdownInv'
  BY <1>2 DEF Compute
<1>3. ASSUME NEW th \in Threads, Finish(th) PROVE ShutdownInv'
  BY <1>3 DEF Finish, Ends
<1>4. ASSUME NEW th \in Threads, Spawn(th) PROVE ShutdownInv'
  BY <1>4 DEF Spawn, Executes, Spends, Accepts, IdTaken
<1>5. ASSUME NEW th \in Threads, SpawnRefused(th) PROVE ShutdownInv'
  BY <1>5 DEF SpawnRefused, Executes, Spends, Throws, Ends
<1>6. ASSUME NEW th \in Threads, SpawnFails(th) PROVE ShutdownInv'
  BY <1>6 DEF SpawnFails, Executes, Spends, Throws, Ends, Accepts, IdTaken
<1>7. ASSUME NEW th \in Threads, ParkBegins(th) PROVE ShutdownInv'
  BY <1>7 DEF ParkBegins, Spends, Ends
<1>8. ASSUME NEW th \in Threads, ParkSleeps(th) PROVE ShutdownInv'
  BY <1>8 DEF ParkSleeps
<1>9. ASSUME NEW th \in Threads, ParkWakes(th) PROVE ShutdownInv'
  BY <1>9 DEF ParkWakes, Ends, ParkCancelled
<1>10. ASSUME NEW th \in Threads, ParkDeadline(th) PROVE ShutdownInv'
  BY <1>10 DEF ParkDeadline, Ends, ParkCancelled
<1>11. ASSUME NEW th \in Threads, InvalidCall(th) PROVE ShutdownInv'
  BY <1>11 DEF InvalidCall, Executes, Spends, Throws, Ends
<1>12. ASSUME NEW th \in Threads, ReadStatus(th) PROVE ShutdownInv'
  BY <1>12 DEF ReadStatus, Executes, Spends
<1>13. ASSUME NEW th \in Threads, Cancel(th) PROVE ShutdownInv'
  BY <1>13 DEF Cancel, Executes, Spends, CancelsLocked
<1>14. ASSUME NEW th \in Threads, CancelNotifies(th) PROVE ShutdownInv'
  BY <1>14 DEF CancelNotifies, Forgets
<1>15. ASSUME NEW th \in Threads, WaitBegins(th) PROVE ShutdownInv'
  BY <1>15 DEF WaitBegins, Executes, Spends
<1>16. ASSUME NEW th \in Threads, WaitSleeps(th) PROVE ShutdownInv'
  BY <1>16 DEF WaitSleeps
<1>17. ASSUME NEW th \in Threads, WaitEnds(th) PROVE ShutdownInv'
  <2>1. target[th] \in TaskIds /\ pc[th] = "waiting" /\ UNCHANGED <<os, status>>
    BY <1>17 DEF WaitEnds, CallPcs
  <2>2. CASE SnapshotClaims(target[th])
    <3>1. /\ joinClaimed' = [joinClaimed EXCEPT ![target[th]] = TRUE]
          /\ pc' = [pc EXCEPT ![th] = "joining"]
          /\ UNCHANGED <<target, stopping, registry, tasks, todo>>
      BY <1>17, <2>2 DEF WaitEnds, TakesSnapshot
    <3>2. /\ Completed(target[th]) /\ ~joinClaimed[target[th]]
          /\ Joinable(target[th])
      BY <2>2 DEF SnapshotClaims, MayClaim
    <3> QED
      BY <2>1, <3>1, <3>2
  <2>3. CASE ~SnapshotClaims(target[th])
    <3>1. /\ pc' = [pc EXCEPT ![th] = "check"]
          /\ target' = [target EXCEPT ![th] = NoTask]
          /\ UNCHANGED <<joinClaimed, stopping, registry, tasks, todo>>
      BY <1>17, <2>3 DEF WaitEnds, TakesSnapshot, Returns, Forgets
    <3> QED
      BY <2>1, <3>1
  <2> QED
    BY <2>2, <2>3
<1>18. ASSUME NEW th \in Threads, Joins(th) PROVE ShutdownInv'
  BY <1>18 DEF Joins, Returns, Forgets
<1>19. ASSUME NEW th \in Threads, Publishes(th) PROVE ShutdownInv'
  BY <1>19 DEF Publishes
<1>20. ASSUME NEW th \in Threads, NotifiesAndExits(th) PROVE ShutdownInv'
  BY <1>20 DEF NotifiesAndExits, NotifiesAll
<1>21. ASSUME NEW th \in Threads, SpuriousWakeup(th) PROVE ShutdownInv'
  BY <1>21 DEF SpuriousWakeup
<1>22. CASE ShutdownBegins
  BY <1>22 DEF ShutdownBegins
<1>23. CASE ShutdownCancels
  BY <1>23 DEF ShutdownCancels, RequestsCancel
<1>24. CASE ShutdownNotifies
  BY <1>24 DEF ShutdownNotifies, Forgets
<1>25. CASE ShutdownStartsJoining
  BY <1>25 DEF ShutdownStartsJoining
<1>26. CASE ShutdownClaims
  <2>1. PICK t \in todo :
          IF MayClaim(t)
            THEN /\ joinClaimed' = [joinClaimed EXCEPT ![t] = TRUE]
                 /\ target' = [target EXCEPT ![Owner] = t]
                 /\ pc' = [pc EXCEPT ![Owner] = "sdJoining"]
                 /\ UNCHANGED todo
            ELSE /\ todo' = todo \ {t}
                 /\ UNCHANGED <<joinClaimed, target, pc>>
    BY <1>26 DEF ShutdownClaims
  <2>2. /\ pc[Owner] = "sdJoin" /\ t \in TaskIds
        /\ UNCHANGED <<os, status, stopping, registry, tasks>>
    BY <1>26 DEF ShutdownClaims
  <2>3. CASE MayClaim(t)
    BY <2>1, <2>2, <2>3 DEF MayClaim
  <2>4. CASE ~MayClaim(t)
    <3>1. joinClaimed[t] \/ os[t] = "none" \/ os[t] = "joined"
      BY <2>2, <2>4 DEF MayClaim
    <3> QED
      BY <2>1, <2>2, <2>4, <3>1
  <2> QED
    BY <2>3, <2>4
<1>27. CASE ShutdownJoins
  BY <1>27 DEF ShutdownJoins, Forgets
<1>28. CASE ShutdownClears
  <2>1. /\ pc[Owner] = "sdJoin" /\ todo = {} /\ registry' = {} /\ pc'[Owner] = "down"
        /\ UNCHANGED <<os, joinClaimed, stopping, tasks, todo>>
    BY <1>28 DEF ShutdownClears
  <2>2. stopping
    BY <2>1
  <2> QED
    BY <2>1, <2>2
<1>29. CASE Stopped \/ UNCHANGED vars
  <2>1. /\ UNCHANGED <<pc, os, registry, tasks, todo, stopping>>
        /\ UNCHANGED <<joinClaimed, target>>
    BY <1>29 DEF Stopped, vars
  <2> QED
    BY <2>1
<1> QED
  BY <1>1, <1>2, <1>3, <1>4, <1>5, <1>6, <1>7, <1>8, <1>9, <1>10, <1>11, <1>12, <1>13, <1>14, <1>15, <1>16, <1>17, <1>18, <1>19, <1>20, <1>21, <1>22, <1>23, <1>24, <1>25, <1>26, <1>27, <1>28, <1>29 DEF Next, Step, Shutdown

\* Every step preserves AckedIsFinal.
LEMMA AckStep == TypeOK /\ LiveInv /\ JoinInv /\ AckedIsFinal /\ [Next]_vars => AckedIsFinal'
<1> SUFFICES ASSUME TypeOK, LiveInv, JoinInv, AckedIsFinal, [Next]_vars PROVE AckedIsFinal'
  OBVIOUS
<1> USE ConstantsOK, IdFacts, LabelFacts DEF ConstantsOK, TypeOK, RegistryOK, TaskOK, ThreadOK, CallerOK, registryVars, taskVars, threadVars, Goto, JoinInv, AckedIsFinal, CallPcs, Completed
<1>1. ASSUME NEW th \in Threads, LoopTop(th) PROVE AckedIsFinal'
  BY <1>1 DEF LoopTop, Ends
<1>2. ASSUME NEW th \in Threads, Compute(th) PROVE AckedIsFinal'
  BY <1>2 DEF Compute
<1>3. ASSUME NEW th \in Threads, Finish(th) PROVE AckedIsFinal'
  BY <1>3 DEF Finish, Ends
<1>4. ASSUME NEW th \in Threads, Spawn(th) PROVE AckedIsFinal'
  BY <1>4 DEF Spawn, Executes, Spends, Accepts, IdTaken
<1>5. ASSUME NEW th \in Threads, SpawnRefused(th) PROVE AckedIsFinal'
  BY <1>5 DEF SpawnRefused, Executes, Spends, Throws, Ends
<1>6. ASSUME NEW th \in Threads, SpawnFails(th) PROVE AckedIsFinal'
  BY <1>6 DEF SpawnFails, Executes, Spends, Throws, Ends, Accepts, IdTaken
<1>7. ASSUME NEW th \in Threads, ParkBegins(th) PROVE AckedIsFinal'
  BY <1>7 DEF ParkBegins, Spends, Ends
<1>8. ASSUME NEW th \in Threads, ParkSleeps(th) PROVE AckedIsFinal'
  BY <1>8 DEF ParkSleeps
<1>9. ASSUME NEW th \in Threads, ParkWakes(th) PROVE AckedIsFinal'
  BY <1>9 DEF ParkWakes, Ends, ParkCancelled
<1>10. ASSUME NEW th \in Threads, ParkDeadline(th) PROVE AckedIsFinal'
  BY <1>10 DEF ParkDeadline, Ends, ParkCancelled
<1>11. ASSUME NEW th \in Threads, InvalidCall(th) PROVE AckedIsFinal'
  BY <1>11 DEF InvalidCall, Executes, Spends, Throws, Ends
<1>12. ASSUME NEW th \in Threads, ReadStatus(th) PROVE AckedIsFinal'
  BY <1>12 DEF ReadStatus, Executes, Spends
<1>13. ASSUME NEW th \in Threads, Cancel(th) PROVE AckedIsFinal'
  BY <1>13 DEF Cancel, Executes, Spends, CancelsLocked
<1>14. ASSUME NEW th \in Threads, CancelNotifies(th) PROVE AckedIsFinal'
  BY <1>14 DEF CancelNotifies, Forgets
<1>15. ASSUME NEW th \in Threads, WaitBegins(th) PROVE AckedIsFinal'
  BY <1>15 DEF WaitBegins, Executes, Spends
<1>16. ASSUME NEW th \in Threads, WaitSleeps(th) PROVE AckedIsFinal'
  BY <1>16 DEF WaitSleeps
<1>17. ASSUME NEW th \in Threads, WaitEnds(th) PROVE AckedIsFinal'
  <2>1. target[th] \in TaskIds /\ UNCHANGED status
    BY <1>17 DEF WaitEnds, CallPcs
  <2>2. \/ acked' = acked
        \/ mode[th] = "kill" /\ acked' = acked \cup {target[th]}
    <3>1. CASE SnapshotClaims(target[th])
      BY <1>17, <3>1 DEF WaitEnds, TakesSnapshot
    <3>2. CASE ~SnapshotClaims(target[th])
      BY <1>17, <3>2 DEF WaitEnds, TakesSnapshot, Returns
    <3> QED
      BY <3>1, <3>2
  <2>3. mode[th] = "kill" => Completed(target[th])
    BY <1>17 DEF WaitEnds, WaitIsOver
  <2>4. \A t \in acked' : t \in acked \/ (t = target[th] /\ mode[th] = "kill")
    BY <2>2
  <2>5. \A t \in acked : status[t] # "Running"
    OBVIOUS
  <2>6. \A t \in acked' : status[t] # "Running"
    BY ONLY <2>3, <2>4, <2>5 DEF Completed
  <2> QED
    BY ONLY <2>1, <2>6 DEF AckedIsFinal, Completed
<1>18. ASSUME NEW th \in Threads, Joins(th) PROVE AckedIsFinal'
  BY <1>18 DEF Joins, Returns, Forgets
<1>19. ASSUME NEW th \in Threads, Publishes(th) PROVE AckedIsFinal'
  BY <1>19 DEF Publishes
<1>20. ASSUME NEW th \in Threads, NotifiesAndExits(th) PROVE AckedIsFinal'
  BY <1>20 DEF NotifiesAndExits, NotifiesAll
<1>21. ASSUME NEW th \in Threads, SpuriousWakeup(th) PROVE AckedIsFinal'
  BY <1>21 DEF SpuriousWakeup
<1>22. CASE ShutdownBegins
  BY <1>22 DEF ShutdownBegins
<1>23. CASE ShutdownCancels
  BY <1>23 DEF ShutdownCancels, RequestsCancel
<1>24. CASE ShutdownNotifies
  BY <1>24 DEF ShutdownNotifies, Forgets
<1>25. CASE ShutdownStartsJoining
  BY <1>25 DEF ShutdownStartsJoining
<1>26. CASE ShutdownClaims
  BY <1>26 DEF ShutdownClaims, MayClaim
<1>27. CASE ShutdownJoins
  BY <1>27 DEF ShutdownJoins, Forgets
<1>28. CASE ShutdownClears
  BY <1>28 DEF ShutdownClears
<1>29. CASE Stopped \/ UNCHANGED vars
  BY <1>29 DEF Stopped, vars
<1> QED
  BY <1>1, <1>2, <1>3, <1>4, <1>5, <1>6, <1>7, <1>8, <1>9, <1>10, <1>11, <1>12, <1>13, <1>14, <1>15, <1>16, <1>17, <1>18, <1>19, <1>20, <1>21, <1>22, <1>23, <1>24, <1>25, <1>26, <1>27, <1>28, <1>29 DEF Next, Step, Shutdown

--------------------------------------------------------------------------------
(* The theorems.                                                             *)

IInv == TypeOK /\ LiveInv /\ ParkInv /\ JoinInv /\ ShutdownInv /\ AckedIsFinal

\* The initial state satisfies every part of the invariant.
LEMMA Initially ==
    Init => LiveInv /\ ParkInv /\ JoinInv /\ ShutdownInv /\ AckedIsFinal
<1> SUFFICES ASSUME Init
             PROVE LiveInv /\ ParkInv /\ JoinInv /\ ShutdownInv /\ AckedIsFinal
  OBVIOUS
<1> USE IdFacts DEF Init, Completed, OwnerPcs
<1>1. LiveInv
  BY DEF LiveInv
<1>2. ParkInv
  BY DEF ParkInv, CancelReachesPark
<1>3. JoinInv
  BY DEF JoinInv, InJoin, Joinable
<1>4. ShutdownInv
  BY DEF ShutdownInv
<1>5. AckedIsFinal
  BY DEF AckedIsFinal
<1> QED
  BY <1>1, <1>2, <1>3, <1>4, <1>5

\* The conjunction is an invariant of the runtime.
THEOREM Invariance == Spec => []IInv
<1>1. Init => LiveInv /\ ParkInv /\ JoinInv /\ ShutdownInv /\ AckedIsFinal
  BY Initially
<1>2. TypeOK /\ LiveInv /\ [Next]_vars => LiveInv'
  BY LiveStep
<1>3. TypeOK /\ LiveInv /\ ParkInv /\ [Next]_vars => ParkInv'
  BY ParkStep
<1>4. TypeOK /\ LiveInv /\ JoinInv /\ [Next]_vars => JoinInv'
  BY JoinStep
<1>5. TypeOK /\ LiveInv /\ JoinInv /\ ShutdownInv /\ [Next]_vars => ShutdownInv'
  BY ShutdownStep
<1>6. TypeOK /\ LiveInv /\ JoinInv /\ AckedIsFinal /\ [Next]_vars => AckedIsFinal'
  BY AckStep
<1> QED
  BY TypeCorrect, <1>1, <1>2, <1>3, <1>4, <1>5, <1>6, PTL DEF Spec, IInv

\* CANCEL never loses the wakeup of a parked worker (vm.cpp:1651-1659, 1813-1820).
THEOREM CancelReachesParkAlways == Spec => []CancelReachesPark
<1>1. IInv => CancelReachesPark
  BY DEF IInv, ParkInv
<1> QED
  BY Invariance, <1>1, PTL

\* No std::thread is joined twice, neither at the same time nor again later.
THEOREM OneJoinerAlways == Spec => []OneJoiner
<1>1. IInv => OneJoiner
  BY DEF IInv, JoinInv, OneJoiner, Joinable
<1> QED
  BY Invariance, <1>1, PTL

\* A worker that joins another one waits for a thread that runs no V++ code any more.
THEOREM WaiterJoinsFinishedAlways == Spec => []WaiterJoinsFinished
<1>1. IInv => WaiterJoinsFinished
  <2> SUFFICES ASSUME IInv, NEW th \in Threads, pc[th] = "joining"
               PROVE Completed(target[th]) /\ target[th] # th
    BY DEF WaiterJoinsFinished
  <2>1. Completed(target[th])
    BY DEF IInv, JoinInv
  <2>2. target[th] \in TaskIds
    BY DEF IInv, TypeOK, ThreadOK, CallPcs
  <2>3. pc[target[th]] \in {"notifyDone", "off"}
    BY <2>1, <2>2 DEF IInv, LiveInv
  <2> QED
    BY <2>1, <2>3
<1> QED
  BY Invariance, <1>1, PTL

\* The invariant leaves no thread behind: a claimed task is joined, or some worker
\* is about to join it; that worker is claimed too, but nobody can be joining it.
LEMMA QuietWhenDown == IInv => NothingOutlivesOwner
<1> SUFFICES ASSUME IInv, pc[Owner] = "down", NEW t \in TaskIds, os[t] # "none"
             PROVE os[t] = "joined"
  BY IdFacts DEF NothingOutlivesOwner, IInv, TypeOK, TaskOK
<1> USE IdFacts DEF IInv, TypeOK
<1>1. stopping /\ todo = {}
  BY DEF LiveInv, ShutdownInv, OwnerPcs
<1>2. \A u \in TaskIds : os[u] # "none" => joinClaimed[u]
  BY <1>1 DEF ShutdownInv
<1>3. \A th \in Threads : InJoin(th) => pc[th] = "joining" /\ th \in TaskIds
  BY DEF InJoin, LiveInv, OwnerPcs
<1>4. \A u \in TaskIds : os[u] # "none" /\ os[u] # "joined" =>
        \E th \in TaskIds : pc[th] = "joining" /\ target[th] = u
  BY <1>2, <1>3 DEF JoinInv
<1>5. \A th \in TaskIds : pc[th] = "joining" => os[th] = "live"
  BY DEF LiveInv
<1>6. \A th \in TaskIds : pc[th] = "joining" =>
        ~ \E w \in TaskIds : pc[w] = "joining" /\ target[w] = th
  BY DEF JoinInv, LiveInv
<1> QED
  BY <1>4, <1>5, <1>6

\* When the destructor of the owner returns, every worker thread was joined.
THEOREM NothingOutlivesOwnerAlways == Spec => []NothingOutlivesOwner
BY Invariance, QuietWhenDown, PTL

\* `hủy tác vụ` answers 1 only for tasks that have their verdict.
THEOREM AckedIsFinalAlways == Spec => []AckedIsFinal
<1>1. IInv => AckedIsFinal
  BY DEF IInv
<1> QED
  BY Invariance, <1>1, PTL

\* The wakeup and the answer of CANCEL together.
THEOREM CancelsAreSeenAlways == Spec => []CancelsAreSeen
BY CancelReachesParkAlways, AckedIsFinalAlways, PTL DEF CancelsAreSeen

\* Every join of the runtime, those of waiters and those of the destructor.
THEOREM JoinsAreSafeAlways == Spec => []JoinsAreSafe
BY OneJoinerAlways, WaiterJoinsFinishedAlways, NothingOutlivesOwnerAlways, PTL DEF JoinsAreSafe

-----------------------------------------------------------------------------
\* WorkerRuntime implements TaskLifecycle, for every value of the constants.

\* A worker is about to end as cancelled only after somebody asked for it, and
\* the labels of a worker's end and of PARK are never the owner's.
VerdictInv ==
    /\ \A t \in TaskIds :
         pc[t] = "publish" /\ verdict[t] = "Cancelled" => cancelRequested[t]
    /\ \A t \in TaskIds : pc[t] = "notifyDone" => Completed(t)
    /\ pc[Owner] \notin {"publish", "notifyDone", "parking", "parked"}
    /\ todo \subseteq tasks

\* Every step preserves VerdictInv.
LEMMA VerdictStep == TypeOK /\ LiveInv /\ VerdictInv /\ [Next]_vars => VerdictInv'
<1> SUFFICES ASSUME TypeOK, LiveInv, VerdictInv, [Next]_vars PROVE VerdictInv'
  OBVIOUS
<1> USE ConstantsOK, IdFacts, LabelFacts DEF ConstantsOK, TypeOK, RegistryOK, TaskOK, ThreadOK, CallerOK, registryVars, taskVars, threadVars, Goto, LiveInv, VerdictInv, CallPcs, Completed
<1>1. ASSUME NEW th \in Threads, LoopTop(th) PROVE VerdictInv'
  BY <1>1 DEF LoopTop, Ends
<1>2. ASSUME NEW th \in Threads, Compute(th) PROVE VerdictInv'
  BY <1>2 DEF Compute
<1>3. ASSUME NEW th \in Threads, Finish(th) PROVE VerdictInv'
  BY <1>3 DEF Finish, Ends
<1>4. ASSUME NEW th \in Threads, Spawn(th) PROVE VerdictInv'
  BY <1>4 DEF Spawn, Executes, Spends, Accepts, IdTaken
<1>5. ASSUME NEW th \in Threads, SpawnRefused(th) PROVE VerdictInv'
  BY <1>5 DEF SpawnRefused, Executes, Spends, Throws, Ends
<1>6. ASSUME NEW th \in Threads, SpawnFails(th) PROVE VerdictInv'
  BY <1>6 DEF SpawnFails, Executes, Spends, Throws, Ends, Accepts, IdTaken
<1>7. ASSUME NEW th \in Threads, ParkBegins(th) PROVE VerdictInv'
  BY <1>7 DEF ParkBegins, Spends, Ends
<1>8. ASSUME NEW th \in Threads, ParkSleeps(th) PROVE VerdictInv'
  BY <1>8 DEF ParkSleeps
<1>9. ASSUME NEW th \in Threads, ParkWakes(th) PROVE VerdictInv'
  BY <1>9 DEF ParkWakes, Ends, ParkCancelled
<1>10. ASSUME NEW th \in Threads, ParkDeadline(th) PROVE VerdictInv'
  BY <1>10 DEF ParkDeadline, Ends, ParkCancelled
<1>11. ASSUME NEW th \in Threads, InvalidCall(th) PROVE VerdictInv'
  BY <1>11 DEF InvalidCall, Executes, Spends, Throws, Ends
<1>12. ASSUME NEW th \in Threads, ReadStatus(th) PROVE VerdictInv'
  BY <1>12 DEF ReadStatus, Executes, Spends
<1>13. ASSUME NEW th \in Threads, Cancel(th) PROVE VerdictInv'
  BY <1>13 DEF Cancel, Executes, Spends, CancelsLocked
<1>14. ASSUME NEW th \in Threads, CancelNotifies(th) PROVE VerdictInv'
  BY <1>14 DEF CancelNotifies, Forgets
<1>15. ASSUME NEW th \in Threads, WaitBegins(th) PROVE VerdictInv'
  BY <1>15 DEF WaitBegins, Executes, Spends
<1>16. ASSUME NEW th \in Threads, WaitSleeps(th) PROVE VerdictInv'
  BY <1>16 DEF WaitSleeps
<1>17. ASSUME NEW th \in Threads, WaitEnds(th) PROVE VerdictInv'
  BY <1>17 DEF WaitEnds, WaitIsOver, TakesSnapshot, SnapshotClaims, MayClaim, Returns, Forgets
<1>18. ASSUME NEW th \in Threads, Joins(th) PROVE VerdictInv'
  BY <1>18 DEF Joins, Returns, Forgets
<1>19. ASSUME NEW th \in Threads, Publishes(th) PROVE VerdictInv'
  BY <1>19 DEF Publishes
<1>20. ASSUME NEW th \in Threads, NotifiesAndExits(th) PROVE VerdictInv'
  BY <1>20 DEF NotifiesAndExits, NotifiesAll
<1>21. ASSUME NEW th \in Threads, SpuriousWakeup(th) PROVE VerdictInv'
  BY <1>21 DEF SpuriousWakeup
<1>22. CASE ShutdownBegins
  BY <1>22 DEF ShutdownBegins
<1>23. CASE ShutdownCancels
  BY <1>23 DEF ShutdownCancels, RequestsCancel
<1>24. CASE ShutdownNotifies
  BY <1>24 DEF ShutdownNotifies, Forgets
<1>25. CASE ShutdownStartsJoining
  BY <1>25 DEF ShutdownStartsJoining
<1>26. CASE ShutdownClaims
  <2>1. todo' \subseteq todo /\ pc'[Owner] \in {"sdJoin", "sdJoining"} /\ tasks' = tasks
    BY <1>26 DEF ShutdownClaims
  <2>2. \A t \in TaskIds : pc'[t] = pc[t]
    BY <1>26 DEF ShutdownClaims
  <2> QED
    BY <1>26, <2>1, <2>2 DEF ShutdownClaims
<1>27. CASE ShutdownJoins
  BY <1>27 DEF ShutdownJoins, Forgets
<1>28. CASE ShutdownClears
  BY <1>28 DEF ShutdownClears
<1>29. CASE Stopped \/ UNCHANGED vars
  BY <1>29, ZenonT(30) DEF Stopped, vars
<1> QED
  BY <1>1, <1>2, <1>3, <1>4, <1>5, <1>6, <1>7, <1>8, <1>9, <1>10, <1>11, <1>12, <1>13, <1>14, <1>15, <1>16, <1>17, <1>18, <1>19, <1>20, <1>21, <1>22, <1>23, <1>24, <1>25, <1>26, <1>27, <1>28, <1>29 DEF Next, Step, Shutdown

\* The initial state satisfies it.
THEOREM VerdictAlways == Spec => []VerdictInv
<1>1. Init => VerdictInv
  BY IdFacts DEF Init, VerdictInv, Completed
<1>2. TypeOK /\ LiveInv /\ VerdictInv /\ [Next]_vars => VerdictInv'
  BY VerdictStep
<1>3. IInv => TypeOK /\ LiveInv
  BY DEF IInv
<1> QED
  BY Invariance, <1>1, <1>2, <1>3, PTL DEF Spec

\* Every step of the runtime is a step of the life cycle or leaves it unchanged.
LEMMA LifecycleStep ==
    IInv /\ IInv' /\ VerdictInv /\ [Next]_vars =>
        Lifecycle!Next \/ UNCHANGED Lifecycle!vars
<1> SUFFICES ASSUME IInv, IInv', VerdictInv, [Next]_vars
             PROVE Lifecycle!Next \/ UNCHANGED Lifecycle!vars
  OBVIOUS
<1> DEFINE Same == /\ UNCHANGED <<status, cancelRequested, stopping>>
                   /\ \A t \in TaskIds : /\ os'[t] = "none" <=> os[t] = "none"
                                         /\ os'[t] = "live" <=> os[t] = "live"
                   /\ pc'[Owner] = "down" <=> pc[Owner] = "down"
<1>typed. TypeOK /\ LiveInv /\ ShutdownInv
  BY DEF IInv
<1>quiet. IInv => NothingOutlivesOwner
  BY QuietWhenDown
<1>quiet2. IInv' => NothingOutlivesOwner'
  BY QuietWhenDown, PTL
<1>open. \A th \in Threads : pc[th] \in Pcs \ {"off", "down"} => pc[Owner] # "down"
  BY <1>typed, <1>quiet, IdFacts DEF LiveInv, NothingOutlivesOwner
<1>same. Same => UNCHANGED Lifecycle!vars
  <2> SUFFICES ASSUME Same PROVE UNCHANGED Lifecycle!vars
    OBVIOUS
  <2>1. UNCHANGED [t \in TaskIds |-> IF os[t] = "none" THEN "Absent" ELSE status[t]]
    OBVIOUS
  <2>2. UNCHANGED {t \in TaskIds : os[t] = "live"}
    OBVIOUS
  <2>3. UNCHANGED {t \in TaskIds : cancelRequested[t]}
    OBVIOUS
  <2> QED
    BY <2>1, <2>2, <2>3 DEF Lifecycle!vars
<1> USE <1>typed, <1>open, ConstantsOK, IdFacts, LabelFacts
    DEF ConstantsOK, TypeOK, RegistryOK, TaskOK, ThreadOK, CallerOK, registryVars,
        taskVars, threadVars, Goto
<1> HIDE DEF Same
<1>1. ASSUME NEW th \in Threads, LoopTop(th)
      PROVE Lifecycle!Next \/ UNCHANGED Lifecycle!vars
  <2>1. Same
    BY <1>1 DEF LoopTop, Ends, Same
  <2> QED
    BY <2>1, <1>same
<1>2. ASSUME NEW th \in Threads, Compute(th)
      PROVE Lifecycle!Next \/ UNCHANGED Lifecycle!vars
  <2>1. Same
    BY <1>2 DEF Compute, Same
  <2> QED
    BY <2>1, <1>same
<1>3. ASSUME NEW th \in Threads, Finish(th)
      PROVE Lifecycle!Next \/ UNCHANGED Lifecycle!vars
  <2>1. Same
    BY <1>3 DEF Finish, Ends, Same
  <2> QED
    BY <2>1, <1>same
<1>4. ASSUME NEW th \in Threads, Spawn(th)
      PROVE Lifecycle!Next \/ UNCHANGED Lifecycle!vars
  <2>1. PICK id \in TaskIds : id = nextId /\ ~stopping /\ os[id] = "none" /\ status[id] = "Running"
    BY <1>4 DEF Spawn, Executes, Spends, Accepts, IdTaken, LiveInv, Completed
  <2>2. os' = [os EXCEPT ![id] = "live"] /\ UNCHANGED <<status, cancelRequested, stopping>>
    BY <1>4, <2>1 DEF Spawn, Executes, Spends, Accepts, IdTaken
  <2>3. pc'[Owner] = "down" <=> pc[Owner] = "down"
    BY <1>4 DEF Spawn, Executes, Spends, Accepts, IdTaken
  <2>4. Lifecycle!Spawn(id)
    <3>1. [t \in TaskIds |-> IF os[t] = "none" THEN "Absent" ELSE status[t]]'
          = [[t \in TaskIds |-> IF os[t] = "none" THEN "Absent" ELSE status[t]]
               EXCEPT ![id] = "Running"]
      BY <2>1, <2>2
    <3>2. {t \in TaskIds : os[t] = "live"}' = {t \in TaskIds : os[t] = "live"} \cup {id}
      BY <2>1, <2>2
    <3>3. {t \in TaskIds : cancelRequested[t]}' = {t \in TaskIds : cancelRequested[t]}
      BY <2>2
    <3> QED
      BY <2>1, <2>2, <2>3, <3>1, <3>2, <3>3 DEF Lifecycle!Spawn
  <2> QED
    BY <2>4 DEF Lifecycle!Next
<1>5. ASSUME NEW th \in Threads, SpawnRefused(th)
      PROVE Lifecycle!Next \/ UNCHANGED Lifecycle!vars
  <2>1. Same
    BY <1>5 DEF SpawnRefused, Executes, Spends, Throws, Ends, Same
  <2> QED
    BY <2>1, <1>same
<1>6. ASSUME NEW th \in Threads, SpawnFails(th)
      PROVE Lifecycle!Next \/ UNCHANGED Lifecycle!vars
  <2>1. Same
    BY <1>6 DEF SpawnFails, Executes, Spends, Throws, Ends, Accepts, IdTaken, Same
  <2> QED
    BY <2>1, <1>same
<1>7. ASSUME NEW th \in Threads, ParkBegins(th)
      PROVE Lifecycle!Next \/ UNCHANGED Lifecycle!vars
  <2>1. Same
    BY <1>7 DEF ParkBegins, Spends, Ends, Same
  <2> QED
    BY <2>1, <1>same
<1>8. ASSUME NEW th \in Threads, ParkSleeps(th)
      PROVE Lifecycle!Next \/ UNCHANGED Lifecycle!vars
  <2>1. Same
    BY <1>8 DEF ParkSleeps, Same
  <2> QED
    BY <2>1, <1>same
<1>9. ASSUME NEW th \in Threads, ParkWakes(th)
      PROVE Lifecycle!Next \/ UNCHANGED Lifecycle!vars
  <2>1. Same
    BY <1>9 DEF ParkWakes, Ends, ParkCancelled, Same
  <2> QED
    BY <2>1, <1>same
<1>10. ASSUME NEW th \in Threads, ParkDeadline(th)
      PROVE Lifecycle!Next \/ UNCHANGED Lifecycle!vars
  <2>1. Same
    BY <1>10 DEF ParkDeadline, Ends, ParkCancelled, Same
  <2> QED
    BY <2>1, <1>same
<1>11. ASSUME NEW th \in Threads, InvalidCall(th)
      PROVE Lifecycle!Next \/ UNCHANGED Lifecycle!vars
  <2>1. Same
    BY <1>11 DEF InvalidCall, Executes, Spends, Throws, Ends, Same
  <2> QED
    BY <2>1, <1>same
<1>12. ASSUME NEW th \in Threads, ReadStatus(th)
      PROVE Lifecycle!Next \/ UNCHANGED Lifecycle!vars
  <2>1. Same
    BY <1>12 DEF ReadStatus, Executes, Spends, Same
  <2> QED
    BY <2>1, <1>same
<1>13. ASSUME NEW th \in Threads, Cancel(th)
      PROVE Lifecycle!Next \/ UNCHANGED Lifecycle!vars
  <2>1. PICK t \in registry : IF Completed(t) THEN cancelRequested' = cancelRequested
                              ELSE cancelRequested' = [cancelRequested EXCEPT ![t] = TRUE]
    BY <1>13 DEF Cancel, Executes, Spends, CancelsLocked
  <2>2. t \in TaskIds /\ os[t] # "none"
    BY DEF ShutdownInv
  <2>3. UNCHANGED <<os, status, stopping>> /\ pc[Owner] # "down" /\ pc'[Owner] # "down"
    BY <1>13 DEF Cancel, Executes, Spends, CancelsLocked
  <2>4. CASE Completed(t)
    BY <2>1, <2>3, <2>4, <1>same DEF Same
  <2>5. CASE ~Completed(t)
    <3>1. Lifecycle!Ask(t)
      <4>1. status[t] # "Absent"
        BY <2>2 DEF Statuses
      <4>2. {u \in TaskIds : cancelRequested[u]}'
            = {u \in TaskIds : cancelRequested[u]} \cup {t}
        <5>1. cancelRequested' = [cancelRequested EXCEPT ![t] = TRUE]
          BY <2>1, <2>5
        <5>2. \A u \in TaskIds : cancelRequested'[u] <=> (u = t \/ cancelRequested[u])
          BY <2>2, <5>1
        <5> QED
          BY <2>2, <5>2
      <4> QED
        BY <2>2, <2>3, <4>1, <4>2 DEF Lifecycle!Ask
    <3> QED
      BY <2>2, <3>1 DEF Lifecycle!Next
  <2> QED
    BY <2>4, <2>5
<1>14. ASSUME NEW th \in Threads, CancelNotifies(th)
      PROVE Lifecycle!Next \/ UNCHANGED Lifecycle!vars
  <2>1. Same
    BY <1>14 DEF CancelNotifies, Forgets, Same
  <2> QED
    BY <2>1, <1>same
<1>15. ASSUME NEW th \in Threads, WaitBegins(th)
      PROVE Lifecycle!Next \/ UNCHANGED Lifecycle!vars
  <2>1. Same
    BY <1>15 DEF WaitBegins, Executes, Spends, Same
  <2> QED
    BY <2>1, <1>same
<1>16. ASSUME NEW th \in Threads, WaitSleeps(th)
      PROVE Lifecycle!Next \/ UNCHANGED Lifecycle!vars
  <2>1. Same
    BY <1>16 DEF WaitSleeps, Same
  <2> QED
    BY <2>1, <1>same
<1>17. ASSUME NEW th \in Threads, WaitEnds(th)
      PROVE Lifecycle!Next \/ UNCHANGED Lifecycle!vars
  <2>1. Same
    BY <1>17 DEF WaitEnds, WaitIsOver, TakesSnapshot, SnapshotClaims, MayClaim, Returns, Forgets, Same
  <2> QED
    BY <2>1, <1>same
<1>18. ASSUME NEW th \in Threads, Joins(th)
      PROVE Lifecycle!Next \/ UNCHANGED Lifecycle!vars
  <2>1. Same
    BY <1>18 DEF Joins, Returns, Forgets, Same
  <2> QED
    BY <2>1, <1>same
<1>19. ASSUME NEW th \in Threads, Publishes(th)
      PROVE Lifecycle!Next \/ UNCHANGED Lifecycle!vars
  <2>1. th \in TaskIds /\ os[th] = "live" /\ status[th] = "Running"
    BY <1>19 DEF Publishes, LiveInv, VerdictInv, Completed
  <2>2. /\ status' = [status EXCEPT ![th] = verdict[th]]
        /\ UNCHANGED <<os, cancelRequested, stopping>>
        /\ pc'[Owner] = "down" <=> pc[Owner] = "down"
    BY <1>19, <2>1 DEF Publishes
  <2>3. verdict[th] \in Lifecycle!Verdicts /\ (verdict[th] = "Cancelled" => cancelRequested[th])
    BY <1>19, <2>1 DEF Publishes, VerdictInv, Verdicts, Statuses, Lifecycle!Verdicts
  <2>4. Lifecycle!Finish(th)
    BY <2>1, <2>2, <2>3 DEF Lifecycle!Finish
  <2> QED
    BY <2>1, <2>4 DEF Lifecycle!Next
<1>20. ASSUME NEW th \in Threads, NotifiesAndExits(th)
      PROVE Lifecycle!Next \/ UNCHANGED Lifecycle!vars
  <2>1. th \in TaskIds /\ os[th] = "live" /\ status'[th] = status[th]
    BY <1>20 DEF NotifiesAndExits, NotifiesAll, LiveInv, VerdictInv
  <2>2. /\ os' = [os EXCEPT ![th] = "exited"]
        /\ UNCHANGED <<status, cancelRequested, stopping>>
        /\ pc'[Owner] = "down" <=> pc[Owner] = "down"
    BY <1>20, <2>1 DEF NotifiesAndExits, NotifiesAll
  <2>3. status[th] \in Lifecycle!Verdicts
    BY <1>20, <2>1 DEF NotifiesAndExits, NotifiesAll, VerdictInv, Statuses, Lifecycle!Verdicts, Completed
  <2>4. Lifecycle!Exit(th)
    BY <2>1, <2>2, <2>3 DEF Lifecycle!Exit
  <2> QED
    BY <2>1, <2>4 DEF Lifecycle!Next
<1>21. ASSUME NEW th \in Threads, SpuriousWakeup(th)
      PROVE Lifecycle!Next \/ UNCHANGED Lifecycle!vars
  <2>1. Same
    BY <1>21 DEF SpuriousWakeup, Same
  <2> QED
    BY <2>1, <1>same
<1>22. CASE ShutdownBegins
  <2>1. stopping = FALSE /\ stopping' = TRUE /\ UNCHANGED <<os, status, cancelRequested>>
    BY <1>22 DEF ShutdownBegins, LiveInv, OwnerPcs
  <2>2. pc[Owner] # "down" /\ pc'[Owner] # "down"
    BY <1>22 DEF ShutdownBegins
  <2>3. Lifecycle!StopAccepting
    BY <2>1, <2>2 DEF Lifecycle!StopAccepting
  <2> QED
    BY <2>3 DEF Lifecycle!Next
<1>23. CASE ShutdownCancels
  <2>1. PICK t \in todo : cancelRequested' = [cancelRequested EXCEPT ![t] = TRUE]
    BY <1>23 DEF ShutdownCancels, RequestsCancel
  <2>2. t \in TaskIds /\ os[t] # "none"
    BY DEF ShutdownInv, VerdictInv
  <2>3. UNCHANGED <<os, status, stopping>> /\ pc[Owner] # "down" /\ pc'[Owner] # "down"
    BY <1>23 DEF ShutdownCancels, RequestsCancel
  <2>4. status[t] # "Absent"
    BY <2>2 DEF Statuses
  <2>5. Lifecycle!Ask(t)
    BY <2>1, <2>2, <2>3, <2>4 DEF Lifecycle!Ask
  <2> QED
    BY <2>2, <2>5 DEF Lifecycle!Next
<1>24. CASE ShutdownNotifies
  <2>1. Same
    BY <1>24 DEF ShutdownNotifies, Forgets, Same
  <2> QED
    BY <2>1, <1>same
<1>25. CASE ShutdownStartsJoining
  <2>1. Same
    BY <1>25 DEF ShutdownStartsJoining, Same
  <2> QED
    BY <2>1, <1>same
<1>26. CASE ShutdownClaims
  <2>1. Same
    BY <1>26 DEF ShutdownClaims, MayClaim, Same
  <2> QED
    BY <2>1, <1>same
<1>27. CASE ShutdownJoins
  <2>1. Same
    BY <1>27 DEF ShutdownJoins, Forgets, Same
  <2> QED
    BY <2>1, <1>same
<1>28. CASE ShutdownClears
  <2>1. pc'[Owner] = "down" /\ stopping = TRUE
    BY <1>28 DEF ShutdownClears, LiveInv, OwnerPcs
  <2>2. UNCHANGED <<os, status, cancelRequested, stopping>>
    BY <1>28 DEF ShutdownClears
  <2>3. \A t \in TaskIds : os[t] # "live"
    BY <2>1, <2>2, <1>quiet2 DEF NothingOutlivesOwner
  <2>4. Lifecycle!Close
    BY <2>1, <2>2, <2>3 DEF Lifecycle!Close
  <2> QED
    BY <2>4 DEF Lifecycle!Next
<1>29. CASE Stopped \/ UNCHANGED vars
  BY <1>29, <1>same DEF Stopped, vars, Same
<1> QED
  BY <1>1, <1>2, <1>3, <1>4, <1>5, <1>6, <1>7, <1>8, <1>9, <1>10, <1>11, <1>12, <1>13, <1>14, <1>15, <1>16, <1>17, <1>18, <1>19, <1>20, <1>21, <1>22, <1>23, <1>24, <1>25, <1>26, <1>27, <1>28, <1>29 DEF Next, Step, Shutdown

\* The runtime implements the life cycle that the library file relies on: one
\* start, one verdict, no cancellation nobody asked for, nothing left at the end.
THEOREM Implements == Spec => LifecycleSpec
<1>1. Init => Lifecycle!Init
  BY IdFacts DEF Init, Lifecycle!Init
<1>2. IInv /\ IInv' /\ VerdictInv /\ [Next]_vars => [Lifecycle!Next]_(Lifecycle!vars)
  BY LifecycleStep
<1> QED
  BY Invariance, VerdictAlways, <1>1, <1>2, PTL DEF Spec, LifecycleSpec, Lifecycle!Spec
================================================================================
