----------------------------- MODULE TaskLifecycle -----------------------------
(***************************************************************************)
(* What the worker runtime of the V++ virtual machine promises to the code *)
(* of the library file "đồng thời.vi": a task is started at most once,     *)
(* ends once with a verdict that never changes, is cancelled only when     *)
(* somebody asked for it, and no task and no OS thread outlives the owner  *)
(* of the runtime.                                                         *)
(***************************************************************************)
CONSTANT Tasks

VARIABLES life,       \* verdict of each task, "Absent" before it is spawned
          asked,      \* the tasks somebody asked to cancel
          live,       \* the tasks whose OS thread still runs
          accepting,  \* new tasks are still accepted
          closed      \* the owner has returned from its destructor

vars == <<life, asked, live, accepting, closed>>

Verdicts == {"Done", "Cancelled", "Failed"}

Init ==
    /\ life = [t \in Tasks |-> "Absent"]
    /\ asked = {}
    /\ live = {}
    /\ accepting = TRUE
    /\ closed = FALSE

Spawn(t) ==
    /\ accepting
    /\ life[t] = "Absent"
    /\ life' = [life EXCEPT ![t] = "Running"]
    /\ live' = live \cup {t}
    /\ UNCHANGED <<asked, accepting, closed>>

Ask(t) ==
    /\ ~closed
    /\ life[t] # "Absent"
    /\ asked' = asked \cup {t}
    /\ UNCHANGED <<life, live, accepting, closed>>

Finish(t) ==
    /\ t \in live
    /\ life[t] = "Running"
    /\ \E v \in Verdicts :
         /\ v = "Cancelled" => t \in asked
         /\ life' = [life EXCEPT ![t] = v]
    /\ UNCHANGED <<asked, live, accepting, closed>>

Exit(t) ==
    /\ t \in live
    /\ life[t] \in Verdicts
    /\ live' = live \ {t}
    /\ UNCHANGED <<life, asked, accepting, closed>>

StopAccepting ==
    /\ accepting
    /\ accepting' = FALSE
    /\ UNCHANGED <<life, asked, live, closed>>

Close ==
    /\ ~accepting
    /\ live = {}
    /\ closed' = TRUE
    /\ UNCHANGED <<life, asked, live, accepting>>

Next ==
    \/ \E t \in Tasks : Spawn(t) \/ Ask(t) \/ Finish(t) \/ Exit(t)
    \/ StopAccepting
    \/ Close

Spec == Init /\ [][Next]_vars
================================================================================
