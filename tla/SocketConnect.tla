---------------------------- MODULE SocketConnect ----------------------------
(***************************************************************************)
(* socket_machine::connect: a descriptor is made non-blocking, connected    *)
(* within a time limit whatever signals interrupt the waiting, made blocking *)
(* again and given its transfer time-outs; any failure closes it.           *)
(***************************************************************************)
EXTENDS Naturals

CONSTANTS Timeout,   \* timeoutMs, in ticks of the clock
          LastTick   \* bound of the clock, above Timeout

VARIABLES at,        \* the call that is next
          fd,        \* "none", "open", "closed"
          blocking, timed,
          now, deadline,
          wake,      \* when the poll that is waiting gives up
          peer,      \* "pending", "accepted", "refused"
          answer     \* "none", "connected", "failed"

vars == <<at, fd, blocking, timed, now, deadline, wake, peer, answer>>

Init ==
  /\ at = "socket" /\ fd = "none" /\ blocking = TRUE /\ timed = FALSE
  /\ now = 0 /\ deadline = 0 /\ wake = 0 /\ peer = "pending" /\ answer = "none"

Goto(label) == at' = label /\ UNCHANGED answer

Abort == at' = "returned" /\ answer' = "failed" /\ fd' = "closed"

Open ==
  /\ at = "socket"
  /\ \/ fd' = "open" /\ Goto("nonblock")
     \/ at' = "returned" /\ answer' = "failed" /\ UNCHANGED fd
  /\ UNCHANGED <<blocking, timed, now, deadline, wake, peer>>

(* SO_NOSIGPIPE, F_GETFL and F_SETFL.                                       *)
NonBlock ==
  /\ at = "nonblock"
  /\ \/ blocking' = FALSE /\ Goto("connect") /\ UNCHANGED fd
     \/ Abort /\ UNCHANGED blocking
  /\ UNCHANGED <<timed, now, deadline, wake, peer>>

Connect ==
  /\ at = "connect"
  /\ \/ peer = "accepted" /\ Goto("restore") /\ UNCHANGED fd
     \/ peer = "pending" /\ Goto("start") /\ UNCHANGED fd
     \/ peer = "refused" /\ Abort
  /\ UNCHANGED <<blocking, timed, now, deadline, wake, peer>>

Start ==
  /\ at = "start"
  /\ \/ deadline' = now + Timeout /\ Goto("loop") /\ UNCHANGED fd
     \/ Abort /\ UNCHANGED deadline
  /\ UNCHANGED <<blocking, timed, now, wake, peer>>

(* Mutant: each wait has the whole time limit.                              *)
WholeTimeout == Timeout

Left == IF deadline > now THEN deadline - now ELSE 0

Loop ==
  /\ at = "loop"
  /\ IF Left = 0 THEN Abort /\ UNCHANGED wake
     ELSE \/ wake' = now + Left /\ Goto("poll") /\ UNCHANGED fd
          \/ Abort /\ UNCHANGED wake      \* the clock cannot be read
  /\ UNCHANGED <<blocking, timed, now, deadline, peer>>

Poll ==
  /\ at = "poll"
  /\ \/ peer # "pending" /\ Goto("pending") /\ UNCHANGED fd
     \/ now >= wake /\ Abort
  /\ UNCHANGED <<blocking, timed, now, deadline, wake, peer>>

PollFails ==
  /\ at = "poll" /\ Abort
  /\ UNCHANGED <<blocking, timed, now, deadline, wake, peer>>

Interrupted ==
  /\ at = "poll" /\ Goto("loop")
  /\ UNCHANGED <<fd, blocking, timed, now, deadline, wake, peer>>

(* Mutant: a descriptor that can be written to is taken for connected.      *)
WritableIsConnected == TRUE

PendingError == peer = "accepted"

CheckPending ==
  /\ at = "pending"
  /\ IF PendingError THEN Goto("restore") /\ UNCHANGED fd ELSE Abort
  /\ UNCHANGED <<blocking, timed, now, deadline, wake, peer>>

Restore ==
  /\ at = "restore"
  /\ \/ blocking' = TRUE /\ Goto("timeouts") /\ UNCHANGED fd
     \/ Abort /\ UNCHANGED blocking
  /\ UNCHANGED <<timed, now, deadline, wake, peer>>

SetTimeouts ==
  /\ at = "timeouts"
  /\ \/ timed' = TRUE /\ at' = "returned" /\ answer' = "connected" /\ UNCHANGED fd
     \/ Abort /\ UNCHANGED timed
  /\ UNCHANGED <<blocking, now, deadline, wake, peer>>

Call ==
  \/ Open \/ NonBlock \/ Connect \/ Start \/ Loop \/ Poll \/ CheckPending
  \/ Restore \/ SetTimeouts

(* Time passes while the caller waits; its own calls take none.             *)
Tick ==
  /\ at = "poll" /\ now < wake /\ now < LastTick
  /\ now' = now + 1
  /\ UNCHANGED <<at, fd, blocking, timed, deadline, wake, peer, answer>>

Answer ==
  /\ at # "returned" /\ peer = "pending"
  /\ peer' \in {"accepted", "refused"}
  /\ UNCHANGED <<at, fd, blocking, timed, now, deadline, wake, answer>>

Next == Call \/ PollFails \/ Interrupted \/ Tick \/ Answer

(* The caller runs, signals do not stop the clock, and nothing need fail.    *)
Spec == Init /\ [][Next]_vars /\ WF_vars(Call) /\ SF_vars(Tick)

-----------------------------------------------------------------------------

(***************************************************************************)
(* socket_machine::connect hands out a descriptor that is connected, blocks  *)
(* and has its time-outs, or none, and then leaves none open, whichever of   *)
(* its calls fails.                                                         *)
(***************************************************************************)
AllOrNothing ==
  at = "returned" =>
    IF answer = "connected"
    THEN fd = "open" /\ blocking /\ timed /\ peer = "accepted"
    ELSE fd # "open"

(* foreign.cpp: "EINTR never resets deadline": the wait ends in time however *)
(* often it is interrupted.                                                 *)
DeadlineKept == now <= Timeout

(* A connection attempt ends although nobody answers and signals keep coming. *)
Returns == <>(at = "returned")

=============================================================================
