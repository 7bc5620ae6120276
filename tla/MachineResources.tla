-------------------------- MODULE MachineResources --------------------------
(***************************************************************************)
(* What a program holds of the operating system: files, directories,        *)
(* sockets, TLS sessions, address lists and child processes.  Each VM keeps  *)
(* them in tables under integer tokens; a program sees tokens only, and a    *)
(* token may reach any VM as a value.  The system gives handles and process  *)
(* numbers out again after they are released.                               *)
(***************************************************************************)
EXTENDS Naturals, FiniteSets

CONSTANTS VMs, Handles, Pids,
          MaxToken,             \* INT32_MAX: no token above it is given out
          MaxMade,              \* bound: resources made in a behaviour
          FailingInserts,       \* kinds whose table insert may throw
          CloseKeepsToken       \* a failed close keeps its token

VARIABLES os,        \* the resource that owns each handle, 0 when it is free
          children,  \* the resource that started each process, 0 when there is none
          ended,     \* processes that have exited and are not reaped
          table,     \* the entries of every VM
          issued,    \* the resource each token was given out for
          nextToken, \* nextForeignSocketToken for sockets, nextOpaqueResourceToken
          made       \* the number of resources made

vars == <<os, children, ended, table, issued, nextToken, made>>

None == 0
Kinds == {"file", "directory", "stream", "socket", "resolver", "process"}

Families == {"socket", "opaque"}
Family(kind) == IF kind = "socket" THEN "socket" ELSE "opaque"

Entry(token, id, kind, first, listener) ==
  [token |-> token, id |-> id, kind |-> kind, first |-> first, second |-> None,
   pid |-> None, started |-> FALSE, listener |-> listener, tls |-> FALSE]

(* Every token fits in an int and every entry names handles and processes    *)
(* there are.                                                               *)
TypeOK ==
  /\ os \in [Handles -> 0 .. MaxMade] /\ children \in [Pids -> 0 .. MaxMade]
  /\ ended \subseteq Pids
  /\ \A vm \in VMs : \A entry \in table[vm] :
       /\ entry.kind \in Kinds /\ entry.token \in Families \X (1 .. MaxToken) /\ entry.id \in 1 .. made
       /\ entry.first \in Handles \union {None} /\ entry.second \in Handles \union {None}
       /\ entry.pid \in Pids \union {None}
  /\ nextToken \in [Families -> 1 .. MaxToken + 1] /\ made \in 0 .. MaxMade

Init ==
  /\ os = [handle \in Handles |-> None] /\ children = [pid \in Pids |-> None] /\ ended = {}
  /\ table = [vm \in VMs |-> {}]
  /\ issued = [token \in {} |-> 0] /\ nextToken = [family \in Families |-> 1] /\ made = 0

Free == {handle \in Handles : os[handle] = None}

(* The handle the system gives next.                                        *)
Lowest(handle) == \A other \in Free : handle <= other

Grant(id, handle) == [os EXCEPT ![handle] = id]

(* close(2), fclose, closedir, freeaddrinfo: whoever owns the handle loses it. *)
Released(some) == [handle \in Handles |-> IF handle \in some THEN None ELSE os[handle]]

HandlesOf(entry) == {entry.first, entry.second} \ {None}

Replace(vm, entry, changed) == [table EXCEPT ![vm] = (@ \ {entry}) \union {changed}]
Without(vm, entry) == [table EXCEPT ![vm] = @ \ {entry}]

TokenFor(vm, family) == <<family, nextToken[family]>>

(* The counter goes on, but above the limit all its values are alike.       *)
TokenTaken(family) ==
  nextToken' = [nextToken EXCEPT ![family] = IF @ > MaxToken THEN @ ELSE @ + 1]

(* Mutant: the largest token is one too many for an int.                    *)
ExhaustedLate(family) == nextToken[family] > MaxToken + 1

Exhausted(family) == nextToken[family] > MaxToken

Publish(vm, entry) ==
  /\ table' = [table EXCEPT ![vm] = @ \union {entry}]
  /\ issued' = [token \in DOMAIN issued \union {entry.token} |->
                  IF token = entry.token THEN entry.id ELSE issued[token]]

(***************************************************************************)
(* The system gives a handle; the entry is made, or the handle is released   *)
(* because the tokens are used up or the insert throws.  An insert that is   *)
(* not guarded leaves the handle behind.                                    *)
(***************************************************************************)
Guarded(kind) == kind # "stream"

Register(vm, kind, listener) ==
  /\ made < MaxMade
  /\ \E handle \in Free :
       /\ Lowest(handle)
       /\ \/ /\ ~Exhausted(Family(kind))
             /\ Publish(vm, Entry(TokenFor(vm, Family(kind)), made + 1, kind, handle, listener))
             /\ os' = Grant(made + 1, handle) /\ made' = made + 1
          \/ /\ Exhausted(Family(kind))
             /\ UNCHANGED <<table, issued, os, made>>
          \/ /\ ~Exhausted(Family(kind)) /\ kind \in FailingInserts
             /\ os' = IF Guarded(kind) THEN os ELSE Grant(made + 1, handle)
             /\ made' = made + 1
             /\ UNCHANGED <<table, issued>>
  /\ TokenTaken(Family(kind))
  /\ UNCHANGED <<children, ended>>

(* The system refuses: the file primitive has taken its token before.       *)
OpenRefused(kind) ==
  /\ kind \in {"file", "stream"} /\ ~Exhausted(Family(kind))
  /\ TokenTaken(Family(kind))
  /\ UNCHANGED <<os, children, ended, table, issued, made>>

OpenFile(vm) == Register(vm, "file", FALSE) \/ OpenRefused("file")
OpenDirectory(vm) == Register(vm, "directory", FALSE)
OpenStream(vm) == Register(vm, "stream", FALSE) \/ OpenRefused("stream")
OpenResolver(vm) == Register(vm, "resolver", FALSE)
ConnectSocket(vm) == Register(vm, "socket", FALSE)
ListenSocket(vm) == Register(vm, "socket", TRUE)

Named(vm, token, kinds) == {entry \in table[vm] : entry.token = token /\ entry.kind \in kinds}

(* Mutant: the handle accept() gave is forgotten when it cannot be set up.  *)
AcceptedKept(handle) == Grant(MaxMade, handle)

(* setTimeout or SO_NOSIGPIPE fails on an accepted connection: closed again. *)
AcceptedDropped(handle) == os

Accept(vm, token) ==
  \E entry \in Named(vm, token, {"socket"}) :
    /\ entry.listener /\ ~entry.tls
    /\ \/ Register(vm, "socket", FALSE)
       \/ /\ \E handle \in Free : Lowest(handle) /\ os' = AcceptedDropped(handle)
          /\ UNCHANGED <<children, ended, table, issued, nextToken, made>>

(***************************************************************************)
(* Closing: a file, a directory or an FFI handle leaves its table before or  *)
(* whatever the system answers; a socket of the machine only when the system *)
(* agrees, or on Linux was interrupted.  The handle is released in any case.  *)
(* Elsewhere an interruption keeps the token, and so does any other error:   *)
(* the close of a socket that is open has none on Linux.                     *)
(***************************************************************************)
(* Mutant: a socket stays open when the TLS provider is to close it.        *)
ReleasedUnlessTls(entry) == Released(IF entry.tls THEN {} ELSE HandlesOf(entry))

ReleasedBy(entry) == Released(HandlesOf(entry))

CloseSimple(vm, token) ==
  \E entry \in Named(vm, token, {"file", "directory", "stream", "resolver"}) :
    /\ table' = Without(vm, entry)
    /\ os' = ReleasedBy(entry)
    /\ UNCHANGED <<children, ended, issued, nextToken, made>>

CloseSocket(vm, token) ==
  \E entry \in Named(vm, token, {"socket"}), failed \in BOOLEAN :
    /\ failed => ~entry.tls
    /\ table' = IF failed /\ CloseKeepsToken THEN table ELSE Without(vm, entry)
    /\ os' = ReleasedBy(entry)
    /\ UNCHANGED <<children, ended, issued, nextToken, made>>

(* close() through the FFI: the token is invalid after the call.            *)
CloseSocketForeign(vm, token) ==
  \E entry \in Named(vm, token, {"socket"}) :
    /\ table' = Without(vm, entry)
    /\ os' = ReleasedBy(entry)
    /\ UNCHANGED <<children, ended, issued, nextToken, made>>

(* The provider takes the descriptor; a handshake that fails has closed it.  *)
UpgradeTls(vm, token) ==
  \E entry \in Named(vm, token, {"socket"}) :
    /\ ~entry.tls /\ ~entry.listener
    /\ \/ table' = Replace(vm, entry, [entry EXCEPT !.tls = TRUE]) /\ UNCHANGED os
       \/ table' = Without(vm, entry) /\ os' = Released({entry.first})
    /\ UNCHANGED <<children, ended, issued, nextToken, made>>

(***************************************************************************)
(* Child processes: an entry first, two pipes and a child when it starts, a  *)
(* pipe is closed at the end of its output, the child is waited for after    *)
(* both, and close kills what is left.  A start that fails (no pipe, no      *)
(* attributes, no such program) closes what it opened and is the last.       *)
(***************************************************************************)
NewProcess(vm) ==
  /\ made < MaxMade
  /\ TokenTaken("opaque")
  /\ IF Exhausted("opaque")
     THEN UNCHANGED <<table, issued, made>>
     ELSE /\ Publish(vm, Entry(TokenFor(vm, "opaque"), made + 1, "process", None, FALSE))
          /\ made' = made + 1
  /\ UNCHANGED <<os, children, ended>>

FreePids == {pid \in Pids : children[pid] = None}

StartProcess(vm, token) ==
  \E entry \in Named(vm, token, {"process"}) :
    /\ ~entry.started
    /\ \/ \E out, err \in Free, pid \in FreePids :
            /\ out < err /\ \A other \in Free : other = out \/ err <= other
            /\ table' = Replace(vm, entry, [entry EXCEPT !.started = TRUE, !.first = out,
                                                         !.second = err, !.pid = pid])
            /\ os' = [os EXCEPT ![out] = entry.id, ![err] = entry.id]
            /\ children' = [children EXCEPT ![pid] = entry.id]
       \/ /\ table' = Replace(vm, entry, [entry EXCEPT !.started = TRUE])
          /\ UNCHANGED <<os, children>>
    /\ UNCHANGED <<ended, issued, nextToken, made>>

Exit(pid) ==
  /\ children[pid] # None /\ pid \notin ended
  /\ ended' = ended \union {pid}
  /\ UNCHANGED <<os, children, table, issued, nextToken, made>>

(* read() returned nothing: the child and what it started are gone.         *)
ReadEnd(vm, token) ==
  \E entry \in Named(vm, token, {"process"}) :
    /\ entry.pid \in ended
    /\ \/ entry.first # None
          /\ os' = Released({entry.first})
          /\ table' = Replace(vm, entry, [entry EXCEPT !.first = None])
       \/ entry.second # None
          /\ os' = Released({entry.second})
          /\ table' = Replace(vm, entry, [entry EXCEPT !.second = None])
    /\ UNCHANGED <<children, ended, issued, nextToken, made>>

Reaped(some) == [pid \in Pids |-> IF pid \in some THEN None ELSE children[pid]]

PidForgotten(entry) == [entry EXCEPT !.pid = None]

WaitProcess(vm, token) ==
  \E entry \in Named(vm, token, {"process"}) :
    /\ entry.pid # None /\ entry.first = None /\ entry.second = None
    /\ entry.pid \in ended
    /\ children' = Reaped({entry.pid}) /\ ended' = ended \ {entry.pid}
    /\ table' = Replace(vm, entry, PidForgotten(entry))
    /\ UNCHANGED <<os, issued, nextToken, made>>

(* closeForeignProcess: kill(-pid, SIGKILL), then waitpid.                  *)
CloseProcess(vm, token) ==
  \E entry \in Named(vm, token, {"process"}) :
    /\ table' = Without(vm, entry)
    /\ os' = Released(HandlesOf(entry))
    /\ children' = Reaped({entry.pid}) /\ ended' = ended \ {entry.pid}
    /\ UNCHANGED <<issued, nextToken, made>>

(* closeAll of every state of a VM: resetExecution and the destructor.      *)
ResetVM(vm) ==
  /\ os' = Released(UNION {HandlesOf(entry) : entry \in table[vm]})
  /\ children' = Reaped({entry.pid : entry \in table[vm]})
  /\ ended' = ended \ {entry.pid : entry \in table[vm]}
  /\ table' = [table EXCEPT ![vm] = {}]
  /\ UNCHANGED <<issued, nextToken, made>>

Next ==
  \/ \E vm \in VMs :
       \/ OpenFile(vm) \/ OpenDirectory(vm) \/ OpenStream(vm) \/ OpenResolver(vm)
       \/ ConnectSocket(vm) \/ ListenSocket(vm) \/ NewProcess(vm) \/ ResetVM(vm)
       \/ \E token \in DOMAIN issued :
            \/ Accept(vm, token) \/ CloseSimple(vm, token) \/ CloseSocket(vm, token)
            \/ CloseSocketForeign(vm, token) \/ UpgradeTls(vm, token)
            \/ StartProcess(vm, token) \/ ReadEnd(vm, token) \/ WaitProcess(vm, token)
            \/ CloseProcess(vm, token)
  \/ \E pid \in Pids : Exit(pid)

Spec == Init /\ [][Next]_vars

-----------------------------------------------------------------------------

Entries == UNION {table[vm] : vm \in VMs}

(***************************************************************************)
(* foreign.h: "All still-open resources are reclaimed on reset/destruction": *)
(* whatever fails on the way, each open handle and each child belongs to an  *)
(* entry of a table, which a reset walks.                                   *)
(***************************************************************************)
NothingLeaks ==
  /\ \A handle \in Handles : os[handle] # None =>
       \E entry \in Entries : handle \in HandlesOf(entry) /\ entry.id = os[handle]
  /\ \A pid \in Pids : children[pid] # None =>
       \E entry \in Entries : entry.pid = pid /\ entry.id = children[pid]

(***************************************************************************)
(* foreign.cpp: "retrying close risks closing an unrelated fd".  The handles *)
(* and the process an entry names are its own and not those of somebody the  *)
(* system gave the same numbers to afterwards, so that no use, no close and   *)
(* no kill hits another.                                                    *)
(***************************************************************************)
NothingDangles ==
  \A entry \in Entries :
    /\ \A handle \in HandlesOf(entry) : os[handle] = entry.id
    /\ entry.pid # None => children[entry.pid] = entry.id

(***************************************************************************)
(* resource_token.h and foreign.cpp: "A token issued to VM A must never       *)
(* accidentally match an unrelated open stream in VM B".  A token that was   *)
(* given out names one resource for ever: a program that keeps it, in that   *)
(* VM or another, reaches this resource or nothing.                         *)
(***************************************************************************)
TokensNameOneResource ==
  [][\A token \in DOMAIN issued : issued'[token] = issued[token]]_vars

=============================================================================
