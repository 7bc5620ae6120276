--------------------------- MODULE NativeSockets ---------------------------
(***************************************************************************)
(* The socket table of the Windows build (vm_native_m3_helpers.cpp): one    *)
(* table for the whole process, used by the threads of all workers.  An     *)
(* entry is an object that callers share: the table is read and changed     *)
(* under socketMutex, one step here, and a call that blocks holds only the  *)
(* ioMutex of its entry, several steps.  Callers change the table, close    *)
(* entries and turn them into TLS entries while others wait for them.       *)
(*                                                                         *)
(* kernel gives for each open handle of the operating system what it is;    *)
(* closed handles are given out again.  An object keeps its handle, 0 for   *)
(* kInvalidNativeSocket.  Bounds: MaxAddresses addresses of a host and      *)
(* MaxObjects objects in all.                                               *)
(***************************************************************************)
EXTENDS Naturals, Sequences

CONSTANTS Threads,         \* the threads of the workers; 0 is none of them
          NativeHandles,   \* naturals above 0
          MaxAddresses, MaxObjects

VARIABLES kernel, objects, openSockets, openTlsSockets, nextSocketId, caller

vars == <<kernel, objects, openSockets, openTlsSockets, nextSocketId, caller>>

tables == <<openSockets, openTlsSockets, nextSocketId>>

Nobody == 0
Kinds == {"fresh", "connected", "listening"}
Objects == [handle: NativeHandles \cup {0}, listener: BOOLEAN, stream: BOOLEAN,
            ioMutex: Threads \cup {Nobody}]

(* A caller: where it is, what it was asked (id or kind of socket), the     *)
(* entry it looked up, the handle only it knows, the addresses left to try  *)
(* and whether an error text is already set.                                *)
Idle == [at |-> "idle", operation |-> "none", id |-> 0, entry |-> 0, fd |-> 0, left |-> 0,
         err |-> FALSE]

Operations == {"connect stream", "connect datagram", "listen", "accept", "use", "close",
               "upgrade"}

Init == /\ kernel = [h \in {} |-> "fresh"]
        /\ objects = <<>>
        /\ openSockets = [id \in {} |-> 0] /\ openTlsSockets = [id \in {} |-> 0]
        /\ nextSocketId = 1
        /\ caller = [t \in Threads |-> Idle]

Goes(t, fields) == caller' = [caller EXCEPT ![t] = fields]
Answers(t) == Goes(t, Idle)

Without(table, id) == [i \in DOMAIN table \ {id} |-> table[i]]
With(table, id, value) == [i \in DOMAIN table \cup {id} |-> IF i = id THEN value ELSE table[i]]

(* closesocket, where an invalid handle is left alone.                      *)
closeNativeSocket(h) == kernel' = Without(kernel, h)

-----------------------------------------------------------------------------
(* Opening *)

(* socketOpen: the arguments are in range and getaddrinfo gives some        *)
(* addresses, none when it fails.                                           *)
socketOpen(t) ==
  /\ caller[t] = Idle
  /\ \E operation \in {"connect stream", "connect datagram"}, left \in 0 .. MaxAddresses :
       Goes(t, [Idle EXCEPT !.at = "next address", !.operation = operation, !.left = left])
  /\ UNCHANGED <<kernel, objects, tables>>

(* One address of openConnectedNativeSocket: a socket is made, or none can  *)
(* be made and the next address is tried without a word.                    *)
TryAddress(t) ==
  /\ caller[t].at = "next address" /\ caller[t].left > 0
  /\ \/ /\ Goes(t, [caller[t] EXCEPT !.left = @ - 1]) /\ UNCHANGED kernel
     \/ \E h \in NativeHandles \ DOMAIN kernel :
          /\ kernel' = With(kernel, h, "fresh")
          /\ Goes(t, [caller[t] EXCEPT !.at = "connecting", !.left = @ - 1, !.fd = h])
  /\ UNCHANGED <<objects, tables>>

(* No address is left: the call fails and has nothing to give back.         *)
GiveUp(t) == /\ caller[t].at = "next address" /\ caller[t].left = 0
             /\ Answers(t) /\ UNCHANGED <<kernel, objects, tables>>

(* connectWithTimeout and the timeouts of the new socket.  An address that  *)
(* fails is closed; where the failure has a text, an expired wait or a      *)
(* socket that cannot be made non-blocking, the text stays set while the    *)
(* next address is tried.                                                   *)
connectWithTimeout(t) ==
  /\ caller[t].at = "connecting"
  /\ \/ /\ kernel' = [kernel EXCEPT ![caller[t].fd] = "connected"]
        /\ Goes(t, [caller[t] EXCEPT !.at = "register"])
     \/ \E text \in {caller[t].err, TRUE} :
          /\ closeNativeSocket(caller[t].fd)
          /\ Goes(t, [caller[t] EXCEPT !.at = "next address", !.fd = 0, !.err = text])
  /\ UNCHANGED <<objects, tables>>

(* socketListen up to the socket, and its bind and listen.                  *)
socketListen(t) ==
  /\ caller[t] = Idle
  /\ \E h \in NativeHandles \ DOMAIN kernel :
       /\ kernel' = With(kernel, h, "fresh")
       /\ Goes(t, [Idle EXCEPT !.at = "binding", !.operation = "listen", !.fd = h])
  /\ UNCHANGED <<objects, tables>>

Bind(t) ==
  /\ caller[t].at = "binding"
  /\ \/ /\ kernel' = [kernel EXCEPT ![caller[t].fd] = "listening"]
        /\ Goes(t, [caller[t] EXCEPT !.at = "register"])
     \/ closeNativeSocket(caller[t].fd) /\ Answers(t)
  /\ UNCHANGED <<objects, tables>>

(* The end of socketOpen, socketListen and socketAccept: an object with the *)
(* handle enters the table under the next id.  The id is the result, unless *)
(* a text of an address that failed before makes the call an error.         *)
Register(t) ==
  LET c == caller[t]
      entry == [handle |-> c.fd, listener |-> c.operation = "listen",
                stream |-> c.operation # "connect datagram", ioMutex |-> Nobody]
  IN /\ c.at = "register" /\ Len(objects) < MaxObjects
     /\ objects' = Append(objects, entry)
     /\ openSockets' = With(openSockets, nextSocketId, Len(objects) + 1)
     /\ nextSocketId' = nextSocketId + 1
     /\ Answers(t) /\ UNCHANGED <<kernel, openTlsSockets>>

-----------------------------------------------------------------------------
(* Accepting *)

Ids == 1 .. nextSocketId

Looks(t, operation, id, o) ==
  Goes(t, [Idle EXCEPT !.at = "waiting", !.operation = operation, !.id = id, !.entry = o])

Free(o) == objects[o].ioMutex = Nobody

(* socketAccept looks the listener up, and copies its handle under the      *)
(* ioMutex of the entry; it waits for a connection without any lock.        *)
socketAccept(t, id) ==
  /\ caller[t] = Idle /\ id \in DOMAIN openSockets /\ objects[openSockets[id]].listener
  /\ Looks(t, "accept", id, openSockets[id])
  /\ UNCHANGED <<kernel, objects, tables>>

CopyHandle(t) ==
  LET c == caller[t] IN
  /\ c.at = "waiting" /\ c.operation = "accept" /\ Free(c.entry)
  /\ IF objects[c.entry].handle = 0 THEN Answers(t)
     ELSE Goes(t, [c EXCEPT !.at = "accepting", !.fd = objects[c.entry].handle])
  /\ UNCHANGED <<kernel, objects, tables>>

(* accept with the copied handle, which may be closed by now, or be another *)
(* listener's; the timeouts of the accepted socket.                         *)
Accept(t) ==
  LET c == caller[t] IN
  /\ c.at = "accepting"
  /\ \/ Answers(t) /\ UNCHANGED kernel
     \/ /\ c.fd \in DOMAIN kernel /\ kernel[c.fd] = "listening"
        /\ \E h \in NativeHandles \ DOMAIN kernel :
             /\ kernel' = With(kernel, h, "connected")
             /\ Goes(t, [c EXCEPT !.at = "register", !.fd = h])
  /\ UNCHANGED <<objects, tables>>

-----------------------------------------------------------------------------
(* Calls on an id *)

(* handleSockets: send, receive and set a timeout look the entry up; close  *)
(* takes it out of its table at once.                                       *)
handleSockets(t, id) ==
  /\ caller[t] = Idle
  /\ \/ /\ id \in DOMAIN openSockets
        /\ \/ Looks(t, "use", id, openSockets[id]) /\ UNCHANGED openSockets
           \/ /\ Looks(t, "close", id, openSockets[id])
              /\ openSockets' = Without(openSockets, id)
        /\ UNCHANGED openTlsSockets
     \/ /\ id \in DOMAIN openTlsSockets \ DOMAIN openSockets
        /\ \/ Looks(t, "use", id, openTlsSockets[id]) /\ UNCHANGED openTlsSockets
           \/ /\ Looks(t, "close", id, openTlsSockets[id])
              /\ openTlsSockets' = Without(openTlsSockets, id)
        /\ UNCHANGED openSockets
  /\ UNCHANGED <<kernel, objects, nextSocketId>>

(* A connected stream may be upgraded to TLS.                               *)
socketTlsUpgradeVm(t, id) ==
  /\ caller[t] = Idle /\ id \in DOMAIN openSockets
  /\ LET o == openSockets[id] IN
     /\ ~objects[o].listener /\ objects[o].stream
     /\ Looks(t, "upgrade", id, o)
  /\ UNCHANGED <<kernel, objects, tables>>

(* The caller gets the ioMutex.  A close closes the handle that is still    *)
(* there; the others refuse an entry whose handle is gone, or start.        *)
Enter(t) ==
  LET c == caller[t]
      h == objects[c.entry].handle
  IN /\ c.at = "waiting" /\ c.operation \in {"use", "close", "upgrade"} /\ Free(c.entry)
     /\ \/ /\ c.operation = "close"
           /\ closeNativeSocket(h)
           /\ objects' = [objects EXCEPT ![c.entry].handle = 0]
           /\ Answers(t)
        \/ /\ c.operation # "close" /\ h = 0
           /\ Answers(t) /\ UNCHANGED <<kernel, objects>>
        \/ /\ c.operation # "close" /\ h # 0
           /\ objects' = [objects EXCEPT ![c.entry].ioMutex = t]
           /\ Goes(t, [c EXCEPT !.at = "inside"]) /\ UNCHANGED kernel
     /\ UNCHANGED tables

(* A send, a receive or a new timeout returns.                              *)
Used(t) ==
  LET c == caller[t] IN
  /\ c.at = "inside" /\ c.operation = "use"
  /\ objects' = [objects EXCEPT ![c.entry].ioMutex = Nobody]
  /\ Answers(t) /\ UNCHANGED <<kernel, tables>>

(* Mutant: the raw entry keeps the handle that the TLS session has now.     *)
KeepsHandle(o) == [objects EXCEPT ![o].ioMutex = Nobody]

(* An upgrade leaves the raw entry without a handle.                        *)
Released(o) == [objects EXCEPT ![o].handle = 0, ![o].ioMutex = Nobody]

(* The handshake fails: the connection is closed and its id is gone.        *)
HandshakeFails(t) ==
  LET c == caller[t] IN
  /\ c.at = "inside" /\ c.operation = "upgrade"
  /\ closeNativeSocket(objects[c.entry].handle)
  /\ objects' = Released(c.entry)
  /\ openSockets' = Without(openSockets, c.id)
  /\ Answers(t) /\ UNCHANGED <<openTlsSockets, nextSocketId>>

(* It succeeds: the handle moves to a TLS entry under the same id, also     *)
(* when a close has taken the raw entry out of its table meanwhile.         *)
HandshakeDone(t) ==
  LET c == caller[t]
      session == [objects[c.entry] EXCEPT !.ioMutex = Nobody]
  IN /\ c.at = "inside" /\ c.operation = "upgrade" /\ Len(objects) < MaxObjects
     /\ objects' = Append(Released(c.entry), session)
     /\ openSockets' = Without(openSockets, c.id)
     /\ openTlsSockets' = With(openTlsSockets, c.id, Len(objects) + 1)
     /\ Answers(t) /\ UNCHANGED <<kernel, nextSocketId>>

Next == \E t \in Threads :
  \/ socketOpen(t) \/ TryAddress(t) \/ GiveUp(t) \/ connectWithTimeout(t)
  \/ socketListen(t) \/ Bind(t) \/ Register(t)
  \/ \E id \in Ids : socketAccept(t, id) \/ handleSockets(t, id) \/ socketTlsUpgradeVm(t, id)
  \/ CopyHandle(t) \/ Accept(t) \/ Enter(t) \/ Used(t) \/ HandshakeFails(t) \/ HandshakeDone(t)

Spec == Init /\ [][Next]_vars

-----------------------------------------------------------------------------

Named == DOMAIN openSockets \cup DOMAIN openTlsSockets
EntryOf(id) == IF id \in DOMAIN openSockets THEN openSockets[id] ELSE openTlsSockets[id]
HandleOf(id) == objects[EntryOf(id)].handle

(* The calls whose handle nobody else knows yet.                            *)
Private(t) == caller[t].at \in {"connecting", "binding", "register"}
Holds(t) == caller[t].at \in {"waiting", "inside"}

Calls == [at : {"idle", "next address", "connecting", "binding", "register", "waiting",
                "accepting", "inside"},
          operation : Operations \cup {"none"}, id : Nat, entry : Nat,
          fd : NativeHandles \cup {0}, left : 0 .. MaxAddresses, err : BOOLEAN]

(* The types of all variables; ids were given out and entries exist.        *)
TypeOK ==
  /\ DOMAIN kernel \subseteq NativeHandles /\ \A h \in DOMAIN kernel : kernel[h] \in Kinds
  /\ objects \in Seq(Objects) /\ Len(objects) <= MaxObjects
  /\ nextSocketId \in Nat \ {0}
  /\ \A table \in {openSockets, openTlsSockets} : \A id \in DOMAIN table :
       id \in 1 .. nextSocketId - 1 /\ table[id] \in 1 .. Len(objects)
  /\ caller \in [Threads -> Calls]
  /\ \A t \in Threads : Holds(t) =>
       caller[t].entry \in 1 .. Len(objects) /\ caller[t].id \in 1 .. nextSocketId - 1

(* Each open handle has one owner, an entry or a call that has not put it   *)
(* in an entry yet, and the handle of an owner is open: no handle leaks and *)
(* none is closed twice, whatever opens, closes and upgrades meet.          *)
HandlesOwnedOnce ==
  /\ \A h \in DOMAIN kernel : \/ \E o \in 1 .. Len(objects) : objects[o].handle = h
                              \/ \E t \in Threads : Private(t) /\ caller[t].fd = h
  /\ \A o \in 1 .. Len(objects) : objects[o].handle # 0 =>
       /\ objects[o].handle \in DOMAIN kernel
       /\ \A p \in 1 .. Len(objects) : objects[p].handle = objects[o].handle => p = o
       /\ \A t \in Threads : Private(t) => caller[t].fd # objects[o].handle
  /\ \A t \in Threads : Private(t) =>
       /\ caller[t].fd \in DOMAIN kernel
       /\ \A u \in Threads : Private(u) /\ caller[u].fd = caller[t].fd => u = t

(* An entry that has a handle can be named by an id, or a close has taken   *)
(* it out of its table and waits for it; a named entry always has one.      *)
EntriesReachable ==
  /\ \A o \in 1 .. Len(objects) : objects[o].handle # 0 =>
       \/ \E id \in Named : EntryOf(id) = o
       \/ \E t \in Threads : /\ caller[t].at = "waiting" /\ caller[t].operation = "close"
                             /\ caller[t].entry = o
  /\ \A id \in Named : HandleOf(id) # 0

(* A call that sends, receives or shakes hands is alone with its entry, and *)
(* the handle it uses is not closed or moved under it.                      *)
Exclusive ==
  \A t \in Threads : caller[t].at = "inside" =>
     /\ objects[caller[t].entry].ioMutex = t /\ objects[caller[t].entry].handle # 0

(* An id names one connection for ever: it may lose it, and get it back     *)
(* only from an upgrade of that connection that is under way.               *)
IdKeepsConnection ==
  [][\A id \in 1 .. nextSocketId - 1 : id \in Named' =>
       \/ id \in Named /\ HandleOf(id)' = HandleOf(id)
       \/ \E t \in Threads : /\ caller[t].at = "inside" /\ caller[t].operation = "upgrade"
                             /\ caller[t].id = id
                             /\ HandleOf(id)' = objects[caller[t].entry].handle]_vars
=============================================================================
