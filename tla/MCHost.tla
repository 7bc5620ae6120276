------------------------------- MODULE MCHost -------------------------------
(***************************************************************************)
(* What a process of the system owns and must give back: the modules a VM   *)
(* initialises, the handles and children of its resource tables, the socket *)
(* of one connection attempt, the socket table of the Windows build and one *)
(* of its TLS sessions, the language servers of the editor extension.  They *)
(* run in different processes or share nothing: a behaviour moves one part  *)
(* and leaves the others in their initial state.                            *)
(***************************************************************************)
EXTENDS ModuleInit

CONSTANTS VMs, Handles, Pids, MaxToken, MaxMade, FailingInserts, CloseKeepsToken,
          Timeout, LastTick,
          Documents, Restarters, Askers, MaxServers, MaxVersion, MaxEvents, LateFiles,
          Threads, NativeHandles, MaxAddresses, MaxObjects,
          MaxBytes, MaxRecords, MaxPieces, Maximum, cbMaximumMessage,
          Processes   \* the parts to explore

ASSUME HostAssumption ==
  /\ Handles \subseteq Nat \ {0} /\ Pids \subseteq Nat \ {0}
  /\ MaxToken \in Nat /\ MaxMade \in Nat
  /\ Timeout \in Nat /\ LastTick \in Nat
  /\ NativeHandles \subseteq Nat \ {0} /\ 0 \notin Threads
  /\ MaxAddresses \in Nat /\ MaxObjects \in Nat
  /\ MaxBytes \in Nat /\ MaxRecords \in Nat /\ MaxPieces \in Nat \ {0}
  /\ Maximum \in Nat \ {0} /\ cbMaximumMessage \in Nat \ {0}

VARIABLES part,
          os, children, ended, table, issued, nextToken, made,
          step, fd, blocking, timed, now, deadline, wake, peer, answer,
          kernel, objects, openSockets, openTlsSockets, nextSocketId, caller,
          said, network, sent, records, stage, input, encrypted, decrypted, delivered, result,
          total, written, wrote, torn,
          languageServer, languageServerStarting, server, restart, ask, open, build,
          setting, watch, activated, events

resourceVars == <<os, children, ended, table, issued, nextToken, made>>
socketVars == <<step, fd, blocking, timed, now, deadline, wake, peer, answer>>
nativeVars == <<kernel, objects, openSockets, openTlsSockets, nextSocketId, caller>>
streamVars == <<said, network, sent, records, stage, input, encrypted, decrypted, delivered,
                result, total, written, wrote, torn>>
editorVars == <<languageServer, languageServerStarting, server, restart, ask, open, build,
                setting, watch, activated, events>>
hostVars == <<part, allVars, resourceVars, socketVars, nativeVars, streamVars, editorVars>>

Resources == INSTANCE MachineResources
Socket == INSTANCE SocketConnect WITH at <- step
Native == INSTANCE NativeSockets
Stream == INSTANCE TlsStream
Editor == INSTANCE EditorClient WITH active <- activated

HostInit == /\ part \in Processes
            /\ Init /\ Resources!Init /\ Socket!Init
            /\ Native!Init /\ Stream!Init /\ Editor!Init

InitModules == /\ part = "modules" /\ Next
               /\ UNCHANGED <<part, resourceVars, socketVars, nativeVars, streamVars, editorVars>>
UseResources == /\ part = "resources" /\ Resources!Next
                /\ UNCHANGED <<part, allVars, socketVars, nativeVars, streamVars, editorVars>>
Others == <<part, allVars, resourceVars, nativeVars, streamVars, editorVars>>
Connect == part = "socket" /\ Socket!Call /\ UNCHANGED Others
Tick == part = "socket" /\ Socket!Tick /\ UNCHANGED Others
Surroundings == /\ part = "socket" /\ UNCHANGED Others
                /\ Socket!PollFails \/ Socket!Interrupted \/ Socket!Answer
UseNative == /\ part = "native" /\ Native!Next
             /\ UNCHANGED <<part, allVars, resourceVars, socketVars, streamVars, editorVars>>
UseStream == /\ part = "stream" /\ Stream!Next
             /\ UNCHANGED <<part, allVars, resourceVars, socketVars, nativeVars, editorVars>>
RunEditor == /\ part = "editor" /\ Editor!Next
             /\ UNCHANGED <<part, allVars, resourceVars, socketVars, nativeVars, streamVars>>

HostNext == \/ InitModules \/ UseResources \/ Connect \/ Tick \/ Surroundings
            \/ UseNative \/ UseStream \/ RunEditor

(* The caller of connect runs, and signals do not stop the clock.           *)
HostSpec == HostInit /\ [][HostNext]_hostVars /\ WF_hostVars(Connect) /\ SF_hostVars(Tick)

-----------------------------------------------------------------------------

(* The types of all variables.                                              *)
TypesOK == /\ part = "modules" => TypeOK
           /\ part = "resources" => Resources!TypeOK
           /\ part = "native" => Native!TypeOK
           /\ part = "stream" => Stream!TypeOK
           /\ part = "editor" => Editor!TypeOK

(* Each open handle and child belongs to an entry that a reset walks.       *)
NothingLeaks == part = "resources" => Resources!NothingLeaks

(* The handles and the process an entry names are its own, and never those  *)
(* of somebody the system gave the same numbers to later.                   *)
NothingDangles == part = "resources" => Resources!NothingDangles

(* A token that was given out names one resource for ever.                  *)
TokensNameOneResource == Resources!TokensNameOneResource

(* connect gives a connected, blocking, timed descriptor or leaves none.    *)
AllOrNothing == part = "socket" => Socket!AllOrNothing

(* The wait for a connection ends in time however often it is interrupted.  *)
DeadlineKept == part = "socket" => Socket!DeadlineKept

(* An attempt ends although nobody answers and signals keep coming.         *)
Returns == part = "socket" => Socket!Returns

(* Each open handle of the Windows build has one owner.                     *)
HandlesOwnedOnce == part = "native" => Native!HandlesOwnedOnce

(* An entry with a handle has an id, or a close that waits for it.          *)
EntriesReachable == part = "native" => Native!EntriesReachable

(* A call that sends or shakes hands is alone with its entry.               *)
Exclusive == part = "native" => Native!Exclusive

(* An id names one connection for ever.                                     *)
IdKeepsConnection == Native!IdKeepsConnection

(* Of the text of a TLS peer nothing is lost, repeated or swapped.          *)
NothingLost == part = "stream" => Stream!NothingLost

(* Reads tell the end only after the whole text was given.                  *)
EndIsTheEnd == part = "stream" => Stream!EndIsTheEnd

(* The peer gets what writes have answered for.                             *)
SentWhole == part = "stream" => Stream!SentWhole

(* The language server in use knows every open document as it is now.       *)
InSync == part = "editor" => Editor!InSync

(* The extension never speaks to a server that is disposed or not ready.    *)
Addressable == part = "editor" => Editor!Addressable

(* A server process that runs is in use, being started or being stopped.    *)
NoOrphan == part = "editor" => Editor!NoOrphan

(* With no restart owed the server runs the settings and build in force.    *)
CurrentAtRest == part = "editor" => Editor!CurrentAtRest

(* No request waits on a server that is gone.                               *)
NoRequestOnDeadServer == part = "editor" => Editor!NoRequestOnDeadServer

(* Whoever waits for a start or a stop waits for one that can still end.    *)
WaitsEnd == part = "editor" => Editor!WaitsEnd

(* A restart of the language server that ends leaves one in use or starting,*)
(* unless the one it was stopping died meanwhile.                           *)
RestartsServe == Editor!RestartsServe

(* Handles and children belong to one entry each, from open to close.       *)
HandlesOwned == [](NothingLeaks /\ NothingDangles) /\ TokensNameOneResource

(* Sockets shared by threads: one owner each, one call at a time, one id    *)
(* for each connection.                                                     *)
SocketsShared == [](HandlesOwnedOnce /\ EntriesReachable /\ Exclusive) /\ IdKeepsConnection

(* What a TLS session carries arrives whole and in order, both ways.        *)
StreamIntact == NothingLost /\ EndIsTheEnd /\ SentWhole

(* An attempt to connect ends in time, with all or with nothing.            *)
ConnectsInTime == [](AllOrNothing /\ DeadlineKept) /\ Returns

(* The server in use knows what the editor shows and runs what is on disk,  *)
(* nobody waits for a dead one, and a restart that ends has led to a server *)
(* unless the old one died under it.                                        *)
ServersFollowEditor ==
  /\ [](/\ InSync /\ Addressable /\ NoOrphan
        /\ CurrentAtRest /\ NoRequestOnDeadServer /\ WaitsEnd)
  /\ RestartsServe
=============================================================================
