----------------------------- MODULE HostProofs -----------------------------
(***************************************************************************)
(* Theorems about the parts of MCHost for all constants: any number of      *)
(* handles, children, tables and documents, any limit of the tokens.        *)
(***************************************************************************)
EXTENDS MCHost, ModuleInitProofs, NativeProofs

-----------------------------------------------------------------------------
(* Each step of the host is a step of one part and leaves the others alone. *)

LEMMA ResourceSteps == HostSpec => Resources!Spec
<1>1. HostInit => Resources!Init
  BY DEF HostInit
<1>2. [HostNext]_hostVars => [Resources!Next]_(Resources!vars)
  BY DEF HostNext, hostVars, Others, InitModules, UseResources, Connect, Tick, Surroundings,
         UseNative, UseStream, RunEditor, resourceVars, Resources!vars
<1> QED
  BY <1>1, <1>2, PTL DEF HostSpec, Resources!Spec

LEMMA SocketSteps == HostSpec => Socket!Init /\ [][Socket!Next]_(Socket!vars)
<1>1. HostInit => Socket!Init
  BY DEF HostInit
<1>2. [HostNext]_hostVars => [Socket!Next]_(Socket!vars)
  BY DEF HostNext, hostVars, Others, InitModules, UseResources, Connect, Tick, Surroundings,
         UseNative, UseStream, RunEditor, socketVars, Socket!vars, Socket!Next
<1> QED
  BY <1>1, <1>2, PTL DEF HostSpec

LEMMA EditorSteps == HostSpec => Editor!Spec
<1>1. HostInit => Editor!Init
  BY DEF HostInit
<1>2. [HostNext]_hostVars => [Editor!Next]_(Editor!vars)
  BY DEF HostNext, hostVars, Others, InitModules, UseResources, Connect, Tick, Surroundings,
         UseNative, UseStream, RunEditor, editorVars, Editor!vars
<1> QED
  BY <1>1, <1>2, PTL DEF HostSpec, Editor!Spec

-----------------------------------------------------------------------------
(* SocketConnect.                                                           *)

Waiting == {"loop", "poll", "pending", "restore", "timeouts", "returned"}

(* The clock stands until there is a deadline, and a poll never waits past  *)
(* it; what has been done of the connection is where the caller is.         *)
SInv ==
  /\ now \in Nat /\ deadline \in Nat /\ wake \in Nat
  /\ step \in {"socket", "nonblock", "connect", "start"} \union Waiting
  /\ step \notin Waiting => now = 0
  /\ deadline <= Timeout /\ wake <= deadline /\ now <= Timeout
  /\ step = "poll" => wake = deadline
  /\ step \in {"restore", "timeouts"} => peer = "accepted"
  /\ step = "timeouts" => blocking
  /\ step \notin {"socket", "returned"} => fd = "open"
  /\ step = "socket" => fd = "none"
  /\ Socket!AllOrNothing

LEMMA SocketBegins ==
  ASSUME Socket!Init
  PROVE  SInv
BY HostAssumption DEF SInv, Socket!Init, Socket!AllOrNothing

(* The calls before there is a deadline.                                    *)
LEMMA SocketOpens ==
  ASSUME SInv, Socket!Open \/ Socket!NonBlock \/ Socket!Connect \/ Socket!Start
  PROVE  SInv'
<1> USE DEF SInv, Waiting, Socket!AllOrNothing, Socket!Goto, Socket!Abort
<1>1. CASE Socket!Open
  BY <1>1 DEF Socket!Open
<1>2. CASE Socket!NonBlock
  BY <1>2 DEF Socket!NonBlock
<1>3. CASE Socket!Connect
  BY <1>3 DEF Socket!Connect
<1>4. CASE Socket!Start
  BY <1>4, HostAssumption DEF Socket!Start
<1> QED
  BY <1>1, <1>2, <1>3, <1>4

(* The loop around poll: whatever is left of the time is what it waits.     *)
LEMMA SocketWaits ==
  ASSUME SInv,
         \/ Socket!Loop \/ Socket!Poll \/ Socket!PollFails \/ Socket!Interrupted
         \/ Socket!Tick \/ Socket!Answer
  PROVE  SInv'
<1> USE DEF SInv, Waiting, Socket!AllOrNothing, Socket!Goto, Socket!Abort
<1>1. CASE Socket!Loop
  <2>1. ~(Socket!Left = 0) => now + Socket!Left = deadline
    BY DEF Socket!Left
  <2> QED
    BY <1>1, <2>1 DEF Socket!Loop
<1>2. CASE Socket!Poll \/ Socket!PollFails \/ Socket!Interrupted
  BY <1>2 DEF Socket!Poll, Socket!PollFails, Socket!Interrupted
<1>3. CASE Socket!Tick
  BY <1>3, HostAssumption DEF Socket!Tick
<1>4. CASE Socket!Answer
  BY <1>4 DEF Socket!Answer
<1> QED
  BY <1>1, <1>2, <1>3, <1>4

(* The calls after the connection was made.                                 *)
LEMMA SocketEnds ==
  ASSUME SInv, Socket!CheckPending \/ Socket!Restore \/ Socket!SetTimeouts
  PROVE  SInv'
<1> USE DEF SInv, Waiting, Socket!AllOrNothing, Socket!Goto, Socket!Abort
<1>1. CASE Socket!CheckPending
  BY <1>1 DEF Socket!CheckPending, Socket!PendingError
<1>2. CASE Socket!Restore
  BY <1>2 DEF Socket!Restore
<1>3. CASE Socket!SetTimeouts
  BY <1>3 DEF Socket!SetTimeouts
<1> QED
  BY <1>1, <1>2, <1>3

(* For every time limit and however often a signal interrupts the wait:     *)
(* connect hands out a connected, blocking, timed descriptor or leaves none *)
(* open, and never waits past its deadline.                                 *)
THEOREM ConnectsSafely == HostSpec => [](AllOrNothing /\ DeadlineKept)
<1>1. SInv /\ [Socket!Next]_(Socket!vars) => SInv'
  <2>1. ASSUME SInv, UNCHANGED Socket!vars
        PROVE  SInv'
    BY <2>1 DEF SInv, Socket!AllOrNothing, Socket!vars
  <2> QED
    BY <2>1, SocketOpens, SocketWaits, SocketEnds DEF Socket!Next, Socket!Call
<1>2. SInv => AllOrNothing /\ DeadlineKept
  BY DEF SInv, AllOrNothing, DeadlineKept, Socket!DeadlineKept
<1> QED
  BY <1>1, <1>2, SocketBegins, SocketSteps, PTL

-----------------------------------------------------------------------------
(* MachineResources.                                                        *)

Tokens == Resources!Families \X Nat

EntrySet ==
  [token : Tokens, id : Nat \ {0}, kind : Resources!Kinds,
   first : Handles \union {0}, second : Handles \union {0}, pid : Pids \union {0},
   started : BOOLEAN, listener : BOOLEAN, tls : BOOLEAN]

(* Only a process has a second handle and a child, and only once started.   *)
Shaped(entry) ==
  /\ entry.first = entry.second => entry.first = 0
  /\ entry.kind # "process" => entry.second = 0 /\ entry.pid = 0
  /\ entry.kind = "process" /\ ~entry.started =>
       entry.first = 0 /\ entry.second = 0 /\ entry.pid = 0

RTyped ==
  /\ os \in [Handles -> Nat] /\ children \in [Pids -> Nat]
  /\ table \in [VMs -> SUBSET EntrySet]
  /\ nextToken \in [Resources!Families -> Nat] /\ made \in Nat
  /\ \A vm \in VMs : \A entry \in table[vm] : Shaped(entry)

(* A resource has one entry, in one table, and a number of its own.         *)
Apart ==
  /\ \A vm \in VMs : \A entry \in table[vm] : entry.id <= made
  /\ \A vm1, vm2 \in VMs : \A entry1 \in table[vm1], entry2 \in table[vm2] :
       entry1.id = entry2.id => vm1 = vm2 /\ entry1 = entry2

(* An entry names exactly the handles and the child that are its own.       *)
Owned ==
  \A vm \in VMs : \A entry \in table[vm] :
    /\ \A handle \in Handles : handle \in Resources!HandlesOf(entry) <=> os[handle] = entry.id
    /\ \A pid \in Pids : entry.pid = pid <=> children[pid] = entry.id

(* What is taken from the system is taken by an entry.                      *)
Accounted ==
  /\ \A handle \in Handles : os[handle] # 0 =>
       \E vm \in VMs : \E entry \in table[vm] : entry.id = os[handle]
  /\ \A pid \in Pids : children[pid] # 0 =>
       \E vm \in VMs : \E entry \in table[vm] : entry.id = children[pid]

(* The tokens given out lie below the counter.                              *)
TokensBelow ==
  \A token \in DOMAIN issued :
    token \in Tokens /\ token[2] < nextToken[token[1]]

RInv == RTyped /\ Apart /\ Owned /\ Accounted /\ TokensBelow

LEMMA ResourcesBegin ==
  ASSUME Resources!Init
  PROVE  RInv
<1> USE DEF Resources!Init, Resources!None
<1>1. RTyped
  BY DEF RTyped, Resources!Families
<1>2. Apart /\ Owned /\ Accounted /\ TokensBelow
  BY DEF Apart, Owned, Accounted, TokensBelow
<1> QED
  BY <1>1, <1>2 DEF RInv

(* Numbers of handles and processes are not 0.                              *)
LEMMA NumbersPositive == 0 \notin Handles /\ 0 \notin Pids
BY HostAssumption

LEMMA HandlesOfTyped ==
  ASSUME NEW entry \in EntrySet
  PROVE  /\ Resources!HandlesOf(entry) \subseteq Handles
         /\ \A handle \in Handles :
              handle \in Resources!HandlesOf(entry) <=> handle \in {entry.first, entry.second}
BY NumbersPositive DEF EntrySet, Resources!HandlesOf, Resources!None

-----------------------------------------------------------------------------
(* What a step does to the tables: an entry comes, changes or goes, and     *)
(* what it owned changes with it.                                           *)

(* A new entry that owns the free handles it names.                         *)
LEMMA EntryComes ==
  ASSUME RTyped, Apart, Owned, Accounted,
         NEW vm \in VMs, NEW entry \in EntrySet, Shaped(entry),
         entry.id = made + 1, entry.pid = 0,
         \A handle \in Resources!HandlesOf(entry) : os[handle] = 0,
         table' = [table EXCEPT ![vm] = @ \union {entry}],
         os' = [handle \in Handles |-> IF handle \in Resources!HandlesOf(entry) THEN made + 1
                                                                              ELSE os[handle]],
         made' = made + 1,
         \/ UNCHANGED <<children, nextToken>>
         \/ UNCHANGED children /\ nextToken' \in [Resources!Families -> Nat]
  PROVE  RTyped' /\ Apart' /\ Owned' /\ Accounted'
<1>1. /\ made \in Nat /\ table \in [VMs -> SUBSET EntrySet]
      /\ os \in [Handles -> Nat] /\ children \in [Pids -> Nat]
  BY DEF RTyped
<1>2. /\ table'[vm] = table[vm] \union {entry}
      /\ \A other \in VMs \ {vm} : table'[other] = table[other]
      /\ table' \in [VMs -> SUBSET EntrySet]
  BY <1>1
<1>3. \A other \in VMs : \A old \in table'[other] :
        (old = entry /\ other = vm) \/ (old \in table[other] /\ old.id <= made)
  <2>1. \A other \in VMs : \A old \in table[other] : old.id <= made
    BY DEF Apart
  <2> QED
    BY <1>2, <2>1
<1>4. RTyped'
  BY <1>1, <1>2, <1>3 DEF RTyped
<1>5. Apart'
  <2>1. \A other \in VMs : \A old \in table[other] : old.id \in Nat
    BY <1>1 DEF EntrySet
  <2>2. \A other \in VMs : \A old \in table'[other] : old.id <= made'
    BY <1>1, <1>3, <2>1
  <2>3. ASSUME NEW vm1 \in VMs, NEW vm2 \in VMs, NEW entry1 \in table'[vm1],
               NEW entry2 \in table'[vm2], entry1.id = entry2.id
        PROVE  vm1 = vm2 /\ entry1 = entry2
    BY <1>1, <1>3, <2>1, <2>3 DEF Apart
  <2> QED
    BY <2>2, <2>3 DEF Apart
<1>6. Owned'
  <2>1. ASSUME NEW other \in VMs, NEW old \in table'[other]
        PROVE  /\ \A handle \in Handles :
                    handle \in Resources!HandlesOf(old) <=> os'[handle] = old.id
               /\ \A pid \in Pids : old.pid = pid <=> children'[pid] = old.id
    <3>1. CASE old = entry
      <4>1. ASSUME NEW handle \in Handles, os[handle] = made + 1
            PROVE  FALSE
        BY <1>1, <4>1 DEF Accounted, Apart
      <4>2. ASSUME NEW pid \in Pids, children[pid] = made + 1
            PROVE  FALSE
        BY <1>1, <4>2 DEF Accounted, Apart
      <4> QED
        BY <3>1, <4>1, <4>2, NumbersPositive
    <3>2. CASE old \in table[other] /\ old.id <= made
      <4>1. old.id \in Nat \ {0} /\ old.id # made + 1
        BY <1>1, <3>2 DEF EntrySet
      <4>2. ASSUME NEW handle \in Handles
            PROVE  handle \in Resources!HandlesOf(old) <=> os'[handle] = old.id
        BY <3>2, <4>1 DEF Owned
      <4>3. ASSUME NEW pid \in Pids
            PROVE  old.pid = pid <=> children'[pid] = old.id
        BY <3>2 DEF Owned
      <4> QED
        BY <4>2, <4>3
    <3> QED
      BY <1>3, <3>1, <3>2
  <2> QED
    BY <2>1 DEF Owned
<1>7. Accounted'
  <2>1. ASSUME NEW handle \in Handles, os'[handle] # 0
        PROVE  \E other \in VMs : \E old \in table'[other] : old.id = os'[handle]
    <3>1. CASE handle \in Resources!HandlesOf(entry)
      BY <1>2, <3>1
    <3>2. CASE handle \notin Resources!HandlesOf(entry)
      <4>1. PICK other \in VMs : \E old \in table[other] : old.id = os[handle]
        BY <2>1, <3>2 DEF Accounted
      <4> QED
        BY <1>2, <3>2, <4>1
    <3> QED
      BY <3>1, <3>2
  <2>2. ASSUME NEW pid \in Pids, children'[pid] # 0
        PROVE  \E other \in VMs : \E old \in table'[other] : old.id = children'[pid]
    <3>1. PICK other \in VMs : \E old \in table[other] : old.id = children[pid]
      BY <2>2 DEF Accounted
    <3> QED
      BY <1>2, <3>1
  <2> QED
    BY <2>1, <2>2 DEF Accounted
<1> QED
  BY <1>4, <1>5, <1>6, <1>7

(* An entry that goes takes what it owned with it.                          *)
LEMMA EntryGoes ==
  ASSUME RTyped, Apart, Owned, Accounted,
         NEW vm \in VMs, NEW entry \in table[vm],
         table' = Resources!Without(vm, entry),
         os' = Resources!Released(Resources!HandlesOf(entry)),
         children' = Resources!Reaped({entry.pid}),
         UNCHANGED <<nextToken, made>>
  PROVE  RTyped' /\ Apart' /\ Owned' /\ Accounted'
<1>1. /\ made \in Nat /\ table \in [VMs -> SUBSET EntrySet]
      /\ os \in [Handles -> Nat] /\ children \in [Pids -> Nat]
  BY DEF RTyped
<1>2. /\ table'[vm] = table[vm] \ {entry}
      /\ \A other \in VMs \ {vm} : table'[other] = table[other]
      /\ table' \in [VMs -> SUBSET EntrySet]
  BY <1>1 DEF Resources!Without
<1>3. \A other \in VMs : \A old \in table'[other] : old \in table[other] /\ old.id # entry.id
  BY <1>2 DEF Apart
<1>4. /\ os' \in [Handles -> Nat] /\ children' \in [Pids -> Nat]
      /\ \A handle \in Handles : os'[handle] = IF os[handle] = entry.id THEN 0 ELSE os[handle]
      /\ \A pid \in Pids : children'[pid] = IF children[pid] = entry.id THEN 0 ELSE children[pid]
  BY <1>1 DEF Owned, Resources!Released, Resources!Reaped, Resources!None
<1>5. RTyped'
  BY <1>1, <1>2, <1>3, <1>4 DEF RTyped
<1>6. Apart'
  BY <1>3 DEF Apart
<1>7. Owned'
  <2>1. \A other \in VMs : \A old \in table[other] : old.id # 0
    BY <1>1 DEF EntrySet
  <2>2. ASSUME NEW other \in VMs, NEW old \in table'[other]
        PROVE  /\ \A handle \in Handles :
                    handle \in Resources!HandlesOf(old) <=> os'[handle] = old.id
               /\ \A pid \in Pids : old.pid = pid <=> children'[pid] = old.id
    <3>1. old \in table[other] /\ old.id # entry.id /\ old.id # 0
      BY <1>3, <2>1
    <3>2. /\ \A handle \in Handles : handle \in Resources!HandlesOf(old) <=> os[handle] = old.id
          /\ \A pid \in Pids : old.pid = pid <=> children[pid] = old.id
      BY <3>1 DEF Owned
    <3> QED
      BY <3>1, <3>2, <1>4
  <2> QED
    BY <2>2 DEF Owned
<1>8. Accounted'
  <2>1. \A other \in VMs : \A old \in table[other] : old.id # entry.id => old \in table'[other]
    BY <1>2
  <2>2. ASSUME NEW handle \in Handles, os'[handle] # 0
        PROVE  \E other \in VMs : \E old \in table'[other] : old.id = os'[handle]
    BY <1>4, <2>1, <2>2 DEF Accounted
  <2>3. ASSUME NEW pid \in Pids, children'[pid] # 0
        PROVE  \E other \in VMs : \E old \in table'[other] : old.id = children'[pid]
    BY <1>4, <2>1, <2>3 DEF Accounted
  <2> QED
    BY <2>2, <2>3 DEF Accounted
<1> QED
  BY <1>5, <1>6, <1>7, <1>8

(* An entry that changes gives back or takes only what is its own or free.  *)
LEMMA EntryChanges ==
  ASSUME RTyped, Apart, Owned, Accounted,
         NEW vm \in VMs, NEW entry \in table[vm], NEW changed \in EntrySet,
         Shaped(changed), changed.id = entry.id,
         table' = Resources!Replace(vm, entry, changed),
         os' \in [Handles -> Nat], children' \in [Pids -> Nat],
         \A handle \in Handles :
           /\ handle \in Resources!HandlesOf(changed) <=> os'[handle] = entry.id
           /\ os'[handle] # os[handle] =>
                os[handle] \in {0, entry.id} /\ os'[handle] \in {0, entry.id},
         \A pid \in Pids :
           /\ changed.pid = pid <=> children'[pid] = entry.id
           /\ children'[pid] # children[pid] =>
                children[pid] \in {0, entry.id} /\ children'[pid] \in {0, entry.id},
         UNCHANGED <<nextToken, made>>
  PROVE  RTyped' /\ Apart' /\ Owned' /\ Accounted'
<1>1. made \in Nat /\ table \in [VMs -> SUBSET EntrySet]
  BY DEF RTyped
<1>2. /\ table'[vm] = (table[vm] \ {entry}) \union {changed}
      /\ \A other \in VMs \ {vm} : table'[other] = table[other]
      /\ table' \in [VMs -> SUBSET EntrySet]
  BY <1>1 DEF Resources!Replace
<1>3. \A other \in VMs : \A old \in table'[other] :
        (old = changed /\ other = vm) \/ (old \in table[other] /\ old.id # entry.id)
  <2>1. \A other \in VMs : \A old \in table[other] :
          old.id = entry.id => other = vm /\ old = entry
    BY DEF Apart
  <2> QED
    BY <1>2, <2>1
<1>4. RTyped'
  BY <1>1, <1>2, <1>3 DEF RTyped
<1>5. Apart'
  <2>1. \A other \in VMs : \A old \in table'[other] : old.id <= made'
    BY <1>3 DEF Apart
  <2>2. ASSUME NEW vm1 \in VMs, NEW vm2 \in VMs, NEW entry1 \in table'[vm1],
               NEW entry2 \in table'[vm2], entry1.id = entry2.id
        PROVE  vm1 = vm2 /\ entry1 = entry2
    <3>1. CASE entry1.id = entry.id
      BY <1>3, <2>2, <3>1
    <3>2. CASE entry1.id # entry.id
      BY <1>3, <2>2, <3>2 DEF Apart
    <3> QED
      BY <3>1, <3>2
  <2> QED
    BY <2>1, <2>2 DEF Apart
<1>6. Owned'
  <2>1. \A other \in VMs : \A old \in table[other] : old.id # 0
    BY <1>1 DEF EntrySet
  <2>2. ASSUME NEW other \in VMs, NEW old \in table'[other]
        PROVE  /\ \A handle \in Handles :
                    handle \in Resources!HandlesOf(old) <=> os'[handle] = old.id
               /\ \A pid \in Pids : old.pid = pid <=> children'[pid] = old.id
    <3>1. CASE old = changed
      BY <3>1
    <3>2. CASE old \in table[other] /\ old.id # entry.id
      <4>1. /\ \A handle \in Handles : handle \in Resources!HandlesOf(old) <=> os[handle] = old.id
            /\ \A pid \in Pids : old.pid = pid <=> children[pid] = old.id
        BY <3>2 DEF Owned
      <4>2. old.id # 0
        BY <2>1, <3>2
      <4> QED
        BY <3>2, <4>1, <4>2
    <3> QED
      BY <1>3, <3>1, <3>2
  <2> QED
    BY <2>2 DEF Owned
<1>7. Accounted'
  <2>1. \A other \in VMs : \A old \in table[other] : old = entry \/ old \in table'[other]
    BY <1>2
  <2>2. changed \in table'[vm]
    BY <1>2
  <2>3. ASSUME NEW handle \in Handles, os'[handle] # 0
        PROVE  \E other \in VMs : \E old \in table'[other] : old.id = os'[handle]
    <3>1. CASE os'[handle] = entry.id
      BY <2>2, <3>1
    <3>2. CASE os'[handle] # entry.id
      <4>1. os'[handle] = os[handle]
        BY <2>3, <3>2
      <4>2. PICK other \in VMs : \E old \in table[other] : old.id = os[handle]
        BY <2>3, <4>1 DEF Accounted
      <4> QED
        BY <2>1, <3>2, <4>1, <4>2
    <3> QED
      BY <3>1, <3>2
  <2>4. ASSUME NEW pid \in Pids, children'[pid] # 0
        PROVE  \E other \in VMs : \E old \in table'[other] : old.id = children'[pid]
    <3>1. CASE children'[pid] = entry.id
      BY <2>2, <3>1
    <3>2. CASE children'[pid] # entry.id
      <4>1. children'[pid] = children[pid]
        BY <2>4, <3>2
      <4>2. PICK other \in VMs : \E old \in table[other] : old.id = children[pid]
        BY <2>4, <4>1 DEF Accounted
      <4> QED
        BY <2>1, <3>2, <4>1, <4>2
    <3> QED
      BY <3>1, <3>2
  <2> QED
    BY <2>3, <2>4 DEF Accounted
<1> QED
  BY <1>4, <1>5, <1>6, <1>7

(* A reset gives back what the entries of one table own.                    *)
LEMMA TableReset ==
  ASSUME RTyped, Apart, Owned, Accounted, NEW vm \in VMs, Resources!ResetVM(vm)
  PROVE  RTyped' /\ Apart' /\ Owned' /\ Accounted'
<1> DEFINE ids == {entry.id : entry \in table[vm]}
<1>1. /\ made \in Nat /\ table \in [VMs -> SUBSET EntrySet]
      /\ os \in [Handles -> Nat] /\ children \in [Pids -> Nat]
  BY DEF RTyped
<1>2. /\ table'[vm] = {}
      /\ \A other \in VMs \ {vm} : table'[other] = table[other]
      /\ table' \in [VMs -> SUBSET EntrySet]
      /\ UNCHANGED <<nextToken, made>>
  BY <1>1 DEF Resources!ResetVM
<1>3. \A other \in VMs : \A old \in table'[other] : old \in table[other] /\ old.id \notin ids
  BY <1>2 DEF Apart
<1>4. /\ os' \in [Handles -> Nat]
      /\ \A handle \in Handles : os'[handle] = IF os[handle] \in ids THEN 0 ELSE os[handle]
  <2>1. os' = Resources!Released(UNION {Resources!HandlesOf(entry) : entry \in table[vm]})
    BY DEF Resources!ResetVM
  <2>2. \A handle \in Handles :
          handle \in UNION {Resources!HandlesOf(entry) : entry \in table[vm]} <=> os[handle] \in ids
    BY DEF Owned
  <2> HIDE DEF ids
  <2> QED
    BY <1>1, <2>1, <2>2 DEF Resources!Released, Resources!None
<1>5. /\ children' \in [Pids -> Nat]
      /\ \A pid \in Pids : children'[pid] = IF children[pid] \in ids THEN 0 ELSE children[pid]
  <2>1. children' = Resources!Reaped({entry.pid : entry \in table[vm]})
    BY DEF Resources!ResetVM
  <2>2. \A pid \in Pids : pid \in {entry.pid : entry \in table[vm]} <=> children[pid] \in ids
    BY DEF Owned
  <2> HIDE DEF ids
  <2> QED
    BY <1>1, <2>1, <2>2 DEF Resources!Reaped, Resources!None
<1>6. \A other \in VMs : \A old \in table[other] : old.id \notin ids => old \in table'[other]
  BY <1>2
<1> HIDE DEF ids
<1>7. RTyped' /\ Apart'
  BY <1>1, <1>2, <1>3, <1>4, <1>5 DEF RTyped, Apart
<1>8. Owned'
  <2>1. \A other \in VMs : \A old \in table[other] : old.id # 0
    BY <1>1 DEF EntrySet
  <2>2. ASSUME NEW other \in VMs, NEW old \in table'[other]
        PROVE  /\ \A handle \in Handles :
                    handle \in Resources!HandlesOf(old) <=> os'[handle] = old.id
               /\ \A pid \in Pids : old.pid = pid <=> children'[pid] = old.id
    <3>1. old \in table[other] /\ old.id \notin ids /\ old.id # 0
      BY <1>3, <2>1
    <3>2. /\ \A handle \in Handles : handle \in Resources!HandlesOf(old) <=> os[handle] = old.id
          /\ \A pid \in Pids : old.pid = pid <=> children[pid] = old.id
      BY <3>1 DEF Owned
    <3> QED
      BY <3>1, <3>2, <1>4, <1>5
  <2> QED
    BY <2>2 DEF Owned
<1>9. Accounted'
  <2>1. ASSUME NEW handle \in Handles, os'[handle] # 0
        PROVE  \E other \in VMs : \E old \in table'[other] : old.id = os'[handle]
    <3>1. os'[handle] = os[handle] /\ os[handle] \notin ids
      BY <1>4, <2>1
    <3>2. PICK other \in VMs : \E old \in table[other] : old.id = os[handle]
      BY <2>1, <3>1 DEF Accounted
    <3> QED
      BY <1>6, <3>1, <3>2
  <2>2. ASSUME NEW pid \in Pids, children'[pid] # 0
        PROVE  \E other \in VMs : \E old \in table'[other] : old.id = children'[pid]
    <3>1. children'[pid] = children[pid] /\ children[pid] \notin ids
      BY <1>5, <2>2
    <3>2. PICK other \in VMs : \E old \in table[other] : old.id = children[pid]
      BY <2>2, <3>1 DEF Accounted
    <3> QED
      BY <1>6, <3>1, <3>2
  <2> QED
    BY <2>1, <2>2 DEF Accounted
<1> QED
  BY <1>7, <1>8, <1>9

-----------------------------------------------------------------------------
(* Tokens.                                                                  *)

TokensStay == \A token \in DOMAIN issued : issued'[token] = issued[token]

Counting == nextToken \in [Resources!Families -> Nat] /\ TokensBelow

LEMMA CounterGrows ==
  ASSUME Counting, NEW family \in Resources!Families, Resources!TokenTaken(family)
  PROVE  /\ nextToken' \in [Resources!Families -> Nat]
         /\ \A other \in Resources!Families : nextToken[other] <= nextToken'[other]
         /\ ~Resources!Exhausted(family) => nextToken[family] < nextToken'[family]
BY HostAssumption DEF Counting, Resources!TokenTaken, Resources!Exhausted

LEMMA CounterKeepsTokens ==
  ASSUME Counting, nextToken' \in [Resources!Families -> Nat],
         \A other \in Resources!Families : nextToken[other] <= nextToken'[other],
         UNCHANGED issued
  PROVE  Counting' /\ TokensStay
<1>1. ASSUME NEW token \in DOMAIN issued
      PROVE  token \in Tokens /\ token[2] < nextToken'[token[1]]
  <2>1. token \in Tokens /\ token[2] < nextToken[token[1]]
    BY DEF Counting, TokensBelow
  <2>2. token[1] \in Resources!Families /\ token[2] \in Nat
    BY <2>1 DEF Tokens
  <2>3. nextToken[token[1]] \in Nat /\ nextToken'[token[1]] \in Nat
    BY <2>2 DEF Counting
  <2> QED
    BY <2>1, <2>2, <2>3
<1> QED
  BY <1>1 DEF Counting, TokensBelow, TokensStay

(* A token that is given out was not given out before.                      *)
LEMMA NewTokenPublished ==
  ASSUME Counting, NEW vm \in VMs, NEW entry,
         NEW family \in Resources!Families,
         entry.token = Resources!TokenFor(vm, family),
         Resources!Publish(vm, entry),
         Resources!TokenTaken(family), ~Resources!Exhausted(family)
  PROVE  Counting' /\ TokensStay
<1>1. /\ nextToken' \in [Resources!Families -> Nat]
      /\ \A other \in Resources!Families : nextToken[other] <= nextToken'[other]
      /\ nextToken[family] < nextToken'[family]
  BY CounterGrows
<1>2. /\ entry.token = <<family, nextToken[family]>>
      /\ issued' = [token \in DOMAIN issued \union {entry.token} |->
                      IF token = entry.token THEN entry.id ELSE issued[token]]
  BY DEF Resources!TokenFor, Resources!Publish
<1>3. nextToken \in [Resources!Families -> Nat]
  BY DEF Counting
<1>4. ASSUME NEW token \in DOMAIN issued
      PROVE  /\ token \in Tokens /\ token[2] < nextToken[token[1]]
             /\ token[2] < nextToken'[token[1]]
  <2>1. token \in Tokens /\ token[2] < nextToken[token[1]]
    BY DEF Counting, TokensBelow
  <2>2. token[1] \in Resources!Families /\ token[2] \in Nat
    BY <2>1 DEF Tokens
  <2>3. nextToken[token[1]] \in Nat /\ nextToken'[token[1]] \in Nat
    BY <1>1, <1>3, <2>2
  <2> QED
    BY <1>1, <2>1, <2>2, <2>3
<1>5. entry.token \notin DOMAIN issued
  BY <1>2, <1>3, <1>4
<1>6. TokensStay
  BY <1>2, <1>5 DEF TokensStay
<1>7. entry.token \in Tokens /\ entry.token[2] < nextToken'[entry.token[1]]
  BY <1>1, <1>2, <1>3 DEF Tokens
<1>8. DOMAIN issued' = DOMAIN issued \union {entry.token}
  BY <1>2
<1>9. Counting'
  BY <1>1, <1>4, <1>7, <1>8 DEF Counting, TokensBelow
<1> QED
  BY <1>6, <1>9

(* The same for the whole invariant.                                        *)
LEMMA TokenTakenGrows ==
  ASSUME RTyped, NEW family \in Resources!Families, Resources!TokenTaken(family)
  PROVE  /\ nextToken' \in [Resources!Families -> Nat]
         /\ \A other \in Resources!Families : nextToken[other] <= nextToken'[other]
         /\ ~Resources!Exhausted(family) => nextToken[family] < nextToken'[family]
BY HostAssumption DEF RTyped, Resources!TokenTaken, Resources!Exhausted

LEMMA TokensKept ==
  ASSUME RTyped, TokensBelow, nextToken' \in [Resources!Families -> Nat],
         \A other \in Resources!Families : nextToken[other] <= nextToken'[other],
         UNCHANGED issued
  PROVE  TokensBelow' /\ TokensStay
BY CounterKeepsTokens DEF Counting, RTyped

LEMMA TokensPublished ==
  ASSUME RTyped, TokensBelow, NEW vm \in VMs, NEW entry,
         NEW family \in Resources!Families,
         entry.token = Resources!TokenFor(vm, family),
         Resources!Publish(vm, entry),
         Resources!TokenTaken(family), ~Resources!Exhausted(family)
  PROVE  TokensBelow' /\ TokensStay
BY NewTokenPublished DEF Counting, RTyped

(* Every step counts: whatever fails, and whatever an interrupted close     *)
(* leaves behind.                                                           *)
LEMMA StepCounts ==
  ASSUME Counting, Resources!Next
  PROVE  Counting' /\ TokensStay
<1>1. ASSUME NEW vm \in VMs, NEW kind \in Resources!Kinds, NEW listener,
             Resources!Register(vm, kind, listener)
      PROVE  Counting' /\ TokensStay
  <2> DEFINE family == Resources!Family(kind)
  <2>1. /\ family \in Resources!Families /\ Resources!TokenTaken(family)
        /\ \/ UNCHANGED issued
           \/ /\ ~Resources!Exhausted(family)
              /\ \E handle \in Resources!Free :
                   Resources!Publish(vm, Resources!Entry(Resources!TokenFor(vm, family), made + 1,
                                                         kind, handle, listener))
    BY <1>1 DEF Resources!Register, Resources!Family, Resources!Families
  <2> HIDE DEF family
  <2>2. CASE UNCHANGED issued
    BY <2>1, <2>2, CounterGrows, CounterKeepsTokens
  <2>3. ASSUME ~Resources!Exhausted(family), NEW handle \in Resources!Free,
               Resources!Publish(vm, Resources!Entry(Resources!TokenFor(vm, family), made + 1,
                                                     kind, handle, listener))
        PROVE  Counting' /\ TokensStay
    <3>1. Resources!Entry(Resources!TokenFor(vm, family), made + 1, kind, handle, listener).token
            = Resources!TokenFor(vm, family)
      BY DEF Resources!Entry
    <3> QED
      BY <2>1, <2>3, <3>1, NewTokenPublished
  <2> QED
    BY <2>1, <2>2, <2>3
<1>2. ASSUME NEW kind \in {"file", "stream"}, Resources!OpenRefused(kind)
      PROVE  Counting' /\ TokensStay
  <2>1. /\ Resources!Family(kind) \in Resources!Families
        /\ Resources!TokenTaken(Resources!Family(kind)) /\ UNCHANGED issued
    BY <1>2 DEF Resources!OpenRefused, Resources!Family, Resources!Families
  <2> QED
    BY <2>1, CounterGrows, CounterKeepsTokens
<1>3. ASSUME UNCHANGED <<issued, nextToken>>
      PROVE  Counting' /\ TokensStay
  BY <1>3 DEF Counting, TokensBelow, TokensStay
<1>4. ASSUME NEW vm \in VMs, Resources!NewProcess(vm)
      PROVE  Counting' /\ TokensStay
  <2>1. "opaque" \in Resources!Families /\ Resources!TokenTaken("opaque")
    BY <1>4 DEF Resources!NewProcess, Resources!Families
  <2>2. CASE Resources!Exhausted("opaque")
    BY <1>4, <2>1, <2>2, CounterGrows, CounterKeepsTokens DEF Resources!NewProcess
  <2>3. CASE ~Resources!Exhausted("opaque")
    <3> DEFINE entry == Resources!Entry(Resources!TokenFor(vm, "opaque"), made + 1, "process",
                                        Resources!None, FALSE)
    <3>1. Resources!Publish(vm, entry) /\ entry.token = Resources!TokenFor(vm, "opaque")
      BY <1>4, <2>3 DEF Resources!NewProcess, Resources!Entry
    <3> HIDE DEF entry
    <3> QED
      BY <2>1, <2>3, <3>1, NewTokenPublished
  <2> QED
    BY <2>2, <2>3
<1>5. ASSUME NEW vm \in VMs, NEW token, Resources!Accept(vm, token)
      PROVE  Counting' /\ TokensStay
  BY <1>1, <1>3, <1>5 DEF Resources!Accept, Resources!Kinds
<1>6. ASSUME NEW vm \in VMs,
             \/ Resources!OpenFile(vm) \/ Resources!OpenDirectory(vm) \/ Resources!OpenStream(vm)
             \/ Resources!OpenResolver(vm) \/ Resources!ConnectSocket(vm)
             \/ Resources!ListenSocket(vm)
      PROVE  Counting' /\ TokensStay
  BY <1>1, <1>2, <1>6 DEF Resources!OpenFile, Resources!OpenDirectory, Resources!OpenStream,
     Resources!OpenResolver, Resources!ConnectSocket, Resources!ListenSocket, Resources!Kinds
<1>7. ASSUME NEW vm \in VMs, NEW token,
             \/ Resources!CloseSimple(vm, token) \/ Resources!CloseSocket(vm, token)
             \/ Resources!CloseSocketForeign(vm, token) \/ Resources!UpgradeTls(vm, token)
             \/ Resources!StartProcess(vm, token) \/ Resources!ReadEnd(vm, token)
             \/ Resources!WaitProcess(vm, token) \/ Resources!CloseProcess(vm, token)
      PROVE  UNCHANGED <<issued, nextToken>>
  <2>1. Resources!CloseSimple(vm, token) => UNCHANGED <<issued, nextToken>>
    BY Zenon DEF Resources!CloseSimple
  <2>2. Resources!CloseSocket(vm, token) => UNCHANGED <<issued, nextToken>>
    BY Zenon DEF Resources!CloseSocket
  <2>3. Resources!CloseSocketForeign(vm, token) => UNCHANGED <<issued, nextToken>>
    BY Zenon DEF Resources!CloseSocketForeign
  <2>4. Resources!UpgradeTls(vm, token) => UNCHANGED <<issued, nextToken>>
    BY Zenon DEF Resources!UpgradeTls
  <2>5. Resources!StartProcess(vm, token) => UNCHANGED <<issued, nextToken>>
    BY Zenon DEF Resources!StartProcess
  <2>6. Resources!ReadEnd(vm, token) => UNCHANGED <<issued, nextToken>>
    BY Zenon DEF Resources!ReadEnd
  <2>7. Resources!WaitProcess(vm, token) => UNCHANGED <<issued, nextToken>>
    BY Zenon DEF Resources!WaitProcess
  <2>8. Resources!CloseProcess(vm, token) => UNCHANGED <<issued, nextToken>>
    BY Zenon DEF Resources!CloseProcess
  <2> QED
    BY <1>7, <2>1, <2>2, <2>3, <2>4, <2>5, <2>6, <2>7, <2>8
<1>8. ASSUME NEW vm \in VMs, Resources!ResetVM(vm)
      PROVE  UNCHANGED <<issued, nextToken>>
  BY <1>8 DEF Resources!ResetVM
<1>9. ASSUME NEW pid \in Pids, Resources!Exit(pid)
      PROVE  UNCHANGED <<issued, nextToken>>
  BY <1>9 DEF Resources!Exit
<1> QED
  BY <1>3, <1>4, <1>5, <1>6, <1>7, <1>8, <1>9 DEF Resources!Next

(* The programs of all VMs: a token that was given out names one resource   *)
(* for ever, although tables, handles and process numbers are reused,       *)
(* inserts throw and closes are interrupted.                                *)
THEOREM TokensNameOneResourceAlways == HostSpec => TokensNameOneResource
<1>1. Resources!Init => Counting
  BY HostAssumption DEF Resources!Init, Counting, TokensBelow
<1>2. Counting /\ [Resources!Next]_(Resources!vars) => Counting'
  BY StepCounts DEF Resources!vars, Counting, TokensBelow
<1>3. Counting /\ [Resources!Next]_(Resources!vars) => [TokensStay]_(Resources!vars)
  BY StepCounts
<1>4. HostSpec => []Counting
  BY <1>1, <1>2, ResourceSteps, PTL DEF Resources!Spec
<1>5. HostSpec => [][TokensStay]_(Resources!vars)
  BY <1>3, <1>4, ResourceSteps, PTL DEF Resources!Spec
<1> QED
  BY <1>5 DEF TokensNameOneResource, Resources!TokensNameOneResource, TokensStay

-----------------------------------------------------------------------------
(* The actions.                                                             *)

LEMMA RegisterKeeps ==
  ASSUME RInv, "stream" \notin FailingInserts, NEW vm \in VMs,
         NEW kind \in Resources!Kinds \ {"process"}, NEW listener \in BOOLEAN,
         Resources!Register(vm, kind, listener)
  PROVE  RInv' /\ TokensStay
<1> DEFINE family == Resources!Family(kind)
<1>1. family \in Resources!Families /\ Resources!TokenTaken(family) /\ UNCHANGED children
  BY DEF Resources!Register, Resources!Family, Resources!Families
<1>2. /\ nextToken' \in [Resources!Families -> Nat]
      /\ \A other \in Resources!Families : nextToken[other] <= nextToken'[other]
  BY <1>1, TokenTakenGrows DEF RInv
<1>3. PICK handle \in Resources!Free :
        \/ /\ ~Resources!Exhausted(family)
           /\ Resources!Publish(vm, Resources!Entry(Resources!TokenFor(vm, family), made + 1,
                                                    kind, handle, listener))
           /\ os' = Resources!Grant(made + 1, handle) /\ made' = made + 1
        \/ UNCHANGED <<table, issued, os, made>>
        \/ /\ kind \in FailingInserts
           /\ os' = IF Resources!Guarded(kind) THEN os ELSE Resources!Grant(made + 1, handle)
           /\ made' = made + 1
           /\ UNCHANGED <<table, issued>>
  BY DEF Resources!Register
<1>4. handle \in Handles /\ os[handle] = 0 /\ made \in Nat
  BY DEF Resources!Free, Resources!None, RInv, RTyped
<1> HIDE DEF family
<1>5. CASE /\ ~Resources!Exhausted(family)
           /\ Resources!Publish(vm, Resources!Entry(Resources!TokenFor(vm, family), made + 1,
                                                    kind, handle, listener))
           /\ os' = Resources!Grant(made + 1, handle) /\ made' = made + 1
  <2> DEFINE entry == [token |-> Resources!TokenFor(vm, family), id |-> made + 1, kind |-> kind,
                       first |-> handle, second |-> 0, pid |-> 0, started |-> FALSE,
                       listener |-> listener, tls |-> FALSE]
  <2>1. Resources!Entry(Resources!TokenFor(vm, family), made + 1, kind, handle, listener) = entry
    BY DEF Resources!Entry, Resources!None
  <2>2. entry \in EntrySet
    <3>1. Resources!TokenFor(vm, family) \in Tokens
      BY <1>1 DEF RInv, RTyped, Resources!TokenFor, Tokens
    <3> QED
      BY <1>4, <3>1 DEF EntrySet
  <2>3. Shaped(entry)
    BY <1>4, NumbersPositive DEF Shaped
  <2>4. /\ entry.id = made + 1 /\ entry.pid = 0
        /\ entry.token = Resources!TokenFor(vm, family)
        /\ \A other \in Handles : other \in Resources!HandlesOf(entry) <=> other = handle
        /\ Resources!HandlesOf(entry) = {handle}
    BY <1>4, NumbersPositive DEF Resources!HandlesOf, Resources!None
  <2>5. /\ Resources!Publish(vm, entry)
        /\ table' = [table EXCEPT ![vm] = @ \union {entry}]
    BY <1>5, <2>1 DEF Resources!Publish
  <2> HIDE DEF entry
  <2>6. os' = [other \in Handles |-> IF other \in Resources!HandlesOf(entry) THEN made + 1
                                                                           ELSE os[other]]
    BY <1>4, <1>5, <2>4 DEF RInv, RTyped, Resources!Grant
  <2>7. TokensBelow' /\ TokensStay
    BY <1>1, <1>5, <2>4, <2>5, TokensPublished DEF RInv
  <2>8. RTyped' /\ Apart' /\ Owned' /\ Accounted'
    BY <1>1, <1>2, <1>4, <1>5, <2>2, <2>3, <2>4, <2>5, <2>6, EntryComes DEF RInv
  <2> QED
    BY <2>7, <2>8 DEF RInv
<1>6. CASE UNCHANGED <<table, issued, os>> /\ made' \in {made, made + 1}
  <2>1. TokensBelow' /\ TokensStay
    BY <1>2, <1>6, TokensKept DEF RInv
  <2>2. RTyped' /\ Owned' /\ Accounted'
    BY <1>1, <1>2, <1>4, <1>6 DEF RInv, RTyped, Owned, Accounted
  <2>3. Apart'
    <3>1. \A other \in VMs : \A old \in table[other] : old.id <= made /\ old.id \in Nat
      BY DEF RInv, RTyped, Apart, EntrySet
    <3>2. \A other \in VMs : \A old \in table[other] : old.id <= made'
      BY <1>4, <1>6, <3>1
    <3> QED
      BY <1>6, <3>2 DEF RInv, Apart
  <2> QED
    BY <2>1, <2>2, <2>3 DEF RInv
<1>7. kind \in FailingInserts => Resources!Guarded(kind)
  BY DEF Resources!Guarded
<1> QED
  BY <1>3, <1>4, <1>5, <1>6, <1>7

(* What opens or accepts a handle.                                          *)
LEMMA OpeningKeeps ==
  ASSUME RInv, "stream" \notin FailingInserts, NEW vm \in VMs, NEW token,
         \/ Resources!OpenFile(vm) \/ Resources!OpenDirectory(vm) \/ Resources!OpenStream(vm)
         \/ Resources!OpenResolver(vm) \/ Resources!ConnectSocket(vm)
         \/ Resources!ListenSocket(vm) \/ Resources!Accept(vm, token)
  PROVE  RInv' /\ TokensStay
<1>1. ASSUME NEW kind \in {"file", "stream"}, Resources!OpenRefused(kind)
      PROVE  RInv' /\ TokensStay
  <2>1. /\ Resources!Family(kind) \in Resources!Families
        /\ Resources!TokenTaken(Resources!Family(kind))
        /\ UNCHANGED <<os, children, table, issued, made>>
    BY <1>1 DEF Resources!OpenRefused, Resources!Family, Resources!Families
  <2>2. /\ nextToken' \in [Resources!Families -> Nat]
        /\ \A other \in Resources!Families : nextToken[other] <= nextToken'[other]
    BY <2>1, TokenTakenGrows DEF RInv
  <2>3. TokensBelow' /\ TokensStay
    BY <2>1, <2>2, TokensKept DEF RInv
  <2> QED
    BY <2>1, <2>2, <2>3 DEF RInv, RTyped, Apart, Owned, Accounted
<1>2. ASSUME Resources!Accept(vm, token), ~Resources!Register(vm, "socket", FALSE)
      PROVE  RInv' /\ TokensStay
  <2>1. UNCHANGED <<os, children, table, issued, nextToken, made>>
    BY <1>2 DEF Resources!Accept, Resources!AcceptedDropped
  <2> QED
    BY <2>1 DEF RInv, RTyped, Apart, Owned, Accounted, TokensBelow, TokensStay
<1>3. ASSUME NEW kind \in Resources!Kinds \ {"process"}, NEW listener \in BOOLEAN,
             Resources!Register(vm, kind, listener)
      PROVE  RInv' /\ TokensStay
  BY <1>3, RegisterKeeps
<1> QED
  BY <1>1, <1>2, <1>3 DEF Resources!OpenFile, Resources!OpenDirectory, Resources!OpenStream,
     Resources!OpenResolver, Resources!ConnectSocket, Resources!ListenSocket, Resources!Kinds

(* What closes a handle or a process: the entry goes.                       *)
LEMMA ClosingKeeps ==
  ASSUME RInv, ~CloseKeepsToken, NEW vm \in VMs, NEW token,
         \/ Resources!CloseSimple(vm, token) \/ Resources!CloseSocket(vm, token)
         \/ Resources!CloseSocketForeign(vm, token) \/ Resources!CloseProcess(vm, token)
  PROVE  RInv' /\ TokensStay
<1>1. PICK entry \in table[vm] :
        /\ table' = Resources!Without(vm, entry)
        /\ os' = Resources!Released(Resources!HandlesOf(entry))
        /\ \/ entry.kind # "process" /\ UNCHANGED children
           \/ children' = Resources!Reaped({entry.pid})
        /\ UNCHANGED <<issued, nextToken, made>>
  BY DEF Resources!CloseSimple, Resources!CloseSocket, Resources!CloseSocketForeign,
         Resources!CloseProcess, Resources!Named, Resources!ReleasedBy
<1>2. children' = Resources!Reaped({entry.pid})
  <2>1. CASE entry.kind # "process" /\ UNCHANGED children
    <3>1. entry.pid = 0 /\ children \in [Pids -> Nat]
      BY <2>1 DEF RInv, RTyped, Shaped
    <3>2. children = [pid \in Pids |-> IF pid \in {entry.pid} THEN 0 ELSE children[pid]]
      BY <3>1, NumbersPositive
    <3> QED
      BY <2>1, <3>2 DEF Resources!Reaped, Resources!None
  <2> QED
    BY <1>1, <2>1
<1>3. RTyped' /\ Apart' /\ Owned' /\ Accounted'
  BY <1>1, <1>2, EntryGoes DEF RInv
<1>4. TokensBelow' /\ TokensStay
  BY <1>1 DEF RInv, TokensBelow, TokensStay
<1> QED
  BY <1>3, <1>4 DEF RInv

-----------------------------------------------------------------------------
(* A child process: entry, start, end of its output, wait.                  *)

LEMMA NewProcessKeeps ==
  ASSUME RInv, NEW vm \in VMs, Resources!NewProcess(vm)
  PROVE  RInv' /\ TokensStay
<1>1. "opaque" \in Resources!Families /\ Resources!TokenTaken("opaque")
      /\ UNCHANGED <<os, children>>
  BY DEF Resources!NewProcess, Resources!Families
<1>2. /\ nextToken' \in [Resources!Families -> Nat]
      /\ \A other \in Resources!Families : nextToken[other] <= nextToken'[other]
  BY <1>1, TokenTakenGrows DEF RInv
<1>3. CASE Resources!Exhausted("opaque")
  <2>1. UNCHANGED <<table, issued, made>>
    BY <1>3 DEF Resources!NewProcess
  <2>2. TokensBelow' /\ TokensStay
    BY <1>2, <2>1, TokensKept DEF RInv
  <2> QED
    BY <1>1, <1>2, <2>1, <2>2 DEF RInv, RTyped, Apart, Owned, Accounted
<1>4. CASE ~Resources!Exhausted("opaque")
  <2> DEFINE entry == [token |-> Resources!TokenFor(vm, "opaque"), id |-> made + 1,
                       kind |-> "process", first |-> 0, second |-> 0, pid |-> 0,
                       started |-> FALSE, listener |-> FALSE, tls |-> FALSE]
  <2>1. Resources!Entry(Resources!TokenFor(vm, "opaque"), made + 1, "process", 0, FALSE) = entry
    BY DEF Resources!Entry, Resources!None
  <2>2. entry \in EntrySet
    <3>1. Resources!TokenFor(vm, "opaque") \in Tokens
      BY <1>1 DEF RInv, RTyped, Resources!TokenFor, Tokens
    <3> QED
      BY <3>1 DEF EntrySet, Resources!Kinds, RInv, RTyped
  <2>3. Shaped(entry)
    BY DEF Shaped
  <2>4. /\ entry.id = made + 1 /\ entry.pid = 0
        /\ entry.token = Resources!TokenFor(vm, "opaque")
        /\ Resources!HandlesOf(entry) = {}
    BY DEF Resources!HandlesOf, Resources!None
  <2>5. /\ Resources!Publish(vm, entry)
        /\ table' = [table EXCEPT ![vm] = @ \union {entry}]
        /\ made' = made + 1
    BY <1>4, <2>1 DEF Resources!NewProcess, Resources!Publish, Resources!None
  <2> HIDE DEF entry
  <2>6. os' = [other \in Handles |-> IF other \in Resources!HandlesOf(entry) THEN made + 1
                                                                           ELSE os[other]]
    BY <1>1, <2>4 DEF RInv, RTyped
  <2>7. TokensBelow' /\ TokensStay
    BY <1>1, <1>4, <2>4, <2>5, TokensPublished DEF RInv
  <2>8. RTyped' /\ Apart' /\ Owned' /\ Accounted'
    BY <1>1, <1>2, <2>2, <2>3, <2>4, <2>5, <2>6, EntryComes DEF RInv
  <2> QED
    BY <2>7, <2>8 DEF RInv
<1> QED
  BY <1>3, <1>4

(* What an entry is before it changes.                                      *)
LEMMA EntryFacts ==
  ASSUME RInv, NEW vm \in VMs, NEW entry \in table[vm]
  PROVE  /\ entry \in EntrySet /\ Shaped(entry) /\ entry.id # 0
         /\ \A handle \in Handles :
              /\ handle \in Resources!HandlesOf(entry) <=> os[handle] = entry.id
              /\ handle \in Resources!HandlesOf(entry) <=> handle \in {entry.first, entry.second}
         /\ \A pid \in Pids : entry.pid = pid <=> children[pid] = entry.id
         /\ os \in [Handles -> Nat] /\ children \in [Pids -> Nat]
<1>1. entry \in EntrySet /\ Shaped(entry) /\ os \in [Handles -> Nat] /\ children \in [Pids -> Nat]
  BY DEF RInv, RTyped
<1> QED
  BY <1>1, HandlesOfTyped DEF RInv, Owned, EntrySet

LEMMA UpgradeKeeps ==
  ASSUME RInv, NEW vm \in VMs, NEW token, Resources!UpgradeTls(vm, token)
  PROVE  RInv' /\ TokensStay
<1>1. PICK entry \in table[vm] :
        /\ entry.kind = "socket"
        /\ \/ table' = Resources!Replace(vm, entry, [entry EXCEPT !.tls = TRUE]) /\ UNCHANGED os
           \/ table' = Resources!Without(vm, entry) /\ os' = Resources!Released({entry.first})
        /\ UNCHANGED <<children, ended, issued, nextToken, made>>
  BY DEF Resources!UpgradeTls, Resources!Named
<1>2. entry \in EntrySet /\ Shaped(entry) /\ entry.second = 0 /\ entry.pid = 0
  BY <1>1, EntryFacts DEF Shaped
<1>3. TokensBelow' /\ TokensStay
  BY <1>1 DEF RInv, TokensBelow, TokensStay
<1>4. CASE table' = Resources!Replace(vm, entry, [entry EXCEPT !.tls = TRUE]) /\ UNCHANGED os
  <2> DEFINE changed == [entry EXCEPT !.tls = TRUE]
  <2>1. changed \in EntrySet
    BY <1>2 DEF EntrySet
  <2>2. /\ changed.id = entry.id /\ changed.first = entry.first /\ changed.second = entry.second
        /\ changed.pid = entry.pid /\ changed.kind = entry.kind /\ changed.started = entry.started
    BY <1>2 DEF EntrySet
  <2>3. Shaped(changed) /\ Resources!HandlesOf(changed) = Resources!HandlesOf(entry)
    BY <1>2, <2>2 DEF Shaped, Resources!HandlesOf
  <2>4. table' = Resources!Replace(vm, entry, changed) /\ UNCHANGED <<os, children, nextToken, made>>
    BY <1>1, <1>4
  <2> HIDE DEF changed
  <2>5. /\ os' \in [Handles -> Nat] /\ children' \in [Pids -> Nat]
        /\ \A handle \in Handles :
             /\ handle \in Resources!HandlesOf(changed) <=> os'[handle] = entry.id
             /\ os'[handle] = os[handle]
        /\ \A pid \in Pids :
             /\ changed.pid = pid <=> children'[pid] = entry.id
             /\ children'[pid] = children[pid]
    BY <2>2, <2>3, <2>4, EntryFacts
  <2>6. RTyped' /\ Apart' /\ Owned' /\ Accounted'
    BY <2>1, <2>2, <2>3, <2>4, <2>5, EntryChanges DEF RInv
  <2> QED
    BY <1>3, <2>6 DEF RInv
<1>5. CASE table' = Resources!Without(vm, entry) /\ os' = Resources!Released({entry.first})
  <2>1. os' = Resources!Released(Resources!HandlesOf(entry))
    BY <1>2, <1>5, NumbersPositive DEF Resources!Released, Resources!HandlesOf, Resources!None
  <2>2. children' = Resources!Reaped({entry.pid})
    <3>1. children = [pid \in Pids |-> IF pid \in {entry.pid} THEN 0 ELSE children[pid]]
      BY <1>2, NumbersPositive DEF RInv, RTyped
    <3> QED
      BY <1>1, <3>1 DEF Resources!Reaped, Resources!None
  <2>3. RTyped' /\ Apart' /\ Owned' /\ Accounted'
    BY <1>1, <1>5, <2>1, <2>2, EntryGoes DEF RInv
  <2> QED
    BY <1>3, <2>3 DEF RInv
<1> QED
  BY <1>1, <1>4, <1>5

LEMMA StartKeepsProcess ==
  ASSUME RInv, NEW vm \in VMs, NEW token, Resources!StartProcess(vm, token)
  PROVE  RInv' /\ TokensStay
<1>1. PICK entry \in table[vm] :
        /\ entry.kind = "process" /\ ~entry.started
        /\ \/ \E out, err \in Resources!Free, pid \in Resources!FreePids :
                /\ out < err
                /\ table' = Resources!Replace(vm, entry,
                     [entry EXCEPT !.started = TRUE, !.first = out, !.second = err, !.pid = pid])
                /\ os' = [os EXCEPT ![out] = entry.id, ![err] = entry.id]
                /\ children' = [children EXCEPT ![pid] = entry.id]
           \/ /\ table' = Resources!Replace(vm, entry, [entry EXCEPT !.started = TRUE])
              /\ UNCHANGED <<os, children>>
        /\ UNCHANGED <<ended, issued, nextToken, made>>
  BY DEF Resources!StartProcess, Resources!Named
<1>2. /\ entry \in EntrySet /\ entry.id \in Nat \ {0}
      /\ entry.first = 0 /\ entry.second = 0 /\ entry.pid = 0
      /\ os \in [Handles -> Nat] /\ children \in [Pids -> Nat]
  BY <1>1, EntryFacts DEF Shaped, EntrySet
<1>3. /\ \A handle \in Handles : os[handle] # entry.id
      /\ \A pid \in Pids : children[pid] # entry.id
  BY <1>2, EntryFacts, NumbersPositive
<1>4. TokensBelow' /\ TokensStay
  BY <1>1 DEF RInv, TokensBelow, TokensStay
<1>5. ASSUME NEW out \in Resources!Free, NEW err \in Resources!Free, NEW pid \in Resources!FreePids,
             out < err,
             table' = Resources!Replace(vm, entry,
               [entry EXCEPT !.started = TRUE, !.first = out, !.second = err, !.pid = pid]),
             os' = [os EXCEPT ![out] = entry.id, ![err] = entry.id],
             children' = [children EXCEPT ![pid] = entry.id]
      PROVE  RTyped' /\ Apart' /\ Owned' /\ Accounted'
  <2> DEFINE changed == [entry EXCEPT !.started = TRUE, !.first = out, !.second = err, !.pid = pid]
  <2>1. /\ out \in Handles /\ err \in Handles /\ pid \in Pids /\ out # err
        /\ os[out] = 0 /\ os[err] = 0 /\ children[pid] = 0
    BY <1>5, HostAssumption DEF Resources!Free, Resources!FreePids, Resources!None
  <2>2. /\ changed \in EntrySet /\ changed.id = entry.id /\ changed.kind = entry.kind
        /\ changed.first = out /\ changed.second = err /\ changed.pid = pid /\ changed.started
    BY <1>2, <2>1 DEF EntrySet
  <2>3. table' = Resources!Replace(vm, entry, changed) /\ UNCHANGED <<nextToken, made>>
    BY <1>1, <1>5
  <2> HIDE DEF changed
  <2>4. Shaped(changed)
    BY <1>1, <2>1, <2>2 DEF Shaped
  <2>5. /\ os' \in [Handles -> Nat]
        /\ \A handle \in Handles :
             /\ handle \in Resources!HandlesOf(changed) <=> os'[handle] = entry.id
             /\ os'[handle] # os[handle] =>
                  os[handle] \in {0, entry.id} /\ os'[handle] \in {0, entry.id}
    BY <1>2, <1>3, <1>5, <2>1, <2>2, HandlesOfTyped
  <2>6. /\ children' \in [Pids -> Nat]
        /\ \A other \in Pids :
             /\ changed.pid = other <=> children'[other] = entry.id
             /\ children'[other] # children[other] =>
                  children[other] \in {0, entry.id} /\ children'[other] \in {0, entry.id}
    BY <1>2, <1>3, <1>5, <2>1, <2>2
  <2> QED
    BY <2>2, <2>3, <2>4, <2>5, <2>6, EntryChanges DEF RInv
<1>6. ASSUME table' = Resources!Replace(vm, entry, [entry EXCEPT !.started = TRUE]),
             UNCHANGED <<os, children>>
      PROVE  RTyped' /\ Apart' /\ Owned' /\ Accounted'
  <2> DEFINE changed == [entry EXCEPT !.started = TRUE]
  <2>1. /\ changed \in EntrySet /\ changed.id = entry.id /\ changed.kind = entry.kind
        /\ changed.first = 0 /\ changed.second = 0 /\ changed.pid = 0
    BY <1>2 DEF EntrySet
  <2>2. table' = Resources!Replace(vm, entry, changed) /\ UNCHANGED <<nextToken, made>>
    BY <1>1, <1>6
  <2> HIDE DEF changed
  <2>3. Shaped(changed)
    BY <1>1, <2>1 DEF Shaped
  <2>4. /\ os' \in [Handles -> Nat] /\ children' \in [Pids -> Nat]
        /\ \A handle \in Handles :
             /\ handle \in Resources!HandlesOf(changed) <=> os'[handle] = entry.id
             /\ os'[handle] = os[handle]
        /\ \A pid \in Pids :
             /\ changed.pid = pid <=> children'[pid] = entry.id
             /\ children'[pid] = children[pid]
    BY <1>2, <1>3, <1>6, <2>1, HandlesOfTyped, NumbersPositive
  <2> QED
    BY <2>1, <2>2, <2>3, <2>4, EntryChanges DEF RInv
<1>7. RTyped' /\ Apart' /\ Owned' /\ Accounted'
  BY <1>1, <1>5, <1>6
<1> QED
  BY <1>4, <1>7 DEF RInv

LEMMA ReadEndKeeps ==
  ASSUME RInv, NEW vm \in VMs, NEW token, Resources!ReadEnd(vm, token)
  PROVE  RInv' /\ TokensStay
<1>1. PICK entry \in table[vm] :
        /\ entry.kind = "process"
        /\ \/ /\ entry.first # 0 /\ os' = Resources!Released({entry.first})
              /\ table' = Resources!Replace(vm, entry, [entry EXCEPT !.first = 0])
           \/ /\ entry.second # 0 /\ os' = Resources!Released({entry.second})
              /\ table' = Resources!Replace(vm, entry, [entry EXCEPT !.second = 0])
        /\ UNCHANGED <<children, ended, issued, nextToken, made>>
  BY DEF Resources!ReadEnd, Resources!Named, Resources!None
<1>2. /\ entry \in EntrySet /\ Shaped(entry) /\ entry.id \in Nat \ {0}
      /\ os \in [Handles -> Nat] /\ children \in [Pids -> Nat]
      /\ \A pid \in Pids : entry.pid = pid <=> children[pid] = entry.id
      /\ \A handle \in Handles :
           os[handle] = entry.id <=> handle \in {entry.first, entry.second}
  BY EntryFacts DEF EntrySet
<1>3. TokensBelow' /\ TokensStay
  BY <1>1 DEF RInv, TokensBelow, TokensStay
<1>4. ASSUME NEW changed \in EntrySet,
             changed.id = entry.id, changed.kind = "process", changed.pid = entry.pid,
             changed.started = entry.started,
             \/ /\ changed.first = 0 /\ changed.second = entry.second /\ entry.first # 0
                /\ os' = Resources!Released({entry.first})
             \/ /\ changed.first = entry.first /\ changed.second = 0 /\ entry.second # 0
                /\ os' = Resources!Released({entry.second}),
             table' = Resources!Replace(vm, entry, changed)
      PROVE  RTyped' /\ Apart' /\ Owned' /\ Accounted'
  <2>1. Shaped(changed)
    BY <1>1, <1>2, <1>4 DEF Shaped
  <2>2. entry.first # 0 => entry.first # entry.second
    BY <1>2 DEF Shaped
  <2>3. /\ os' \in [Handles -> Nat]
        /\ \A handle \in Handles :
             /\ handle \in Resources!HandlesOf(changed) <=> os'[handle] = entry.id
             /\ os'[handle] # os[handle] =>
                  os[handle] \in {0, entry.id} /\ os'[handle] \in {0, entry.id}
    BY <1>2, <1>4, <2>2, HandlesOfTyped, NumbersPositive DEF Resources!Released, Resources!None
  <2>4. /\ UNCHANGED <<children, nextToken, made>> /\ children' \in [Pids -> Nat]
        /\ \A pid \in Pids :
             /\ changed.pid = pid <=> children'[pid] = entry.id
             /\ children'[pid] = children[pid]
    BY <1>1, <1>2, <1>4
  <2> QED
    BY <1>4, <2>1, <2>3, <2>4, EntryChanges DEF RInv
<1>5. ASSUME entry.first # 0, os' = Resources!Released({entry.first}),
             table' = Resources!Replace(vm, entry, [entry EXCEPT !.first = 0])
      PROVE  RTyped' /\ Apart' /\ Owned' /\ Accounted'
  <2> DEFINE changed == [entry EXCEPT !.first = 0]
  <2>1. /\ changed \in EntrySet /\ changed.id = entry.id /\ changed.kind = entry.kind
        /\ changed.first = 0 /\ changed.second = entry.second /\ changed.pid = entry.pid
        /\ changed.started = entry.started
    BY <1>2 DEF EntrySet
  <2>2. table' = Resources!Replace(vm, entry, changed)
    BY <1>5
  <2> HIDE DEF changed
  <2> QED
    BY <1>1, <1>4, <1>5, <2>1, <2>2
<1>6. ASSUME entry.second # 0, os' = Resources!Released({entry.second}),
             table' = Resources!Replace(vm, entry, [entry EXCEPT !.second = 0])
      PROVE  RTyped' /\ Apart' /\ Owned' /\ Accounted'
  <2> DEFINE changed == [entry EXCEPT !.second = 0]
  <2>1. /\ changed \in EntrySet /\ changed.id = entry.id /\ changed.kind = entry.kind
        /\ changed.first = entry.first /\ changed.second = 0 /\ changed.pid = entry.pid
        /\ changed.started = entry.started
    BY <1>2 DEF EntrySet
  <2>2. table' = Resources!Replace(vm, entry, changed)
    BY <1>6
  <2> HIDE DEF changed
  <2> QED
    BY <1>1, <1>4, <1>6, <2>1, <2>2
<1>7. RTyped' /\ Apart' /\ Owned' /\ Accounted'
  BY <1>1, <1>5, <1>6
<1> QED
  BY <1>3, <1>7 DEF RInv

LEMMA WaitKeeps ==
  ASSUME RInv, NEW vm \in VMs, NEW token, Resources!WaitProcess(vm, token)
  PROVE  RInv' /\ TokensStay
<1>1. PICK entry \in table[vm] :
        /\ entry.kind = "process" /\ entry.pid # 0 /\ entry.first = 0 /\ entry.second = 0
        /\ children' = Resources!Reaped({entry.pid})
        /\ table' = Resources!Replace(vm, entry, [entry EXCEPT !.pid = 0])
        /\ UNCHANGED <<os, issued, nextToken, made>>
  BY DEF Resources!WaitProcess, Resources!Named, Resources!PidForgotten, Resources!None
<1>2. /\ entry \in EntrySet /\ Shaped(entry) /\ entry.id \in Nat \ {0}
      /\ os \in [Handles -> Nat] /\ children \in [Pids -> Nat]
      /\ \A pid \in Pids : entry.pid = pid <=> children[pid] = entry.id
      /\ \A handle \in Handles :
           os[handle] = entry.id <=> handle \in {entry.first, entry.second}
  BY EntryFacts DEF EntrySet
<1>3. TokensBelow' /\ TokensStay
  BY <1>1 DEF RInv, TokensBelow, TokensStay
<1> DEFINE changed == [entry EXCEPT !.pid = 0]
<1>4. /\ changed \in EntrySet /\ changed.id = entry.id /\ changed.kind = entry.kind
      /\ changed.first = 0 /\ changed.second = 0 /\ changed.pid = 0
      /\ changed.started = entry.started
  BY <1>1, <1>2 DEF EntrySet
<1>5. table' = Resources!Replace(vm, entry, changed)
  BY <1>1
<1> HIDE DEF changed
<1>6. Shaped(changed)
  BY <1>1, <1>2, <1>4 DEF Shaped
<1>7. /\ os' \in [Handles -> Nat] /\ UNCHANGED <<nextToken, made>>
      /\ \A handle \in Handles :
           /\ handle \in Resources!HandlesOf(changed) <=> os'[handle] = entry.id
           /\ os'[handle] = os[handle]
  BY <1>1, <1>2, <1>4, HandlesOfTyped
<1>8. /\ children' \in [Pids -> Nat]
      /\ \A pid \in Pids :
           /\ changed.pid = pid <=> children'[pid] = entry.id
           /\ children'[pid] # children[pid] =>
                children[pid] \in {0, entry.id} /\ children'[pid] \in {0, entry.id}
  BY <1>1, <1>2, <1>4, NumbersPositive DEF Resources!Reaped, Resources!None
<1>9. RTyped' /\ Apart' /\ Owned' /\ Accounted'
  BY <1>4, <1>5, <1>6, <1>7, <1>8, EntryChanges DEF RInv
<1> QED
  BY <1>3, <1>9 DEF RInv

-----------------------------------------------------------------------------

LEMMA ResourceStepKeeps ==
  ASSUME RInv, "stream" \notin FailingInserts, ~CloseKeepsToken,
         [Resources!Next]_(Resources!vars)
  PROVE  RInv' /\ TokensStay
<1>1. ASSUME NEW vm \in VMs, Resources!ResetVM(vm)
      PROVE  RInv' /\ TokensStay
  <2>1. TokensBelow' /\ TokensStay
    BY <1>1 DEF Resources!ResetVM, RInv, TokensBelow, TokensStay
  <2> QED
    BY <1>1, <2>1, TableReset DEF RInv
<1>2. ASSUME UNCHANGED <<os, children, table, issued, nextToken, made>>
      PROVE  RInv' /\ TokensStay
  BY <1>2 DEF RInv, RTyped, Apart, Owned, Accounted, TokensBelow, TokensStay
<1>3. CASE UNCHANGED Resources!vars
  BY <1>2, <1>3 DEF Resources!vars
<1>4. ASSUME NEW pid \in Pids, Resources!Exit(pid)
      PROVE  RInv' /\ TokensStay
  BY <1>2, <1>4 DEF Resources!Exit
<1>5. ASSUME NEW vm \in VMs, NEW token,
             \/ Resources!StartProcess(vm, token) \/ Resources!ReadEnd(vm, token)
             \/ Resources!WaitProcess(vm, token) \/ Resources!UpgradeTls(vm, token)
             \/ Resources!NewProcess(vm)
      PROVE  RInv' /\ TokensStay
  BY <1>5, StartKeepsProcess, ReadEndKeeps, WaitKeeps, UpgradeKeeps, NewProcessKeeps
<1> QED
  BY <1>1, <1>3, <1>4, <1>5, OpeningKeeps, ClosingKeeps DEF Resources!Next

(* For any number of tables, handles and children and any limit of the      *)
(* tokens, where the insert of a stream does not throw and close gives the  *)
(* descriptor back when it is interrupted (Linux): every open handle and    *)
(* every child belongs to the one entry that names it, whatever opens,      *)
(* fails, closes, exits or is reset in between, and a token that was given  *)
(* out never comes to name another resource.                                *)
THEOREM HandlesOwnedAlways ==
  ASSUME "stream" \notin FailingInserts, ~CloseKeepsToken
  PROVE  HostSpec => HandlesOwned
<1>1. RInv /\ [Resources!Next]_(Resources!vars) => RInv'
  BY ResourceStepKeeps
<1>2. RInv /\ [Resources!Next]_(Resources!vars) =>
        [TokensStay]_(Resources!vars)
  BY ResourceStepKeeps
<1>3. RInv => NothingLeaks /\ NothingDangles
  <2> SUFFICES ASSUME RInv
               PROVE  Resources!NothingLeaks /\ Resources!NothingDangles
    BY DEF NothingLeaks, NothingDangles
  <2>1. ASSUME NEW vm \in VMs, NEW entry \in table[vm]
        PROVE  /\ Resources!HandlesOf(entry) \subseteq Handles
               /\ entry.pid # 0 => entry.pid \in Pids
               /\ \A handle \in Handles :
                    handle \in Resources!HandlesOf(entry) <=> os[handle] = entry.id
               /\ \A pid \in Pids : entry.pid = pid <=> children[pid] = entry.id
    BY EntryFacts, HandlesOfTyped DEF EntrySet
  <2>2. Resources!NothingDangles
    BY <2>1 DEF Resources!NothingDangles, Resources!Entries, Resources!None
  <2>3. Resources!NothingLeaks
    <3>1. ASSUME NEW handle \in Handles, os[handle] # 0
          PROVE  \E entry \in Resources!Entries :
                   handle \in Resources!HandlesOf(entry) /\ entry.id = os[handle]
      <4>1. PICK vm \in VMs : \E entry \in table[vm] : entry.id = os[handle]
        BY <3>1 DEF RInv, Accounted
      <4> QED
        BY <2>1, <4>1 DEF Resources!Entries
    <3>2. ASSUME NEW pid \in Pids, children[pid] # 0
          PROVE  \E entry \in Resources!Entries : entry.pid = pid /\ entry.id = children[pid]
      <4>1. PICK vm \in VMs : \E entry \in table[vm] : entry.id = children[pid]
        BY <3>2 DEF RInv, Accounted
      <4> QED
        BY <2>1, <4>1 DEF Resources!Entries
    <3> QED
      BY <3>1, <3>2 DEF Resources!NothingLeaks, Resources!None
  <2> QED
    BY <2>2, <2>3
<1>4. HostSpec => []RInv
  BY <1>1, ResourcesBegin, ResourceSteps, PTL DEF Resources!Spec
<1>5. HostSpec => [][TokensStay]_(Resources!vars)
  BY <1>2, <1>4, ResourceSteps, PTL DEF Resources!Spec
<1>6. HostSpec => TokensNameOneResource
  BY <1>5 DEF TokensNameOneResource, Resources!TokensNameOneResource, TokensStay
<1> QED
  BY <1>3, <1>4, <1>6, PTL DEF HandlesOwned
-----------------------------------------------------------------------------
(* EditorClient.                                                            *)

Process == {"none", "spawning", "alive", "leaving", "exited"}

ServerObject ==
  [phase : {"unused", "starting", "up"}, process : Process, child : BOOLEAN,
   file : Editor!Files, build : Nat, told : [Documents -> Nat]]

Settings == [enabled : BOOLEAN, executable : {"", "managed"}]
Builds == [Editor!Files -> Nat]

Stops == {"stop", "quit"}

ETyped ==
  /\ languageServer \in Editor!Servers \union {0}
  /\ languageServerStarting \in Editor!Servers \union {0}
  /\ server \in [Editor!Servers -> ServerObject]
  /\ restart \in [Restarters -> [at : {"idle", "await", "resume"} \union Stops,
                                 on : Editor!Servers \union {0}]]
  /\ ask \in [Askers -> [at : {"idle", "await", "resume", "wait"},
                         on : Editor!Servers \union {0}]]
  /\ open \in [Documents -> Nat]
  /\ build \in Builds
  /\ setting \in Settings
  /\ watch \in [path : Editor!Files \union {""}, changed : BOOLEAN, timer : BOOLEAN]
  /\ activated \in BOOLEAN
  /\ events \in Nat

(* A server object that starts is the one the running start makes, one that *)
(* is up is in use or being stopped, and only these two have a process that *)
(* may still answer.                                                        *)
Alive(s) ==
  /\ server[s].phase = "unused" =>
       ~server[s].child /\ server[s].process \in {"none", "leaving"}
  /\ server[s].phase = "starting" =>
       server[s].child /\ server[s].process \in {"spawning", "alive", "exited"}
  /\ server[s].phase = "up" => server[s].child /\ server[s].process \in {"alive", "exited"}
  /\ server[s].phase = "starting" <=> s = languageServerStarting
  /\ server[s].phase = "up" <=> s = languageServer \/ Editor!StopPending(s)

Lives == \A s \in Editor!Servers : Alive(s)

(* A server is stopped by one restart, and is no longer in use.             *)
StoppedOnce ==
  \A r \in Restarters : restart[r].at \in Stops =>
    /\ restart[r].on # 0 /\ restart[r].on # languageServer
    /\ \A q \in Restarters : restart[q].at \in Stops /\ restart[q].on = restart[r].on => q = r

(* Whoever waits for a start or an answer waits for something under way.    *)
Awaited ==
  /\ languageServerStarting # 0 => languageServer = 0
  /\ \A r \in Restarters : restart[r].at = "await" => languageServerStarting # 0
  /\ \A a \in Askers : /\ ask[a].at = "await" => languageServerStarting # 0
                       /\ ask[a].at = "wait" => /\ ask[a].on # 0
                                                /\ server[ask[a].on].phase = "up"

(* What a restart will still correct: a change not yet seen, a timer that   *)
(* runs, a restart that waits for the start under way or resumes after it.  *)
RestartOwed ==
  \/ watch.changed \/ watch.timer
  \/ \E r \in Restarters : \/ restart[r].at = "await"
                           \/ restart[r] = Editor!Resume /\ languageServerStarting = 0

UpToDate(s) ==
  /\ setting.enabled
  /\ setting.executable # "" => server[s].file = setting.executable
  /\ server[s].file = watch.path => server[s].build = build[watch.path]

UpToDateAtRest ==
  activated /\ ~RestartOwed =>
    /\ languageServer # 0 => UpToDate(languageServer)
    /\ languageServerStarting # 0 => UpToDate(languageServerStarting)

ToldAll == languageServer # 0 => server[languageServer].told = open

EInv == ETyped /\ Lives /\ StoppedOnce /\ Awaited /\ UpToDateAtRest /\ ToldAll

-----------------------------------------------------------------------------
(* The server a start makes runs the file and the build it was given.       *)
Made(s, chosen, present) ==
  /\ chosen.enabled
  /\ chosen.executable # "" => server'[s].file = chosen.executable
  /\ server'[s].build = present[server'[s].file]

StartsOne(servers, s, chosen, present) ==
  /\ server[s].phase = "unused"
  /\ languageServer = 0 /\ languageServerStarting = 0 /\ languageServerStarting' = s
  /\ server' = [servers EXCEPT ![s] = server'[s]]
  /\ server'[s].phase = "starting" /\ server'[s].process = "spawning" /\ server'[s].child
  /\ Made(s, chosen, present)

LEMMA UnusedTyped == Editor!Unused \in ServerObject
BY DEF Editor!Unused, ServerObject, Process, Editor!Files

LEMMA StartFacts ==
  ASSUME ETyped, NEW servers \in [Editor!Servers -> ServerObject],
         NEW chosen \in Settings, NEW present \in Builds,
         Editor!StartLanguageServer(servers, chosen, present)
  PROVE  /\ server' \in [Editor!Servers -> ServerObject]
         /\ \/ /\ server' = servers /\ languageServerStarting' = languageServerStarting
               /\ ~Editor!MustStart(chosen)
            \/ \E s \in Editor!Servers : StartsOne(servers, s, chosen, present)
<1>1. CASE ~Editor!MustStart(chosen)
  BY <1>1 DEF Editor!StartLanguageServer
<1>2. CASE Editor!MustStart(chosen)
  <2> DEFINE file == Editor!LanguageServerExecutable(chosen.executable, present)
             one == [Editor!Unused EXCEPT !.phase = "starting", !.process = "spawning",
                       !.child = TRUE, !.file = file, !.build = present[file]]
  <2>1. PICK s \in Editor!Unmade : /\ server' = [servers EXCEPT ![s] = one]
                                   /\ languageServerStarting' = s
    BY <1>2 DEF Editor!StartLanguageServer
  <2>2. file \in Editor!Files /\ (chosen.executable # "" => file = chosen.executable)
    BY DEF Editor!LanguageServerExecutable, Editor!Files, Settings
  <2>3. present[file] \in Nat
    BY <2>2 DEF Builds
  <2>4. /\ one \in ServerObject /\ one.phase = "starting" /\ one.process = "spawning"
        /\ one.child /\ one.file = file /\ one.build = present[file]
    BY <2>2, <2>3, UnusedTyped DEF Editor!Unused, ServerObject, Process
  <2>5. s \in Editor!Servers /\ server[s].phase = "unused"
    BY DEF Editor!Unmade, Editor!Unused
  <2> HIDE DEF one, file
  <2>6. server'[s] = one /\ server' \in [Editor!Servers -> ServerObject]
    BY <2>1, <2>4, <2>5
  <2>7. languageServer = 0 /\ languageServerStarting = 0 /\ chosen.enabled
    BY <1>2 DEF Editor!MustStart, Editor!None
  <2>8. StartsOne(servers, s, chosen, present)
    BY <2>1, <2>2, <2>4, <2>5, <2>6, <2>7 DEF StartsOne, Made
  <2> QED
    BY <2>5, <2>6, <2>8
<1> QED
  BY <1>1, <1>2

LEMMA DisposedTyped ==
  ASSUME ETyped, NEW s \in Editor!Servers
  PROVE  /\ Editor!Disposed(s) \in ServerObject
         /\ Editor!Disposed(s).phase = "unused" /\ ~Editor!Disposed(s).child
         /\ Editor!Disposed(s).process \in {"none", "leaving"}
BY UnusedTyped DEF Editor!Disposed, Editor!Unused, ServerObject, Process

LEMMA NoServerZero == 0 \notin Editor!Servers
BY DEF Editor!Servers

(* A step that leaves every promise of the objects alone.                   *)
LEMMA EditorStutters ==
  ASSUME EInv, UNCHANGED Editor!vars
  PROVE  EInv'
<1> USE DEF EInv, Editor!vars
<1>1. ETyped'
  BY DEF ETyped
<1>2. Lives' /\ StoppedOnce' /\ Awaited' /\ ToldAll'
  BY DEF Lives, Alive, StoppedOnce, Awaited, ToldAll, Editor!StopPending
<1>3. UpToDateAtRest'
  BY DEF UpToDateAtRest, RestartOwed, UpToDate
<1> QED
  BY <1>1, <1>2, <1>3

(* The steps that move one process and no variable of the extension.        *)
LEMMA ProcessMoves ==
  ASSUME EInv, NEW s \in Editor!Servers,
         Editor!Spawned(s) \/ Editor!Crashes(s) \/ Editor!Leaves(s)
  PROVE  EInv'
<1> USE DEF EInv
<1>0. /\ server[s] \in ServerObject /\ 0 \notin Editor!Servers
      /\ UNCHANGED <<languageServer, languageServerStarting, restart, ask, open, build,
                     setting, watch, activated>>
  BY NoServerZero DEF Editor!Spawned, Editor!Crashes, Editor!Leaves, ETyped
<1>1. /\ events' \in Nat /\ server' = [server EXCEPT ![s] = server'[s]]
      /\ server'[s] \in ServerObject /\ server'[s].phase = server[s].phase
      /\ server'[s].phase # "unused" =>
           /\ server'[s].child = server[s].child /\ server'[s].told = server[s].told
           /\ server'[s].file = server[s].file /\ server'[s].build = server[s].build
           /\ server'[s].process \in {"alive", "exited"}
      /\ server'[s].phase = "unused" =>
           ~server'[s].child /\ server'[s].process \in {"none", "leaving"}
  <2>1. CASE Editor!Spawned(s)
    BY <1>0, <2>1 DEF ETyped, Editor!Spawned, Lives, Alive, ServerObject, Process
  <2>2. CASE Editor!Crashes(s)
    <3>1. server'[s] = [server[s] EXCEPT !.process = "exited"]
      BY <1>0, <2>2 DEF ETyped, Editor!Crashes
    <3>4. Editor!Happens /\ events \in Nat
      BY <2>2 DEF ETyped, Editor!Crashes
    <3>5. events' \in Nat
      BY <3>4 DEF Editor!Happens
    <3>2. server[s].process = "alive" /\ server[s].phase # "unused"
      BY <1>0, <2>2 DEF Editor!Crashes, Lives, Alive, ServerObject
    <3>3. server'[s] \in ServerObject
      BY <1>0, <3>1 DEF ServerObject, Process
    <3> QED
      BY <1>0, <2>2, <3>1, <3>2, <3>3, <3>5 DEF ETyped, Editor!Crashes, ServerObject
  <2>3. CASE Editor!Leaves(s)
    <3>1. server[s].phase = "unused"
      BY <1>0, <2>3 DEF Editor!Leaves, Lives, Alive, ServerObject
    <3>2. /\ Editor!Unused.phase = "unused" /\ ~Editor!Unused.child
          /\ Editor!Unused.process = "none"
      BY DEF Editor!Unused
    <3> QED
      BY <1>0, <2>3, <3>1, <3>2, UnusedTyped DEF ETyped, Editor!Leaves
  <2> QED
    BY <2>1, <2>2, <2>3
<1>2. /\ server' \in [Editor!Servers -> ServerObject]
      /\ \A t \in Editor!Servers : /\ server'[t].phase = server[t].phase
                                   /\ t # s => server'[t] = server[t]
  BY <1>0, <1>1 DEF ETyped
<1>4. ETyped'
  BY <1>0, <1>1, <1>2 DEF ETyped
<1>5. Lives'
  BY <1>0, <1>1, <1>2 DEF Lives, Alive, Editor!StopPending
<1>6. StoppedOnce' /\ Awaited'
  BY <1>0, <1>1, <1>2 DEF StoppedOnce, Awaited, ETyped
<1>7. UpToDateAtRest'
  <2>1. \A t \in {languageServer, languageServerStarting} \ {0} :
          server'[t].file = server[t].file /\ server'[t].build = server[t].build
    <3> SUFFICES ASSUME NEW t \in {languageServer, languageServerStarting} \ {0}
                 PROVE  server'[t].file = server[t].file /\ server'[t].build = server[t].build
      OBVIOUS
    <3>1. t \in Editor!Servers
      BY DEF ETyped
    <3>2. server[t].phase \in {"starting", "up"}
      BY <3>1 DEF Lives, Alive
    <3> QED
      BY <1>1, <1>2, <3>1, <3>2
  <2>2. RestartOwed' <=> RestartOwed
    BY <1>0 DEF RestartOwed
  <2> QED
    BY <1>0, <2>1, <2>2 DEF UpToDateAtRest, UpToDate
<1>8. ToldAll'
  BY <1>0, <1>1, <1>2 DEF ToldAll, ETyped, Lives, Alive
<1> QED
  BY <1>4, <1>5, <1>6, <1>7, <1>8

(* The start has ended: whoever waited for it resumes.                      *)
LEMMA StartEndsFacts ==
  ASSUME ETyped, Editor!StartEnds
  PROVE  /\ languageServerStarting' = 0
         /\ restart' \in [Restarters -> [at : {"idle", "await", "resume"} \union Stops,
                                         on : Editor!Servers \union {0}]]
         /\ ask' \in [Askers -> [at : {"idle", "await", "resume", "wait"},
                                 on : Editor!Servers \union {0}]]
         /\ \A r \in Restarters :
              /\ restart'[r].at # "await"
              /\ restart[r].at = "await" =>
                   restart'[r] = Editor!Resume /\ restart'[r].at = "resume"
              /\ restart[r].at # "await" => restart'[r] = restart[r]
         /\ \A a \in Askers :
              /\ ask'[a].at # "await"
              /\ ask[a].at = "await" => ask'[a].at = "resume"
              /\ ask[a].at # "await" => ask'[a] = ask[a]
BY NoServerZero DEF ETyped, Editor!StartEnds, Editor!Resume, Editor!None, Stops

LEMMA StartFailsKeeps ==
  ASSUME EInv, NEW s \in Editor!Servers, s = languageServerStarting, Editor!StartFails(s),
         UNCHANGED <<open, build, setting, watch, activated, events>>
  PROVE  EInv'
<1> USE DEF EInv
<1>1. /\ server' = [server EXCEPT ![s] = Editor!Disposed(s)] /\ languageServer' = 0
      /\ Editor!StartEnds /\ languageServer = 0
  BY NoServerZero DEF Editor!StartFails, Editor!None, Awaited, ETyped
<1>8. /\ server'[s] = Editor!Disposed(s) /\ s # 0
      /\ \A t \in Editor!Servers : t # s => server'[t] = server[t]
  BY <1>1, DisposedTyped, NoServerZero DEF ETyped
<1>2. ETyped'
  BY <1>1, StartEndsFacts, DisposedTyped DEF ETyped
<1>3. \A t \in Editor!Servers : Editor!StopPending(t)' <=> Editor!StopPending(t)
  BY <1>1, StartEndsFacts DEF Editor!StopPending, Stops
<1>4. Lives'
  <2> SUFFICES ASSUME NEW t \in Editor!Servers PROVE Alive(t)'
    BY DEF Lives, Alive
  <2>1. CASE t = s
    BY <1>1, <1>3, <1>8, <2>1, StartEndsFacts, DisposedTyped DEF Lives, Alive
  <2>2. CASE t # s
    BY <1>1, <1>3, <1>8, <2>2, StartEndsFacts, NoServerZero DEF Lives, Alive
  <2> QED
    BY <2>1, <2>2
<1>5. StoppedOnce'
  BY <1>1, StartEndsFacts DEF StoppedOnce, Stops
<1>6. Awaited'
  <2>1. \A a \in Askers : ask[a].at = "wait" => ask[a].on \in Editor!Servers \ {s}
    BY DEF Awaited, ETyped, Lives, Alive
  <2> QED
    BY <1>1, <1>8, <2>1, StartEndsFacts DEF Awaited
<1>7. UpToDateAtRest' /\ ToldAll'
  BY <1>1, StartEndsFacts DEF UpToDateAtRest, ToldAll
<1> QED
  BY <1>2, <1>4, <1>5, <1>6, <1>7

LEMMA InitializeAnsweredKeeps ==
  ASSUME EInv, NEW s \in Editor!Servers, Editor!InitializeAnswered(s)
  PROVE  EInv'
<1> USE DEF EInv
<1>1. /\ s = languageServerStarting /\ languageServer = 0 /\ languageServer' = s
      /\ Editor!StartEnds /\ Editor!Settled
      /\ server[s].process = "alive" /\ server[s].phase = "starting" /\ s # 0
      /\ UNCHANGED <<open, build, setting, watch, activated, events>>
  BY NoServerZero DEF Editor!InitializeAnswered, Awaited, ETyped, Lives, Alive
<1>2. /\ server' \in [Editor!Servers -> ServerObject]
      /\ \A t \in Editor!Servers \ {s} : server'[t] = server[t]
      /\ server'[s].phase = "up" /\ server'[s].told = open
      /\ server'[s].process = server[s].process /\ server'[s].child = server[s].child
      /\ server'[s].file = server[s].file /\ server'[s].build = server[s].build
  BY DEF Editor!InitializeAnswered, ETyped, ServerObject, Editor!DocumentsToOpen
<1>3. ETyped'
  BY <1>1, <1>2, StartEndsFacts DEF ETyped
<1>4. \A t \in Editor!Servers : Editor!StopPending(t)' <=> Editor!StopPending(t)
  BY <1>1, StartEndsFacts DEF Editor!StopPending, Stops
<1>5. Lives'
  <2> SUFFICES ASSUME NEW t \in Editor!Servers PROVE Alive(t)'
    BY DEF Lives
  <2>1. CASE t = s
    BY <1>1, <1>2, <1>4, <2>1, StartEndsFacts DEF Lives, Alive
  <2>2. CASE t # s
    BY <1>1, <1>2, <1>4, <2>2, StartEndsFacts, NoServerZero DEF Lives, Alive
  <2> QED
    BY <2>1, <2>2
<1>6. StoppedOnce'
  BY <1>1, StartEndsFacts DEF StoppedOnce, Stops, Lives, Alive, Editor!StopPending
<1>7. Awaited'
  <2>1. \A a \in Askers : ask[a].at = "wait" => ask[a].on \in Editor!Servers \ {s}
    BY <1>1 DEF Awaited, ETyped
  <2> QED
    BY <1>1, <1>2, <2>1, StartEndsFacts DEF Awaited
<1>8. UpToDateAtRest'
  <2>1. RestartOwed => RestartOwed'
    BY <1>1, StartEndsFacts DEF RestartOwed, Editor!Settled, Editor!Resume
  <2> QED
    BY <1>1, <1>2, <2>1, StartEndsFacts DEF UpToDateAtRest, UpToDate
<1>9. ToldAll'
  BY <1>1, <1>2 DEF ToldAll
<1> QED
  BY <1>3, <1>5, <1>6, <1>7, <1>8, <1>9

Requests == [at : {"idle", "await", "resume", "wait"}, on : Editor!Servers \union {0}]
Restarts == [at : {"idle", "await", "resume"} \union Stops, on : Editor!Servers \union {0}]

LEMMA IdleTyped ==
  /\ Editor!Idle \in Requests /\ Editor!Idle \in Restarts /\ Editor!Idle.at = "idle"
  /\ Editor!Idle # Editor!Resume
BY DEF Editor!Idle, Requests, Restarts, Stops, Editor!None, Editor!Resume

(* No request is left that waits for an answer of the server.               *)
LEMMA RejectedFacts ==
  ASSUME ETyped, NEW s \in Editor!Servers
  PROVE  /\ Editor!Rejected(s) \in [Askers -> Requests]
         /\ \A a \in Askers :
              /\ \/ Editor!Rejected(s)[a].at = "idle"
                 \/ Editor!Rejected(s)[a] = ask[a]
              /\ Editor!Rejected(s)[a].at = "wait" => Editor!Rejected(s)[a].on # s
<1>1. \A a \in Askers : ask[a] \in Requests
  BY DEF ETyped, Requests
<1>2. \A a \in Askers : ask[a].at = "wait" /\ ask[a].on = s => ask[a] = [at |-> "wait", on |-> s]
  BY <1>1 DEF Requests
<1> QED
  BY <1>1, <1>2, IdleTyped DEF Editor!Rejected

(* The close event of a server in use, or of one that is being stopped.     *)
LEMMA ClosesKeeps ==
  ASSUME EInv, NEW s \in Editor!Servers, Editor!Closes(s), server[s].phase # "starting"
  PROVE  EInv'
<1> USE DEF EInv
<1>1. /\ languageServer' = Editor!AfterClose(s) /\ ask' = Editor!Rejected(s)
      /\ UNCHANGED <<languageServerStarting, open, build, setting, watch, activated, events>>
  BY DEF Editor!Closes
<1>2. /\ server[s].phase = "up" /\ s # 0 /\ s # languageServerStarting
      /\ \A t \in Editor!Servers : t # s => server'[t] = server[t]
      /\ server' \in [Editor!Servers -> ServerObject]
      /\ server'[s].phase = "unused" /\ ~server'[s].child /\ server'[s].process = "none"
  <2>1. server[s].process = "exited" /\ server' = [server EXCEPT ![s] = Editor!Unused]
    BY DEF Editor!Closes
  <2>2. server[s].phase = "up" /\ s # languageServerStarting
    BY <2>1 DEF ETyped, Lives, Alive, ServerObject
  <2>3. Editor!Unused.phase = "unused" /\ ~Editor!Unused.child /\ Editor!Unused.process = "none"
    BY DEF Editor!Unused
  <2> QED
    BY <2>1, <2>2, <2>3, UnusedTyped, NoServerZero DEF ETyped
<1>3. /\ restart' \in [Restarters -> Restarts]
      /\ \A r \in Restarters :
           /\ restart[r].at \in Stops /\ restart[r].on = s =>
                restart'[r].at = "idle" /\ restart'[r] # Editor!Resume
           /\ ~(restart[r].at \in Stops /\ restart[r].on = s) => restart'[r] = restart[r]
  <2>1. restart' = [r \in Restarters |->
                      IF restart[r].at \in Stops /\ restart[r].on = s THEN Editor!Idle
                      ELSE restart[r]]
    BY DEF Editor!Closes, Stops
  <2>2. restart \in [Restarters -> Restarts]
    BY DEF ETyped, Restarts
  <2> QED
    BY <2>1, <2>2, IdleTyped
<1>4. languageServer' \in Editor!Servers \union {0} /\ languageServer' # s
      /\ (languageServer' # languageServer => languageServer' = 0 /\ languageServer = s)
  BY <1>1, <1>2 DEF Editor!AfterClose, Editor!None, ETyped
<1>5. ETyped'
  BY <1>1, <1>2, <1>3, <1>4, RejectedFacts DEF ETyped, Requests, Restarts
<1>6. Lives'
  <2> SUFFICES ASSUME NEW t \in Editor!Servers PROVE Alive(t)'
    BY DEF Lives
  <2>1. CASE t = s
    BY <1>1, <1>2, <1>3, <1>4, <2>1 DEF Lives, Alive, Editor!StopPending, Stops
  <2>2. CASE t # s
    <3>1. Editor!StopPending(t)' <=> Editor!StopPending(t)
      BY <1>3, <2>2 DEF Editor!StopPending, Stops
    <3>2. t = languageServer' <=> t = languageServer
      BY <1>4, <2>2, NoServerZero
    <3> QED
      BY <1>1, <1>2, <2>2, <3>1, <3>2 DEF Lives, Alive
  <2> QED
    BY <2>1, <2>2
<1>7. StoppedOnce'
  BY <1>3, <1>4 DEF StoppedOnce, Stops
<1>8. Awaited'
  <2>1. \A a \in Askers : ask'[a].at = "wait" => ask[a] = ask'[a] /\ ask[a].on \in Editor!Servers \ {s}
    <3> SUFFICES ASSUME NEW a \in Askers, ask'[a].at = "wait"
                 PROVE  ask[a] = ask'[a] /\ ask[a].on \in Editor!Servers \ {s}
      OBVIOUS
    <3>1. ask[a] = ask'[a] /\ ask[a].on # s
      BY <1>1, RejectedFacts
    <3>2. ask[a].on \in Editor!Servers \union {0} /\ ask[a].on # 0
      BY <3>1 DEF Awaited, ETyped
    <3> QED
      BY <3>1, <3>2
  <2>2. \A a \in Askers : ask'[a].at = "await" => ask[a].at = "await"
    BY <1>1, RejectedFacts
  <2>3. \A r \in Restarters : restart'[r].at = "await" => restart[r].at = "await"
    BY <1>3 DEF Stops
  <2> QED
    BY <1>1, <1>2, <1>4, <2>1, <2>2, <2>3 DEF Awaited
<1>9. RestartOwed => RestartOwed'
  BY <1>1, <1>3 DEF RestartOwed, Stops, Editor!Resume
<1>10. UpToDateAtRest'
  <2>1. languageServer' # 0 => languageServer' = languageServer /\ languageServer' \in Editor!Servers \ {s}
    BY <1>4
  <2>2. languageServerStarting # 0 => languageServerStarting \in Editor!Servers \ {s}
    BY <1>2 DEF ETyped
  <2> QED
    BY <1>1, <1>2, <1>9, <2>1, <2>2 DEF UpToDateAtRest, UpToDate
<1>11. ToldAll'
  BY <1>1, <1>2, <1>4 DEF ToldAll
<1> QED
  BY <1>5, <1>6, <1>7, <1>8, <1>10, <1>11

(* What the documents' handlers tell the server in use is what they store.  *)
LEMMA TellsKeeps ==
  ASSUME EInv, NEW d \in Documents, NEW version \in Nat, Editor!Edits(d, version),
         server' = Editor!Told(d, version), UNCHANGED languageServerStarting
  PROVE  EInv'
<1> USE DEF EInv
<1>1. /\ open' = [open EXCEPT ![d] = version]
      /\ UNCHANGED <<languageServer, languageServerStarting, restart, ask, build, setting,
                     watch, activated, events>>
  BY DEF Editor!Edits
<1>2. /\ server' \in [Editor!Servers -> ServerObject]
      /\ \A t \in Editor!Servers :
           /\ server'[t].phase = server[t].phase /\ server'[t].process = server[t].process
           /\ server'[t].child = server[t].child /\ server'[t].file = server[t].file
           /\ server'[t].build = server[t].build
      /\ languageServer # 0 =>
           server'[languageServer].told = [server[languageServer].told EXCEPT ![d] = version]
  <2>1. CASE languageServer = 0
    BY <2>1 DEF Editor!Told, Editor!None, ETyped
  <2>2. CASE languageServer # 0
    <3> DEFINE s == languageServer
               one == [server[s] EXCEPT !.told[d] = version]
    <3>1. s \in Editor!Servers /\ server[s] \in ServerObject
      BY <2>2 DEF ETyped
    <3>2. server' = [server EXCEPT ![s] = one]
      BY <2>2 DEF Editor!Told, Editor!None
    <3>3. /\ one \in ServerObject /\ one.phase = server[s].phase
          /\ one.process = server[s].process /\ one.child = server[s].child
          /\ one.file = server[s].file /\ one.build = server[s].build
          /\ one.told = [server[s].told EXCEPT ![d] = version]
      BY <3>1 DEF ServerObject
    <3> HIDE DEF one
    <3> QED
      BY <3>1, <3>2, <3>3 DEF ETyped
  <2> QED
    BY <2>1, <2>2
<1>3. ETyped'
  BY <1>1, <1>2 DEF ETyped
<1>4. Lives' /\ StoppedOnce' /\ UpToDateAtRest'
  <2>1. Lives'
    BY <1>1, <1>2 DEF Lives, Alive, Editor!StopPending
  <2>2. StoppedOnce'
    BY <1>1 DEF StoppedOnce
  <2>3. RestartOwed' <=> RestartOwed
    BY <1>1 DEF RestartOwed
  <2>4. UpToDateAtRest'
    BY <1>1, <1>2, <2>3 DEF UpToDateAtRest, UpToDate, ETyped
  <2> QED
    BY <2>1, <2>2, <2>4
<1>5. Awaited'
  BY <1>1, <1>2 DEF Awaited, ETyped
<1>6. ToldAll'
  BY <1>1, <1>2 DEF ToldAll
<1> QED
  BY <1>3, <1>4, <1>5, <1>6

LEMMA SendsOne ==
  ASSUME ETyped, NEW a \in Askers, Editor!Sends(a)
  PROVE  \E one \in Requests :
            /\ ask' = [ask EXCEPT ![a] = one] /\ one.at # "await"
            /\ one.at = "wait" => one.on = languageServer /\ languageServer # 0
<1>1. CASE languageServer = 0
  <2>1. ask' = [ask EXCEPT ![a] = Editor!Idle]
    BY <1>1 DEF Editor!Sends, Editor!None
  <2> QED
    BY <2>1, IdleTyped
<1>2. CASE languageServer # 0
  <2> DEFINE one == [at |-> "wait", on |-> languageServer]
  <2>1. ask' = [ask EXCEPT ![a] = one]
    BY <1>2 DEF Editor!Sends, Editor!None
  <2>2. one \in Requests /\ one.at = "wait" /\ one.on = languageServer
    BY DEF Requests, ETyped
  <2> HIDE DEF one
  <2> QED
    BY <1>2, <2>1, <2>2
<1> QED
  BY <1>1, <1>2

(* A request that is sent goes to the server in use, and one that has been  *)
(* answered or has timed out is over.                                       *)
LEMMA AskMoves ==
  ASSUME EInv, NEW a \in Askers, Editor!AskResumes(a) \/ Editor!AskSettles(a)
  PROVE  EInv'
<1> USE DEF EInv
<1>1. UNCHANGED <<languageServer, languageServerStarting, server, restart, open, build,
                  setting, watch, activated, events>>
  BY DEF Editor!AskResumes, Editor!AskSettles
<1>2. \E one \in Requests :
         /\ ask' = [ask EXCEPT ![a] = one] /\ one.at # "await"
         /\ one.at = "wait" => one.on = languageServer /\ languageServer # 0
  <2>1. CASE Editor!AskSettles(a)
    BY <2>1, IdleTyped DEF Editor!AskSettles
  <2>2. CASE Editor!AskResumes(a)
    BY <2>2, SendsOne DEF Editor!AskResumes
  <2> QED
    BY <2>1, <2>2
<1>3. ETyped'
  BY <1>1, <1>2 DEF ETyped, Requests
<1>4. Lives' /\ StoppedOnce' /\ UpToDateAtRest' /\ ToldAll'
  <2>1. Lives' /\ StoppedOnce' /\ ToldAll'
    BY <1>1 DEF Lives, Alive, StoppedOnce, ToldAll, Editor!StopPending
  <2>2. UpToDateAtRest'
    BY <1>1 DEF UpToDateAtRest, RestartOwed, UpToDate
  <2> QED
    BY <2>1, <2>2
<1>5. Awaited'
  BY <1>1, <1>2 DEF Awaited, Lives, Alive, ETyped
<1> QED
  BY <1>3, <1>4, <1>5

LEMMA MoreBuilds ==
  ASSUME build \in Builds, NEW file \in Editor!Files
  PROVE  [build EXCEPT ![file] = @ + 1] \in Builds
BY DEF Builds

(* A change of the executable that is watched is owed a restart.            *)
LEMMA WatchMoves ==
  ASSUME EInv, Editor!WatchSees \/ \E file \in Editor!Files : Editor!Rebuilds(file)
  PROVE  EInv'
<1> USE DEF EInv
<1>1. UNCHANGED <<languageServer, languageServerStarting, server, restart, ask, open, setting,
                  activated>>
  BY DEF Editor!WatchSees, Editor!Rebuilds
<1>2. /\ build' \in Builds /\ events' \in Nat
      /\ watch' \in [path : Editor!Files \union {""}, changed : BOOLEAN, timer : BOOLEAN]
      /\ watch'.path = watch.path
      /\ watch.changed \/ watch.timer => watch'.changed \/ watch'.timer
      /\ ~watch'.changed /\ ~watch'.timer => build'[watch.path] = build[watch.path]
  <2>1. CASE Editor!WatchSees
    BY <2>1 DEF Editor!WatchSees, ETyped
  <2>2. ASSUME NEW file \in Editor!Files, Editor!Rebuilds(file)
        PROVE  <1>2
    <3>1. Editor!Happens /\ events \in Nat /\ build \in Builds
      BY <2>2 DEF Editor!Rebuilds, ETyped
    <3>2. events' \in Nat
      BY <3>1 DEF Editor!Happens
    <3>3. build' = [build EXCEPT ![file] = @ + 1] /\ build' \in Builds
      BY <2>2, <3>1, MoreBuilds DEF Editor!Rebuilds
    <3>4. watch' = [watch EXCEPT !.changed = @ \/ watch.path = file]
      BY <2>2 DEF Editor!Rebuilds
    <3>5. file # watch.path => build'[watch.path] = build[watch.path]
      BY <3>1, <3>3 DEF Builds
    <3> QED
      BY <3>2, <3>3, <3>4, <3>5 DEF ETyped
  <2> QED
    BY <2>1, <2>2
<1>3. ETyped'
  BY <1>1, <1>2 DEF ETyped
<1>4. Lives' /\ StoppedOnce' /\ Awaited' /\ ToldAll'
  BY <1>1 DEF Lives, Alive, StoppedOnce, Awaited, ToldAll, Editor!StopPending
<1>5. RestartOwed => RestartOwed'
  BY <1>1, <1>2 DEF RestartOwed
<1>6. UpToDateAtRest'
  <2>1. ~RestartOwed' => build'[watch.path] = build[watch.path]
    BY <1>2 DEF RestartOwed
  <2> QED
    BY <1>1, <1>2, <1>5, <2>1 DEF UpToDateAtRest, UpToDate
<1> QED
  BY <1>3, <1>4, <1>6

(* Whoever stops the server in use takes it out of use at once.             *)
LEMMA StopBegins ==
  ASSUME EInv, NEW r \in Restarters, NEW one \in Restarts, restart[r].at \notin Stops,
         one.at \in Stops, one.on = languageServer, restart' = [restart EXCEPT ![r] = one],
         languageServer # 0, languageServer' = 0, UNCHANGED <<languageServerStarting, server, ask>>
  PROVE  /\ languageServerStarting = 0 /\ restart' \in [Restarters -> Restarts]
         /\ Lives' /\ StoppedOnce' /\ Awaited' /\ UpToDateAtRest' /\ ToldAll'
<1> USE DEF EInv
<1>1. /\ languageServerStarting = 0 /\ languageServer \in Editor!Servers
      /\ restart \in [Restarters -> Restarts]
  BY DEF Awaited, ETyped, Restarts
<1>2. /\ restart' \in [Restarters -> Restarts] /\ restart'[r] = one
      /\ \A q \in Restarters : q # r => restart'[q] = restart[q]
  BY <1>1
<1>3. Lives'
  <2>1. \A t \in Editor!Servers :
          Editor!StopPending(t)' <=> Editor!StopPending(t) \/ t = languageServer
    BY <1>2 DEF Editor!StopPending, Stops
  <2> QED
    BY <1>1, <2>1, NoServerZero DEF Lives, Alive
<1>4. StoppedOnce'
  BY <1>1, <1>2 DEF StoppedOnce
<1>5. Awaited'
  BY <1>1, <1>2 DEF Awaited, Stops
<1>6. UpToDateAtRest' /\ ToldAll'
  BY <1>1 DEF UpToDateAtRest, ToldAll
<1> QED
  BY <1>1, <1>2, <1>3, <1>4, <1>5, <1>6

(* Deactivation begins to stop the server in use, if any.                   *)
LEMMA DeactivateKeeps ==
  ASSUME EInv, Editor!Deactivate
  PROVE  EInv'
<1> USE DEF EInv
<1>1. /\ UNCHANGED <<languageServerStarting, server, ask, open, build, setting, events>>
      /\ activated' = FALSE
      /\ watch' = [path |-> "", changed |-> FALSE, timer |-> FALSE]
  BY DEF Editor!Deactivate
<1>2. \/ UNCHANGED <<restart, languageServer>>
      \/ /\ languageServer # 0 /\ languageServer' = 0
         /\ \E r \in Restarters : \E one \in Restarts :
              /\ restart[r] = Editor!Idle /\ one.at = "quit" /\ one.on = languageServer
              /\ restart' = [restart EXCEPT ![r] = one]
  <2>1. languageServer # 0 => [at |-> "quit", on |-> languageServer] \in Restarts
    BY DEF ETyped, Restarts, Stops
  <2> QED
    BY <2>1 DEF Editor!Deactivate, Editor!None
<1>3. UpToDateAtRest'
  BY <1>1 DEF UpToDateAtRest
<1>4. CASE UNCHANGED <<restart, languageServer>>
  <2>1. ETyped'
    BY <1>1, <1>4 DEF ETyped
  <2>2. Lives' /\ StoppedOnce'
    <3>1. \A t \in Editor!Servers : Editor!StopPending(t)' <=> Editor!StopPending(t)
      BY <1>4 DEF Editor!StopPending
    <3>2. StoppedOnce'
      BY <1>4 DEF StoppedOnce
    <3> QED
      BY <1>1, <1>4, <3>1, <3>2 DEF Lives, Alive
  <2>3. Awaited' /\ ToldAll'
    BY <1>1, <1>4 DEF Awaited, ToldAll
  <2> QED
    BY <1>3, <2>1, <2>2, <2>3
<1>5. ASSUME NEW r \in Restarters, NEW one \in Restarts, restart[r] = Editor!Idle,
             one.at \in Stops, one.on = languageServer, restart' = [restart EXCEPT ![r] = one],
             languageServer # 0, languageServer' = 0
      PROVE  EInv'
  <2>1. /\ restart[r].at \notin Stops
        /\ UNCHANGED <<languageServerStarting, server, ask, open, build, setting, events>>
    BY <1>1, <1>5, IdleTyped DEF Stops
  <2>2. /\ restart' \in [Restarters -> Restarts]
        /\ Lives' /\ StoppedOnce' /\ Awaited' /\ ToldAll'
    BY <1>5, <2>1, StopBegins
  <2> QED
    BY <1>1, <1>3, <1>5, <2>1, <2>2 DEF ETyped, Restarts
<1> QED
  BY <1>2, <1>4, <1>5 DEF Stops

(* A start leaves the one under way alone, or makes one when no server is   *)
(* in use; while the settings allow a server there is one to wait for.      *)
StartDone(servers, chosen, present) ==
  /\ server' \in [Editor!Servers -> ServerObject]
  /\ languageServerStarting' \in Editor!Servers \union {0}
  /\ languageServer = 0 /\ chosen.enabled => languageServerStarting' # 0
  /\ \/ server' = servers /\ languageServerStarting' = languageServerStarting
     \/ /\ languageServer = 0 /\ languageServerStarting = 0
        /\ LET s == languageServerStarting'
           IN  /\ s # 0 /\ server[s].phase = "unused"
               /\ server'[s].phase = "starting" /\ server'[s].process = "spawning"
               /\ server'[s].child /\ Made(s, chosen, present)
               /\ \A t \in Editor!Servers : t # s => server'[t] = servers[t]

LEMMA StartIsDone ==
  ASSUME EInv, NEW chosen \in Settings, NEW present \in Builds,
         NEW servers \in [Editor!Servers -> ServerObject],
         Editor!StartLanguageServer(servers, chosen, present)
  PROVE  StartDone(servers, chosen, present)
<1> USE DEF EInv
<1>1. server' \in [Editor!Servers -> ServerObject]
  BY StartFacts
<1>2. CASE /\ server' = servers /\ languageServerStarting' = languageServerStarting
           /\ ~Editor!MustStart(chosen)
  BY <1>1, <1>2 DEF StartDone, Editor!MustStart, Editor!None, ETyped
<1>3. CASE \E s \in Editor!Servers : StartsOne(servers, s, chosen, present)
  BY <1>1, <1>3, NoServerZero DEF StartsOne, StartDone
<1> QED
  BY <1>2, <1>3, StartFacts

(* A start and nothing else: the first document, or the body of a restart.  *)
LEMMA StartOnlyKeeps ==
  ASSUME EInv, NEW chosen \in Settings, NEW present \in Builds,
         StartDone(server, chosen, present), UNCHANGED <<languageServer, restart>>
  PROVE  /\ Lives' /\ StoppedOnce'
         /\ languageServerStarting' # 0 => languageServer = 0
         /\ languageServerStarting # 0 => languageServerStarting' # 0
         /\ \A t \in Editor!Servers : server[t].phase = "up" => server'[t] = server[t]
<1> USE DEF EInv
<1>1. CASE UNCHANGED <<server, languageServerStarting>>
  BY <1>1 DEF Lives, Alive, StoppedOnce, Awaited, Editor!StopPending
<1>2. CASE ~UNCHANGED <<server, languageServerStarting>>
  <2> DEFINE s == languageServerStarting'
  <2>1. /\ languageServer = 0 /\ languageServerStarting = 0 /\ s \in Editor!Servers
        /\ server[s].phase = "unused" /\ server'[s].phase = "starting"
        /\ server'[s].process = "spawning" /\ server'[s].child
        /\ \A t \in Editor!Servers : t # s => server'[t] = server[t]
    BY <1>2 DEF StartDone
  <2>2. Lives'
    BY <2>1, NoServerZero DEF Lives, Alive, Editor!StopPending
  <2>3. StoppedOnce'
    BY DEF StoppedOnce
  <2> QED
    BY <2>1, <2>2, <2>3
<1> QED
  BY <1>1, <1>2

(* What a start makes runs the settings and the build in force.             *)
LEMMA StartUpToDate ==
  ASSUME EInv, StartDone(server, setting, build), Editor!Settled,
         UNCHANGED <<languageServer, restart, build, setting, watch, activated>>
  PROVE  UpToDateAtRest'
<1> USE DEF EInv
<1>1. RestartOwed => RestartOwed'
  BY DEF RestartOwed, Editor!Settled
<1>2. CASE UNCHANGED <<server, languageServerStarting>>
  BY <1>1, <1>2 DEF UpToDateAtRest, UpToDate
<1>3. CASE ~UNCHANGED <<server, languageServerStarting>>
  <2>1. languageServer = 0 /\ Made(languageServerStarting', setting, build)
    BY <1>3 DEF StartDone
  <2>2. UpToDate(languageServerStarting)'
    BY <2>1 DEF UpToDate, Made
  <2> QED
    BY <2>1, <2>2 DEF UpToDateAtRest
<1> QED
  BY <1>2, <1>3

LEMMA OpenDocumentKeeps ==
  ASSUME EInv, NEW d \in Documents, Editor!OpenDocument(d), languageServer = 0
  PROVE  EInv'
<1> USE DEF EInv
<1>1. /\ UNCHANGED <<languageServer, restart, ask, build, setting, watch, activated, events>>
      /\ open' = [open EXCEPT ![d] = 1]
      /\ Editor!StartLanguageServer(server, setting, build) /\ Editor!Settled
  BY DEF Editor!OpenDocument, Editor!Edits, Editor!None
<1>2. /\ setting \in Settings /\ build \in Builds
      /\ server \in [Editor!Servers -> ServerObject]
  BY DEF ETyped
<1>3. StartDone(server, setting, build)
  BY <1>1, <1>2, StartIsDone
<1>4. ETyped'
  BY <1>1, <1>3 DEF ETyped, StartDone
<1>5. Lives' /\ StoppedOnce' /\ Awaited'
  BY <1>1, <1>2, <1>3, StartOnlyKeeps DEF Awaited, ETyped
<1>6. UpToDateAtRest' /\ ToldAll'
  BY <1>1, <1>3, StartUpToDate DEF ToldAll
<1> QED
  BY <1>4, <1>5, <1>6

LEMMA AsksKeeps ==
  ASSUME EInv, NEW a \in Askers, Editor!Asks(a)
  PROVE  EInv'
<1> USE DEF EInv
<1>1. /\ UNCHANGED <<languageServer, restart, open, build, setting, watch, activated, events>>
      /\ Editor!StartLanguageServer(server, setting, build) /\ Editor!Settled
      /\ IF languageServer = 0 /\ setting.enabled
         THEN ask' = [ask EXCEPT ![a] = [at |-> "await", on |-> 0]]
         ELSE Editor!Sends(a)
  BY DEF Editor!Asks, Editor!None
<1>2. /\ setting \in Settings /\ build \in Builds
      /\ server \in [Editor!Servers -> ServerObject]
  BY DEF ETyped
<1>3. StartDone(server, setting, build)
  BY <1>1, <1>2, StartIsDone
<1>4. \E one \in Requests :
         /\ ask' = [ask EXCEPT ![a] = one]
         /\ one.at = "await" => languageServerStarting' # 0
         /\ one.at = "wait" => one.on = languageServer /\ languageServer # 0
  <2>1. CASE languageServer = 0 /\ setting.enabled
    <3> DEFINE one == [at |-> "await", on |-> 0]
    <3>1. one \in Requests /\ one.at = "await"
      BY DEF Requests
    <3>2. ask' = [ask EXCEPT ![a] = one] /\ languageServerStarting' # 0
      BY <1>1, <1>3, <2>1 DEF StartDone
    <3> HIDE DEF one
    <3> QED
      BY <3>1, <3>2
  <2>2. CASE ~(languageServer = 0 /\ setting.enabled)
    BY <1>1, <2>2, SendsOne
  <2> QED
    BY <2>1, <2>2
<1>5. ETyped'
  <2>1. ask' \in [Askers -> Requests]
    BY <1>4 DEF ETyped, Requests
  <2> QED
    BY <1>1, <1>3, <2>1 DEF ETyped, StartDone, Requests
<1>6. \A t \in Editor!Servers : server[t].phase = "up" => server'[t] = server[t]
  BY <1>1, <1>2, <1>3, StartOnlyKeeps
<1>7. Lives' /\ StoppedOnce' /\ Awaited'
  <2>1. Lives' /\ StoppedOnce'
    BY <1>1, <1>2, <1>3, StartOnlyKeeps
  <2>2. /\ languageServerStarting' # 0 => languageServer = 0
        /\ languageServerStarting # 0 => languageServerStarting' # 0
    BY <1>1, <1>2, <1>3, StartOnlyKeeps
  <2>3. \A b \in Askers : ask'[b].at = "wait" =>
          ask'[b].on # 0 /\ ask'[b].on \in Editor!Servers /\ server[ask'[b].on].phase = "up"
    <3>1. \A b \in Askers : ask[b].at = "wait" =>
            ask[b].on # 0 /\ ask[b].on \in Editor!Servers /\ server[ask[b].on].phase = "up"
      BY DEF Awaited, ETyped
    <3>2. languageServer # 0 =>
            languageServer \in Editor!Servers /\ server[languageServer].phase = "up"
      BY DEF ETyped, Lives, Alive
    <3>3. PICK one \in Requests :
             /\ ask' = [ask EXCEPT ![a] = one]
             /\ one.at = "wait" => one.on = languageServer /\ languageServer # 0
      BY <1>4
    <3>4. \A b \in Askers : ask'[b] = one \/ ask'[b] = ask[b]
      BY <3>3 DEF ETyped
    <3> QED
      BY <3>1, <3>2, <3>3, <3>4
  <2>4. \A b \in Askers : ask'[b].at = "await" => languageServerStarting' # 0
    BY <1>4, <2>2 DEF Awaited, ETyped
  <2>5. \A b \in Askers : ask'[b].at = "wait" => server'[ask'[b].on].phase = "up"
    BY <1>6, <2>3
  <2> QED
    BY <1>1, <2>1, <2>2, <2>3, <2>4, <2>5 DEF Awaited
<1>8. UpToDateAtRest'
  BY <1>1, <1>3, StartUpToDate
<1>9. ToldAll'
  BY <1>1, <1>6 DEF ToldAll, ETyped, Lives, Alive
<1> QED
  BY <1>5, <1>7, <1>8, <1>9

-----------------------------------------------------------------------------
(* Restarts.                                                                *)

(* After the body of a restart no server is in use: the one there was is    *)
(* being stopped, and one that starts was made for this restart or is the   *)
(* start already under way.                                                 *)
BodyDone(chosen, present) ==
  /\ languageServer' = 0 /\ restart' \in [Restarters -> Restarts]
  /\ server' \in [Editor!Servers -> ServerObject]
  /\ languageServerStarting' \in Editor!Servers \union {0}
  /\ Lives' /\ StoppedOnce' /\ Awaited' /\ ToldAll'
  /\ languageServerStarting # 0 =>
       languageServerStarting' = languageServerStarting /\ server' = server
  /\ languageServerStarting = 0 /\ languageServerStarting' # 0 =>
       Made(languageServerStarting', chosen, present)

LEMMA RestartBodyIsDone ==
  ASSUME EInv, NEW r \in Restarters, NEW chosen \in Settings, NEW present \in Builds,
         restart[r] \in {Editor!Idle, Editor!Resume},
         Editor!RestartBody(r, chosen, present), ask' = ask
  PROVE  BodyDone(chosen, present)
<1> USE DEF EInv
<1>0. /\ restart[r].at \notin Stops \union {"await"} /\ server \in [Editor!Servers -> ServerObject]
      /\ restart \in [Restarters -> Restarts]
  <2>1. restart[r].at \notin Stops \union {"await"}
    BY DEF Editor!Idle, Editor!Resume, Stops
  <2> QED
    BY <2>1 DEF ETyped, Restarts
<1>1. CASE languageServer # 0
  <2> DEFINE one == [at |-> "stop", on |-> languageServer]
  <2>1. one \in Restarts /\ one.at \in Stops /\ one.on = languageServer
    BY DEF ETyped, Restarts, Stops
  <2>2. /\ restart' = [restart EXCEPT ![r] = one] /\ languageServer' = 0
        /\ UNCHANGED <<languageServerStarting, server, ask>>
    BY <1>1 DEF Editor!RestartBody, Editor!None
  <2> HIDE DEF one
  <2>3. /\ languageServerStarting = 0 /\ restart' \in [Restarters -> Restarts]
        /\ Lives' /\ StoppedOnce' /\ Awaited' /\ ToldAll'
    BY <1>0, <1>1, <2>1, <2>2, StopBegins
  <2> QED
    BY <1>0, <2>2, <2>3 DEF BodyDone
<1>2. CASE languageServer = 0
  <2>1. /\ restart' = [restart EXCEPT ![r] = Editor!Idle] /\ languageServer' = 0
        /\ Editor!StartLanguageServer(server, chosen, present)
    BY <1>2 DEF Editor!RestartBody, Editor!None
  <2>2. StartDone(server, chosen, present)
    BY <1>0, <2>1, StartIsDone
  <2>3. /\ restart' \in [Restarters -> Restarts]
        /\ \A q \in Restarters : restart'[q].at \in Stops \union {"await"} => restart'[q] = restart[q]
        /\ \A q \in Restarters : restart[q].at \in Stops => restart'[q] = restart[q]
    BY <1>0, <2>1, IdleTyped DEF Stops
  <2>4. \A t \in Editor!Servers : Editor!StopPending(t)' <=> Editor!StopPending(t)
    BY <2>3 DEF Editor!StopPending, Stops
  <2>5. CASE server' = server /\ languageServerStarting' = languageServerStarting
    <3>1. Lives'
      BY <1>2, <2>1, <2>4, <2>5 DEF Lives, Alive
    <3>2. StoppedOnce' /\ Awaited' /\ ToldAll'
      BY <1>2, <2>1, <2>3, <2>5 DEF StoppedOnce, Awaited, ToldAll
    <3> QED
      BY <1>0, <2>1, <2>3, <2>5, <3>1, <3>2 DEF BodyDone, ETyped
  <2>6. CASE ~(server' = server /\ languageServerStarting' = languageServerStarting)
    <3> DEFINE s == languageServerStarting'
    <3>1. /\ languageServerStarting = 0 /\ s \in Editor!Servers /\ s # 0
          /\ server[s].phase = "unused" /\ server'[s].phase = "starting"
          /\ server'[s].process = "spawning" /\ server'[s].child /\ Made(s, chosen, present)
          /\ \A t \in Editor!Servers : t # s => server'[t] = server[t]
      BY <2>2, <2>6 DEF StartDone
    <3>2. Lives'
      <4> SUFFICES ASSUME NEW t \in Editor!Servers PROVE Alive(t)'
        BY DEF Lives
      <4>1. CASE t = s
        BY <1>2, <2>1, <2>4, <3>1, <4>1 DEF Lives, Alive
      <4>2. CASE t # s
        BY <1>2, <2>1, <2>4, <3>1, <4>2, NoServerZero DEF Lives, Alive
      <4> QED
        BY <4>1, <4>2
    <3>3. StoppedOnce' /\ ToldAll'
      BY <1>2, <2>1, <2>3 DEF StoppedOnce, ToldAll
    <3>4. Awaited'
      <4>1. \A a \in Askers : ask[a].at = "wait" => ask[a].on \in Editor!Servers \ {s}
        BY <3>1 DEF Awaited, ETyped
      <4> QED
        BY <2>1, <3>1, <4>1 DEF Awaited
    <3> QED
      BY <2>1, <2>2, <2>3, <3>1, <3>2, <3>3, <3>4 DEF BodyDone, StartDone
  <2> QED
    BY <2>5, <2>6
<1> QED
  BY <1>1, <1>2

(* A restart that resumes after the start it waited for.                    *)
LEMMA RestartResumesKeeps ==
  ASSUME EInv, NEW r \in Restarters, Editor!RestartResumes(r)
  PROVE  EInv'
<1> USE DEF EInv
<1>1. /\ UNCHANGED <<ask, open, build, setting, watch, activated, events>>
      /\ setting \in Settings /\ build \in Builds
  BY DEF Editor!RestartResumes, ETyped
<1>2. BodyDone(setting, build)
  BY <1>1, RestartBodyIsDone DEF Editor!RestartResumes
<1>3. ETyped'
  BY <1>1, <1>2 DEF ETyped, BodyDone, Restarts
<1>4. UpToDateAtRest'
  <2>1. CASE languageServerStarting' # 0 /\ languageServerStarting = 0
    <3>1. Made(languageServerStarting', setting, build) /\ languageServer' = 0
      BY <1>2, <2>1 DEF BodyDone
    <3> QED
      BY <1>1, <3>1 DEF UpToDateAtRest, UpToDate, Made
  <2>2. CASE languageServerStarting' # 0 /\ languageServerStarting # 0
    <3>1. /\ languageServerStarting' = languageServerStarting /\ server' = server
          /\ languageServer' = 0
      BY <1>2, <2>2 DEF BodyDone
    <3>2. \A q \in Restarters : q # r => restart'[q] = restart[q]
      BY DEF Editor!RestartResumes, Editor!RestartBody, ETyped
    <3>3. restart[r].at # "await"
      BY DEF Editor!RestartResumes, Editor!Resume
    <3>4. RestartOwed => RestartOwed'
      BY <1>1, <2>2, <3>2, <3>3 DEF RestartOwed
    <3> QED
      BY <1>1, <3>1, <3>4 DEF UpToDateAtRest, UpToDate
  <2>3. CASE languageServerStarting' = 0
    BY <1>2, <2>3 DEF BodyDone, UpToDateAtRest
  <2> QED
    BY <2>1, <2>2, <2>3
<1> QED
  BY <1>2, <1>3, <1>4 DEF BodyDone

(* A restart that is asked for: it waits for the start under way, or no     *)
(* server of before is in use or starting any more.                         *)
LEMMA RestartIsDone ==
  ASSUME EInv, NEW chosen \in Settings, NEW present \in Builds,
         Editor!RestartLanguageServer(chosen, present), ask' = ask
  PROVE  \/ /\ \E r \in Restarters : restart'[r].at = "await"
            /\ restart' \in [Restarters -> Restarts]
            /\ UNCHANGED <<server, languageServer, languageServerStarting>>
            /\ Lives' /\ StoppedOnce' /\ Awaited'
         \/ languageServerStarting = 0 /\ BodyDone(chosen, present)
<1> USE DEF EInv
<1>1. PICK r \in Restarters :
         /\ restart[r] = Editor!Idle
         /\ IF Editor!MustAwaitStart
            THEN /\ restart' = [restart EXCEPT ![r] = [at |-> "await", on |-> Editor!None]]
                 /\ UNCHANGED <<server, languageServer, languageServerStarting>>
            ELSE Editor!RestartBody(r, chosen, present)
  BY DEF Editor!RestartLanguageServer
<1>2. CASE languageServerStarting = 0
  <2>1. Editor!RestartBody(r, chosen, present)
    BY <1>1, <1>2 DEF Editor!MustAwaitStart, Editor!None
  <2> QED
    BY <1>1, <1>2, <2>1, RestartBodyIsDone
<1>3. CASE languageServerStarting # 0
  <2> DEFINE one == [at |-> "await", on |-> 0]
  <2>1. one \in Restarts /\ one.at = "await" /\ one.at \notin Stops
    BY DEF Restarts, Stops
  <2>2. /\ restart' = [restart EXCEPT ![r] = one]
        /\ UNCHANGED <<server, languageServer, languageServerStarting>>
    BY <1>1, <1>3 DEF Editor!MustAwaitStart, Editor!None
  <2> HIDE DEF one
  <2>3. /\ restart[r].at \notin Stops /\ restart' \in [Restarters -> Restarts]
        /\ restart'[r] = one /\ \A q \in Restarters : q # r => restart'[q] = restart[q]
    BY <1>1, <2>1, <2>2, IdleTyped DEF ETyped, Restarts, Stops
  <2>4. \A t \in Editor!Servers : Editor!StopPending(t)' <=> Editor!StopPending(t)
    BY <2>1, <2>3 DEF Editor!StopPending, Stops
  <2>5. Lives'
    BY <2>2, <2>4 DEF Lives, Alive
  <2>6. StoppedOnce' /\ Awaited'
    BY <1>3, <2>1, <2>2, <2>3 DEF StoppedOnce, Awaited
  <2> QED
    BY <2>1, <2>2, <2>3, <2>5, <2>6
<1> QED
  BY <1>2, <1>3

(* The commands, the timer and the settings: all end in a restart, made     *)
(* under the settings and the builds after the step.                        *)
LEMMA RestartKeeps ==
  ASSUME EInv, setting' \in Settings, build' \in Builds,
         watch' \in [path : Editor!Files \union {""}, changed : BOOLEAN, timer : BOOLEAN],
         activated' \in BOOLEAN, events' \in Nat, UNCHANGED <<ask, open>>,
         \/ /\ \E r \in Restarters : restart'[r].at = "await"
            /\ restart' \in [Restarters -> Restarts]
            /\ UNCHANGED <<server, languageServer, languageServerStarting>>
            /\ Lives' /\ StoppedOnce' /\ Awaited'
         \/ languageServerStarting = 0 /\ BodyDone(setting', build')
  PROVE  EInv'
<1> USE DEF EInv
<1>1. CASE /\ \E r \in Restarters : restart'[r].at = "await"
           /\ restart' \in [Restarters -> Restarts]
           /\ UNCHANGED <<server, languageServer, languageServerStarting>>
           /\ Lives' /\ StoppedOnce' /\ Awaited'
  <2>1. ETyped'
    BY <1>1 DEF ETyped, Restarts
  <2>2. UpToDateAtRest' /\ ToldAll'
    BY <1>1 DEF UpToDateAtRest, RestartOwed, ToldAll
  <2> QED
    BY <1>1, <2>1, <2>2
<1>2. CASE languageServerStarting = 0 /\ BodyDone(setting', build')
  <2>1. ETyped'
    BY <1>2 DEF ETyped, BodyDone, Restarts
  <2>2. UpToDateAtRest'
    BY <1>2 DEF UpToDateAtRest, UpToDate, BodyDone, Made
  <2> QED
    BY <1>2, <2>1, <2>2 DEF BodyDone
<1> QED
  BY <1>1, <1>2

LEMMA HappensTyped ==
  ASSUME events \in Nat, Editor!Happens
  PROVE  events' \in Nat
BY DEF Editor!Happens

LEMMA RestartingKeeps ==
  ASSUME EInv,
         \/ Editor!TimerFires \/ Editor!RestartCommand \/ Editor!SettingsChange
         \/ Editor!InstallVm
  PROVE  EInv'
<1> USE DEF EInv
<1>1. /\ setting \in Settings /\ build \in Builds /\ events \in Nat /\ activated \in BOOLEAN
      /\ watch \in [path : Editor!Files \union {""}, changed : BOOLEAN, timer : BOOLEAN]
  BY DEF ETyped
<1>2. \A executable \in {"", "managed"}, present \in Builds :
        Editor!WatchPath(executable, present) \in Editor!Files \union {""}
  BY DEF Editor!WatchPath, Editor!LanguageServerExecutable, Editor!Files
<1>3. /\ setting' \in Settings /\ build' \in Builds /\ events' \in Nat /\ activated' \in BOOLEAN
      /\ watch' \in [path : Editor!Files \union {""}, changed : BOOLEAN, timer : BOOLEAN]
      /\ UNCHANGED <<ask, open>> /\ Editor!RestartLanguageServer(setting', build')
  <2>1. CASE Editor!TimerFires
    BY <1>1, <2>1 DEF Editor!TimerFires
  <2>2. CASE Editor!RestartCommand
    <3>1. Editor!Happens
      BY <2>2 DEF Editor!RestartCommand
    <3> QED
      BY <1>1, <2>2, <3>1, HappensTyped DEF Editor!RestartCommand
  <2>3. CASE Editor!SettingsChange
    <3>1. Editor!Happens /\ UNCHANGED <<ask, open, build, activated>>
      BY <2>3 DEF Editor!SettingsChange
    <3>2. PICK new \in Settings :
             /\ setting' = new
             /\ watch' = [path |-> Editor!WatchPath(new.executable, build), changed |-> FALSE,
                          timer |-> FALSE]
             /\ Editor!RestartLanguageServer(new, build)
      BY <2>3 DEF Editor!SettingsChange, Settings
    <3>3. new.executable \in {"", "managed"}
      BY DEF Settings
    <3>4. Editor!WatchPath(new.executable, build) \in Editor!Files \union {""}
      BY <1>1, <1>2, <3>3
    <3>5. watch' \in [path : Editor!Files \union {""}, changed : BOOLEAN, timer : BOOLEAN]
      BY <3>2, <3>4
    <3>6. Editor!RestartLanguageServer(setting', build')
      BY <3>1, <3>2
    <3> QED
      BY <1>1, <3>1, <3>2, <3>5, <3>6, HappensTyped
  <2>4. CASE Editor!InstallVm
    <3>1. "managed" \in Editor!Files
      BY DEF Editor!Files
    <3>2. build' \in Builds
      BY <1>1, <2>4, <3>1, MoreBuilds DEF Editor!InstallVm
    <3> QED
      <4>1. Editor!Happens
        BY <2>4 DEF Editor!InstallVm
      <4> QED
        BY <1>1, <2>4, <3>2, <4>1, HappensTyped DEF Editor!InstallVm
  <2> QED
    BY <2>1, <2>2, <2>3, <2>4
<1> QED
  BY <1>3, RestartIsDone, RestartKeeps

LEMMA StopReturnsKeeps ==
  ASSUME EInv, NEW r \in Restarters, Editor!StopReturns(r)
  PROVE  EInv'
<1> USE DEF EInv
<1> DEFINE s == restart[r].on
           servers == [server EXCEPT ![s] = Editor!Disposed(s)]
<1>1. /\ UNCHANGED <<languageServer, open, build, setting, watch, activated, events>>
      /\ ask' = Editor!Rejected(s) /\ restart' = [restart EXCEPT ![r] = Editor!Idle]
      /\ restart[r].at \in Stops /\ Editor!Settled
      /\ IF restart[r].at = "stop" THEN Editor!StartLanguageServer(servers, setting, build)
         ELSE server' = servers /\ UNCHANGED languageServerStarting
  BY DEF Editor!StopReturns, Stops
<1>2. /\ setting \in Settings /\ build \in Builds
      /\ restart \in [Restarters -> Restarts] /\ server \in [Editor!Servers -> ServerObject]
  BY DEF ETyped, Restarts
<1>3. s \in Editor!Servers /\ s # 0 /\ s # languageServer
  BY <1>1, <1>2 DEF StoppedOnce, Restarts
<1>4. server[s].phase = "up" /\ s # languageServerStarting
  BY <1>1, <1>3 DEF Lives, Alive, Editor!StopPending, Stops
<1>5. /\ servers \in [Editor!Servers -> ServerObject]
      /\ servers[s].phase = "unused" /\ ~servers[s].child /\ servers[s].process \in {"none", "leaving"}
      /\ \A t \in Editor!Servers : t # s => servers[t] = server[t]
  BY <1>2, <1>3, DisposedTyped
<1> HIDE DEF servers
<1>6. \/ StartDone(servers, setting, build)
      \/ server' = servers /\ languageServerStarting' = languageServerStarting
  BY <1>1, <1>2, <1>5, StartIsDone
<1>7. /\ restart' \in [Restarters -> Restarts] /\ restart'[r].at = "idle"
      /\ \A q \in Restarters : q # r => restart'[q] = restart[q]
  BY <1>1, <1>2, IdleTyped
<1> HIDE DEF s
(* The table after a stop keeps the promises; a start then adds to it.      *)
<1>8. /\ server' \in [Editor!Servers -> ServerObject]
      /\ languageServerStarting' \in Editor!Servers \union {0}
      /\ \/ server' = servers /\ languageServerStarting' = languageServerStarting
         \/ /\ languageServer = 0 /\ languageServerStarting = 0
            /\ languageServerStarting' \in Editor!Servers \ {0, s}
            /\ server[languageServerStarting'].phase = "unused"
            /\ server'[languageServerStarting'].phase = "starting"
            /\ server'[languageServerStarting'].process = "spawning"
            /\ server'[languageServerStarting'].child
            /\ Made(languageServerStarting', setting, build)
            /\ \A t \in Editor!Servers : t # languageServerStarting' => server'[t] = servers[t]
  BY <1>4, <1>5, <1>6 DEF StartDone, ETyped
<1>9. \A t \in Editor!Servers : Editor!StopPending(t)' <=> Editor!StopPending(t) /\ t # s
  <2>1. \A q \in Restarters : restart[q].at \in Stops /\ restart[q].on = s => q = r
    BY <1>1 DEF StoppedOnce, s
  <2>2. restart[r].on = s
    BY DEF s
  <2> QED
    BY <1>7, <2>1, <2>2 DEF Editor!StopPending, Stops
<1>10. ETyped'
  BY <1>1, <1>3, <1>7, <1>8, RejectedFacts DEF ETyped, Requests, Restarts
<1>11. Lives'
  <2> SUFFICES ASSUME NEW t \in Editor!Servers PROVE Alive(t)'
    BY DEF Lives
  <2>1. Alive(t)
    BY DEF Lives
  <2>2. CASE t = s
    BY <1>1, <1>3, <1>4, <1>5, <1>8, <1>9, <2>2 DEF Alive
  <2>3. CASE t # s /\ t = languageServerStarting' /\ languageServerStarting = 0
    BY <1>1, <1>8, <1>9, <2>1, <2>3, NoServerZero DEF Alive
  <2>4. CASE t # s /\ ~(t = languageServerStarting' /\ languageServerStarting = 0)
    <3>1. server'[t] = server[t] /\ (t = languageServerStarting' <=> t = languageServerStarting)
      BY <1>5, <1>8, <2>4, NoServerZero
    <3> QED
      BY <1>1, <1>9, <2>1, <2>4, <3>1 DEF Alive
  <2> QED
    BY <2>2, <2>3, <2>4
<1>12. StoppedOnce'
  BY <1>1, <1>7 DEF StoppedOnce, Stops
<1>13. Awaited'
  <2>1. \A a \in Askers : ask'[a].at = "wait" =>
           ask'[a].on # 0 /\ ask'[a].on \in Editor!Servers \ {s} /\ server[ask'[a].on].phase = "up"
    <3> SUFFICES ASSUME NEW a \in Askers, ask'[a].at = "wait"
                 PROVE  /\ ask'[a].on # 0 /\ ask'[a].on \in Editor!Servers \ {s}
                        /\ server[ask'[a].on].phase = "up"
      OBVIOUS
    <3>1. ask[a] = ask'[a] /\ ask[a].on # s /\ ask[a].at = "wait"
      BY <1>1, <1>3, RejectedFacts
    <3>2. /\ ask[a].on \in Editor!Servers \union {0} /\ ask[a].on # 0
          /\ server[ask[a].on].phase = "up"
      BY <3>1 DEF Awaited, ETyped
    <3> QED
      BY <3>1, <3>2
  <2>2. \A a \in Askers : ask'[a].at = "await" => languageServerStarting # 0
    BY <1>1, <1>3, RejectedFacts DEF Awaited
  <2>3. \A t \in Editor!Servers \ {s} : server[t].phase = "up" => server'[t].phase = "up"
    BY <1>5, <1>8
  <2> QED
    BY <1>1, <1>7, <1>8, <2>1, <2>2, <2>3 DEF Awaited
<1>14. UpToDateAtRest'
  <2>1. CASE languageServerStarting' = languageServerStarting /\ server' = servers
    <3>1. RestartOwed => RestartOwed'
      BY <1>1, <1>7, <2>1 DEF RestartOwed, Stops, Editor!Settled
    <3>2. \A t \in {languageServer, languageServerStarting} \ {0} : server'[t] = server[t]
      BY <1>3, <1>4, <1>5, <2>1 DEF ETyped
    <3> QED
      BY <1>1, <2>1, <3>1, <3>2 DEF UpToDateAtRest, UpToDate
  <2>2. CASE languageServer = 0 /\ Made(languageServerStarting', setting, build)
    BY <1>1, <2>2 DEF UpToDateAtRest, UpToDate, Made
  <2> QED
    BY <1>8, <2>1, <2>2
<1>15. ToldAll'
  <2>1. languageServer # 0 => server'[languageServer] = server[languageServer]
    BY <1>3, <1>5, <1>8 DEF ETyped
  <2> QED
    BY <1>1, <2>1 DEF ToldAll
<1> QED
  BY <1>10, <1>11, <1>12, <1>13, <1>14, <1>15

LEMMA EditorBegins ==
  ASSUME Editor!Init
  PROVE  EInv
<1>1. ETyped
  <2>1. build \in Builds /\ setting \in Settings
    BY DEF Editor!Init, Builds, Settings
  <2>2. Editor!WatchPath("", build) \in Editor!Files \union {""}
    BY DEF Editor!WatchPath, Editor!LanguageServerExecutable, Editor!Files
  <2>3. /\ server \in [Editor!Servers -> ServerObject]
        /\ restart \in [Restarters -> Restarts] /\ ask \in [Askers -> Requests]
    BY UnusedTyped, IdleTyped DEF Editor!Init
  <2> QED
    BY <2>1, <2>2, <2>3 DEF Editor!Init, Editor!None, ETyped, Restarts, Requests
<1>2. /\ \A s \in Editor!Servers : /\ server[s].phase = "unused" /\ ~server[s].child
                                  /\ server[s].process = "none"
      /\ \A r \in Restarters : restart[r].at = "idle"
      /\ \A a \in Askers : ask[a].at = "idle"
      /\ languageServer = 0 /\ languageServerStarting = 0
  BY DEF Editor!Init, Editor!Unused, Editor!Idle, Editor!None
<1>3. Lives /\ StoppedOnce /\ Awaited /\ UpToDateAtRest /\ ToldAll
  BY <1>2, NoServerZero DEF Lives, Alive, StoppedOnce, Awaited, UpToDateAtRest, ToldAll,
     Editor!StopPending, Stops
<1> QED
  BY <1>1, <1>3 DEF EInv

LEMMA ServerStepKeeps ==
  ASSUME EInv, NEW s \in Editor!Servers, Editor!ServerSteps(s)
  PROVE  EInv'
<1>1. CASE Editor!Spawned(s) \/ Editor!Crashes(s) \/ Editor!Leaves(s)
  BY <1>1, ProcessMoves
<1>2. CASE Editor!InitializeAnswered(s)
  BY <1>2, InitializeAnsweredKeeps
<1>3. CASE Editor!SpawnFails(s) \/ Editor!InitializeTimesOut(s)
  <2>1. server[s].phase = "starting"
    BY <1>3 DEF EInv, Editor!SpawnFails, Editor!InitializeTimesOut, ETyped, Lives, Alive,
       ServerObject
  <2>2. s = languageServerStarting
    BY <2>1 DEF EInv, Lives, Alive
  <2> QED
    BY <1>3, <2>2, StartFailsKeeps DEF Editor!SpawnFails, Editor!InitializeTimesOut
<1>4. CASE Editor!Closes(s)
  <2>1. CASE server[s].phase = "starting"
    <3>1. s = languageServerStarting
      BY <2>1 DEF EInv, Lives, Alive
    <3> QED
      BY <1>4, <2>1, <3>1, StartFailsKeeps DEF Editor!Closes
  <2> QED
    BY <1>4, <2>1, ClosesKeeps
<1> QED
  BY <1>1, <1>2, <1>3, <1>4 DEF Editor!ServerSteps

LEMMA DocumentStepKeeps ==
  ASSUME EInv, NEW d \in Documents,
         Editor!OpenDocument(d) \/ Editor!ChangeDocument(d) \/ Editor!CloseDocument(d)
  PROVE  EInv'
<1>1. open[d] \in Nat
  BY DEF EInv, ETyped
<1>2. CASE Editor!OpenDocument(d)
  <2>1. CASE languageServer = 0
    BY <1>2, <2>1, OpenDocumentKeeps
  <2>2. CASE languageServer # 0
    BY <1>2, <2>2, TellsKeeps DEF Editor!OpenDocument, Editor!None
  <2> QED
    BY <2>1, <2>2
<1>3. CASE Editor!ChangeDocument(d)
  BY <1>1, <1>3, TellsKeeps DEF Editor!ChangeDocument
<1>4. CASE Editor!CloseDocument(d)
  BY <1>4, TellsKeeps DEF Editor!CloseDocument
<1> QED
  BY <1>2, <1>3, <1>4

LEMMA EditorStepKeeps == EInv /\ [Editor!Next]_(Editor!vars) => EInv'
<1> SUFFICES ASSUME EInv, Editor!Next \/ UNCHANGED Editor!vars PROVE EInv'
  OBVIOUS
<1>1. CASE \E s \in Editor!Servers : Editor!ServerSteps(s)
  BY <1>1, ServerStepKeeps
<1>2. CASE \E r \in Restarters : Editor!RestartResumes(r) \/ Editor!StopReturns(r)
  BY <1>2, RestartResumesKeeps, StopReturnsKeeps
<1>3. CASE \E a \in Askers : Editor!Asks(a) \/ Editor!AskResumes(a) \/ Editor!AskSettles(a)
  BY <1>3, AsksKeeps, AskMoves
<1>4. CASE \E d \in Documents :
             Editor!OpenDocument(d) \/ Editor!ChangeDocument(d) \/ Editor!CloseDocument(d)
  BY <1>4, DocumentStepKeeps
<1>5. CASE Editor!WatchSees \/ \E file \in Editor!Files : Editor!Rebuilds(file)
  BY <1>5, WatchMoves
<1>6. CASE \/ Editor!TimerFires \/ Editor!RestartCommand \/ Editor!SettingsChange
           \/ Editor!InstallVm
  BY <1>6, RestartingKeeps
<1>7. CASE Editor!Deactivate
  BY <1>7, DeactivateKeeps
<1>8. CASE UNCHANGED Editor!vars
  BY <1>8, EditorStutters
<1> QED
  BY <1>1, <1>2, <1>3, <1>4, <1>5, <1>6, <1>7, <1>8 DEF Editor!Next

LEMMA EditorInvariance == HostSpec => []EInv
BY EditorBegins, EditorStepKeeps, EditorSteps, PTL DEF Editor!Spec

(* What holds of the servers at every moment.                               *)
Follows == /\ InSync /\ Addressable /\ NoOrphan
           /\ CurrentAtRest /\ NoRequestOnDeadServer /\ WaitsEnd

LEMMA ServersFollow == ASSUME EInv PROVE Follows
<1> USE DEF EInv
<1>1. InSync
  BY DEF ToldAll, InSync, Editor!InSync, Editor!None
<1>2. Addressable
  BY DEF ETyped, Lives, Alive, Awaited, Addressable, Editor!Addressable, Editor!None
<1>3. NoOrphan
  <2>1. \A s \in Editor!Servers : server[s].process \in {"spawning", "alive"} =>
          server[s].phase \in {"starting", "up"}
    BY DEF ETyped, ServerObject, Lives, Alive
  <2> QED
    BY <2>1 DEF Lives, Alive, NoOrphan, Editor!NoOrphan
<1>4. CurrentAtRest
  <2>1. Editor!AtRest => ~RestartOwed
    BY DEF Editor!AtRest, RestartOwed, Editor!Idle, Editor!Resume
  <2> QED
    BY <2>1 DEF UpToDateAtRest, UpToDate, CurrentAtRest, Editor!CurrentAtRest, Editor!None
<1>5. NoRequestOnDeadServer
  BY DEF ETyped, Awaited, Lives, Alive, NoRequestOnDeadServer, Editor!NoRequestOnDeadServer
<1>6. WaitsEnd
  <2>1. \A r \in Restarters : restart[r].at \in Stops =>
          server[restart[r].on].process \in {"alive", "exited"}
    <3>1. \A r \in Restarters : restart[r].at \in Stops => restart[r].on \in Editor!Servers
      BY DEF ETyped, StoppedOnce
    <3> QED
      BY <3>1 DEF Lives, Alive, Editor!StopPending, Stops
  <2>2. languageServerStarting # 0 =>
          server[languageServerStarting].process \in {"spawning", "alive", "exited"}
    BY DEF ETyped, Lives, Alive
  <2>3. \A a \in Askers : ask[a].at \notin Stops
    BY DEF ETyped, Stops
  <2> QED
    BY <2>1, <2>2, <2>3 DEF Awaited, Stops, WaitsEnd, Editor!WaitsEnd, Editor!None
<1> QED
  BY <1>1, <1>2, <1>3, <1>4, <1>5, <1>6 DEF Follows

(* A restart that ends has started a server, or found one.                  *)
RestartServes ==
  \A r \in Restarters :
    Editor!Ends(r) /\ setting.enabled =>
      \/ languageServer' # 0 \/ languageServerStarting' # 0
      \/ Editor!DiedMeanwhile(r)

LEMMA NoRestartEnds ==
  ASSUME \A r \in Restarters : restart[r].at \in {"stop", "resume"} => restart'[r] = restart[r]
  PROVE  RestartServes
BY DEF RestartServes, Editor!Ends, Editor!Idle

LEMMA StartServes ==
  ASSUME ETyped, NEW servers \in [Editor!Servers -> ServerObject],
         Editor!StartLanguageServer(servers, setting, build), languageServer' = languageServer,
         setting.enabled
  PROVE  languageServer' # 0 \/ languageServerStarting' # 0
<1>1. setting \in Settings /\ build \in Builds
  BY DEF ETyped
<1> QED
  BY <1>1, StartFacts, NoServerZero DEF StartsOne, Editor!MustStart, Editor!None

LEMMA StopReturnsServes ==
  ASSUME EInv, NEW q \in Restarters, Editor!StopReturns(q)
  PROVE  RestartServes
<1> USE DEF EInv
<1>1. \A r \in Restarters \ {q} : restart'[r] = restart[r]
  BY DEF Editor!StopReturns, ETyped
<1>2. restart[q].at = "quit" => ~Editor!Ends(q)
  BY DEF Editor!Ends
<1>3. ASSUME restart[q].at = "stop", setting.enabled
      PROVE  languageServer' # 0 \/ languageServerStarting' # 0
  <2> DEFINE s == restart[q].on
             servers == [server EXCEPT ![s] = Editor!Disposed(s)]
  <2>1. s \in Editor!Servers
    BY <1>3 DEF ETyped, StoppedOnce, Stops
  <2>2. servers \in [Editor!Servers -> ServerObject]
    BY <2>1, DisposedTyped DEF ETyped
  <2>3. Editor!StartLanguageServer(servers, setting, build) /\ languageServer' = languageServer
    BY <1>3 DEF Editor!StopReturns
  <2> QED
    BY <1>3, <2>2, <2>3, StartServes
<1>4. restart[q].at \in {"stop", "quit"}
  BY DEF Editor!StopReturns
<1> QED
  BY <1>1, <1>2, <1>3, <1>4 DEF RestartServes, Editor!Ends, Editor!Idle

LEMMA RestartResumesServes ==
  ASSUME EInv, NEW q \in Restarters, Editor!RestartResumes(q)
  PROVE  RestartServes
<1> USE DEF EInv
<1>1. restart[q].at = "resume" /\ Editor!RestartBody(q, setting, build)
  BY DEF Editor!RestartResumes, Editor!Resume
<1>2. \A r \in Restarters \ {q} : restart'[r] = restart[r]
  BY <1>1 DEF Editor!RestartBody, ETyped
<1>3. CASE languageServer # 0
  <2>1. restart' = [restart EXCEPT ![q] = [at |-> "stop", on |-> languageServer]]
    BY <1>1, <1>3 DEF Editor!RestartBody, Editor!None
  <2>2. restart'[q] = [at |-> "stop", on |-> languageServer]
    BY <2>1 DEF ETyped
  <2> QED
    BY <1>2, <2>2 DEF RestartServes, Editor!Ends, Editor!Idle
<1>4. CASE languageServer = 0
  <2>1. Editor!StartLanguageServer(server, setting, build) /\ languageServer' = languageServer
    BY <1>1, <1>4 DEF Editor!RestartBody, Editor!None
  <2>2. server \in [Editor!Servers -> ServerObject]
    BY DEF ETyped
  <2>3. setting.enabled => languageServer' # 0 \/ languageServerStarting' # 0
    BY <2>1, <2>2, StartServes
  <2> QED
    BY <1>2, <2>3 DEF RestartServes, Editor!Ends, Editor!Idle
<1> QED
  BY <1>3, <1>4

LEMMA ClosesServes ==
  ASSUME EInv, NEW s \in Editor!Servers, Editor!Closes(s)
  PROVE  RestartServes
<1> USE DEF EInv
<1>1. CASE server[s].phase = "starting"
  <2>1. \A r \in Restarters : restart[r].at # "await" => restart'[r] = restart[r]
    BY <1>1, StartEndsFacts DEF Editor!Closes, Editor!StartFails
  <2> QED
    BY <2>1, NoRestartEnds
<1>2. CASE server[s].phase # "starting"
  <2> DEFINE Stopping(r) == restart[r].at \in {"stop", "quit"} /\ restart[r].on = s
  <2>1. \A r \in Restarters : Stopping(r) \/ restart'[r] = restart[r]
    <3>1. restart' = [r \in Restarters |-> IF Stopping(r) THEN Editor!Idle ELSE restart[r]]
      BY <1>2, Zenon DEF Editor!Closes
    <3> QED
      BY <3>1
  <2>2. server[s].process = "exited"
    BY DEF Editor!Closes
  <2> QED
    BY <2>1, <2>2 DEF RestartServes, Editor!Ends, Editor!DiedMeanwhile, Editor!Idle
<1> QED
  BY <1>1, <1>2

LEMMA RestartBegins ==
  ASSUME EInv, NEW chosen, NEW present, Editor!RestartLanguageServer(chosen, present)
  PROVE  RestartServes
<1> USE DEF EInv
<1>1. PICK q \in Restarters : /\ restart[q] = Editor!Idle
                              /\ \A r \in Restarters \ {q} : restart'[r] = restart[r]
  BY DEF Editor!RestartLanguageServer, Editor!RestartBody, ETyped
<1> QED
  BY <1>1, NoRestartEnds DEF Editor!Idle

LEMMA EditorStepServes == EInv /\ [Editor!Next]_(Editor!vars) => RestartServes
<1> SUFFICES ASSUME EInv, Editor!Next \/ UNCHANGED Editor!vars PROVE RestartServes
  OBVIOUS
<1>1. CASE UNCHANGED Editor!vars
  BY <1>1, NoRestartEnds DEF Editor!vars
<1>2. ASSUME NEW s \in Editor!Servers, Editor!ServerSteps(s) PROVE RestartServes
  <2>1. CASE \/ Editor!SpawnFails(s) \/ Editor!InitializeAnswered(s)
             \/ Editor!InitializeTimesOut(s)
    <3>1. ETyped /\ Editor!StartEnds
      BY <2>1 DEF EInv, Editor!SpawnFails, Editor!InitializeAnswered,
         Editor!InitializeTimesOut, Editor!StartFails
    <3>2. \A r \in Restarters : restart[r].at # "await" => restart'[r] = restart[r]
      BY <3>1, StartEndsFacts
    <3> QED
      BY <3>2, NoRestartEnds
  <2>2. CASE Editor!Spawned(s) \/ Editor!Crashes(s) \/ Editor!Leaves(s)
    BY <2>2, NoRestartEnds DEF Editor!Spawned, Editor!Crashes, Editor!Leaves
  <2>3. CASE Editor!Closes(s)
    BY <2>3, ClosesServes
  <2> QED
    BY <1>2, <2>1, <2>2, <2>3 DEF Editor!ServerSteps
<1>3. CASE \E r \in Restarters : Editor!RestartResumes(r) \/ Editor!StopReturns(r)
  BY <1>3, RestartResumesServes, StopReturnsServes
<1>4. CASE \E a \in Askers : Editor!Asks(a) \/ Editor!AskResumes(a) \/ Editor!AskSettles(a)
  BY <1>4, NoRestartEnds DEF Editor!Asks, Editor!AskResumes, Editor!AskSettles
<1>5. CASE \E d \in Documents :
             Editor!OpenDocument(d) \/ Editor!ChangeDocument(d) \/ Editor!CloseDocument(d)
  BY <1>5, NoRestartEnds DEF Editor!OpenDocument, Editor!ChangeDocument, Editor!CloseDocument,
     Editor!Edits
<1>6. CASE Editor!WatchSees \/ \E file \in Editor!Files : Editor!Rebuilds(file)
  BY <1>6, NoRestartEnds DEF Editor!WatchSees, Editor!Rebuilds
<1>7. CASE Editor!TimerFires \/ Editor!RestartCommand
  BY <1>7, RestartBegins DEF Editor!TimerFires, Editor!RestartCommand
<1>8. CASE Editor!SettingsChange
  BY <1>8, RestartBegins DEF Editor!SettingsChange
<1>9. CASE Editor!InstallVm
  BY <1>9, RestartBegins DEF Editor!InstallVm
<1>10. CASE Editor!Deactivate
  <2>1. \/ restart' = restart
        \/ \E q \in Restarters : /\ restart[q] = Editor!Idle
                                  /\ \A r \in Restarters \ {q} : restart'[r] = restart[r]
    BY <1>10 DEF Editor!Deactivate, EInv, ETyped
  <2> QED
    BY <2>1, NoRestartEnds DEF Editor!Idle
<1> QED
  BY <1>1, <1>2, <1>3, <1>4, <1>5, <1>6, <1>7, <1>8, <1>9, <1>10 DEF Editor!Next

(* Whatever starts, restarts, crashes, edits and settings changes meet, for  *)
(* any number of documents, calls in flight and server objects: the server   *)
(* in use is initialised, knows every open document as it is, runs what is   *)
(* on disk once no restart is owed, a server that runs is in use, starting   *)
(* or being stopped, nobody waits for one that is gone, and a restart that   *)
(* ends has led to a server unless the one it was stopping died.             *)
THEOREM ServersFollowEditorAlways == HostSpec => ServersFollowEditor
<1>1. HostSpec => [](InSync /\ Addressable /\ NoOrphan /\ CurrentAtRest
                      /\ NoRequestOnDeadServer /\ WaitsEnd)
  <2>1. EInv => InSync /\ Addressable /\ NoOrphan /\ CurrentAtRest
                  /\ NoRequestOnDeadServer /\ WaitsEnd
    BY ServersFollow DEF Follows
  <2> QED
    BY <2>1, EditorInvariance, PTL
<1>2. HostSpec => [][RestartServes]_(Editor!vars)
  <2>1. EInv /\ [Editor!Next]_(Editor!vars) => [RestartServes]_(Editor!vars)
    BY EditorStepServes
  <2> QED
    BY <2>1, EditorInvariance, EditorSteps, PTL DEF Editor!Spec
<1>3. HostSpec => RestartsServe
  BY <1>2 DEF RestartsServe, Editor!RestartsServe, RestartServes, Editor!None
<1> QED
  BY <1>1, <1>3, PTL DEF ServersFollowEditor

-----------------------------------------------------------------------------
(* The types of MachineResources, whatever fails and whatever close does.   *)

BoundedEntry ==
  [token : Resources!Families \X (1 .. MaxToken), id : Nat \ {0}, kind : Resources!Kinds,
   first : Handles \union {0}, second : Handles \union {0}, pid : Pids \union {0},
   started : BOOLEAN, listener : BOOLEAN, tls : BOOLEAN]

Tables == [VMs -> SUBSET BoundedEntry]

IdsBelow(some, bound) == \A vm \in VMs : \A entry \in some[vm] : entry.id <= bound

RBounded ==
  /\ os \in [Handles -> 0 .. MaxMade] /\ children \in [Pids -> 0 .. MaxMade]
  /\ ended \subseteq Pids
  /\ table \in Tables /\ IdsBelow(table, made)
  /\ nextToken \in [Resources!Families -> 1 .. MaxToken + 1] /\ made \in 0 .. MaxMade

LEMMA BoundedBegins ==
  ASSUME Resources!Init
  PROVE  RBounded
BY HostAssumption DEF Resources!Init, Resources!None, RBounded, Tables, IdsBelow

LEMMA BoundedEntryFacts ==
  ASSUME RBounded, NEW vm \in VMs, NEW entry \in table[vm]
  PROVE  /\ entry \in BoundedEntry /\ entry.id <= made /\ entry.id \in 1 .. MaxMade
         /\ Resources!HandlesOf(entry) \subseteq Handles
<1>1. entry \in BoundedEntry /\ entry.id <= made /\ made \in 0 .. MaxMade
  BY DEF RBounded, Tables, IdsBelow
<1> QED
  BY <1>1, HostAssumption DEF BoundedEntry, Resources!HandlesOf, Resources!None

(* A table without an entry, with one more, or with one changed.            *)
LEMMA WithoutTyped ==
  ASSUME RBounded, NEW vm \in VMs, NEW entry
  PROVE  /\ Resources!Without(vm, entry) \in Tables
         /\ IdsBelow(Resources!Without(vm, entry), made)
BY DEF RBounded, Resources!Without, Tables, IdsBelow

LEMMA ReplaceTyped ==
  ASSUME RBounded, NEW vm \in VMs, NEW entry, NEW changed \in BoundedEntry, changed.id <= made
  PROVE  /\ Resources!Replace(vm, entry, changed) \in Tables
         /\ IdsBelow(Resources!Replace(vm, entry, changed), made)
BY DEF RBounded, Resources!Replace, Tables, IdsBelow

LEMMA AddTyped ==
  ASSUME RBounded, NEW vm \in VMs, NEW one \in BoundedEntry, one.id = made + 1
  PROVE  /\ [table EXCEPT ![vm] = @ \union {one}] \in Tables
         /\ IdsBelow([table EXCEPT ![vm] = @ \union {one}], made + 1)
<1>1. table \in Tables /\ IdsBelow(table, made) /\ made \in Nat
  BY HostAssumption DEF RBounded
<1>2. \A other \in VMs : \A e \in table[other] : e.id <= made + 1
  BY <1>1 DEF Tables, IdsBelow, BoundedEntry
<1> QED
  BY <1>1, <1>2 DEF Tables, IdsBelow

LEMMA HandlesReleased ==
  ASSUME RBounded, NEW some
  PROVE  /\ Resources!Released(some) \in [Handles -> 0 .. MaxMade]
         /\ Resources!Reaped(some) \in [Pids -> 0 .. MaxMade]
BY HostAssumption DEF RBounded, Resources!Released, Resources!Reaped, Resources!None

LEMMA TokenTakenTyped ==
  ASSUME RBounded, NEW family \in Resources!Families, Resources!TokenTaken(family)
  PROVE  /\ nextToken' \in [Resources!Families -> 1 .. MaxToken + 1]
         /\ ~Resources!Exhausted(family) =>
              <<family, nextToken[family]>> \in Resources!Families \X (1 .. MaxToken)
<1>1. nextToken \in [Resources!Families -> 1 .. MaxToken + 1] /\ MaxToken \in Nat
  BY HostAssumption DEF RBounded
<1>2. nextToken[family] \in 1 .. MaxToken + 1
  BY <1>1
<1>3. nextToken[family] > MaxToken \/ nextToken[family] + 1 \in 1 .. MaxToken + 1
  BY <1>1, <1>2
<1> QED
  BY <1>1, <1>2, <1>3 DEF Resources!TokenTaken, Resources!Exhausted

LEMMA EntryBounded ==
  ASSUME RBounded, NEW family \in Resources!Families, NEW kind \in Resources!Kinds,
         NEW token \in Resources!Families \X (1 .. MaxToken),
         NEW handle \in Handles \union {0}, NEW listener \in BOOLEAN
  PROVE  /\ Resources!Entry(token, made + 1, kind, handle, listener) \in BoundedEntry
         /\ Resources!Entry(token, made + 1, kind, handle, listener).id = made + 1
BY HostAssumption DEF RBounded, Resources!Entry, BoundedEntry, Resources!None

LEMMA RegisterTyped ==
  ASSUME RBounded, NEW vm \in VMs, NEW kind \in Resources!Kinds, NEW listener \in BOOLEAN,
         Resources!Register(vm, kind, listener)
  PROVE  RBounded'
<1> DEFINE family == Resources!Family(kind)
           one(handle) == Resources!Entry(Resources!TokenFor(vm, family), made + 1, kind,
                                          handle, listener)
<1>1. family \in Resources!Families
  BY DEF Resources!Family, Resources!Families, Resources!Kinds
<1>2. /\ made < MaxMade /\ made \in Nat /\ MaxMade \in Nat /\ made + 1 \in 0 .. MaxMade
      /\ Resources!TokenTaken(family) /\ UNCHANGED <<children, ended>>
      /\ os \in [Handles -> 0 .. MaxMade]
  BY HostAssumption DEF Resources!Register, RBounded
<1>3. PICK handle \in Handles :
         \/ /\ ~Resources!Exhausted(family)
            /\ Resources!Publish(vm, one(handle))
            /\ os' = Resources!Grant(made + 1, handle) /\ made' = made + 1
         \/ UNCHANGED <<table, issued, os, made>>
         \/ /\ os' = os \/ os' = Resources!Grant(made + 1, handle)
            /\ made' = made + 1 /\ UNCHANGED <<table, issued>>
  BY DEF Resources!Register, Resources!Free
<1>4. /\ nextToken' \in [Resources!Families -> 1 .. MaxToken + 1]
      /\ ~Resources!Exhausted(family) =>
           Resources!TokenFor(vm, family) \in Resources!Families \X (1 .. MaxToken)
  BY <1>1, <1>2, TokenTakenTyped DEF Resources!TokenFor
<1>5. os' \in [Handles -> 0 .. MaxMade] /\ made' \in 0 .. MaxMade /\ made <= made'
  BY <1>2, <1>3 DEF Resources!Grant
<1>6. table' \in Tables /\ IdsBelow(table', made')
  <2>1. CASE ~Resources!Exhausted(family) /\ Resources!Publish(vm, one(handle)) /\ made' = made + 1
    <3>1. one(handle) \in BoundedEntry /\ one(handle).id = made + 1
      BY <1>1, <1>4, <2>1, EntryBounded
    <3>2. table' = [table EXCEPT ![vm] = @ \union {one(handle)}]
      BY <2>1 DEF Resources!Publish
    <3> HIDE DEF one
    <3> QED
      BY <2>1, <3>1, <3>2, AddTyped
  <2>2. CASE table' = table
    BY <1>2, <1>5, <2>2 DEF RBounded, Tables, IdsBelow, BoundedEntry
  <2> QED
    BY <1>3, <2>1, <2>2
<1> QED
  BY <1>2, <1>4, <1>5, <1>6 DEF RBounded

LEMMA OpeningTyped ==
  ASSUME RBounded, NEW vm \in VMs, NEW token,
         \/ Resources!OpenFile(vm) \/ Resources!OpenDirectory(vm) \/ Resources!OpenStream(vm)
         \/ Resources!OpenResolver(vm) \/ Resources!ConnectSocket(vm)
         \/ Resources!ListenSocket(vm) \/ Resources!Accept(vm, token)
  PROVE  RBounded'
<1>1. {"file", "stream", "directory", "resolver", "socket"} \subseteq Resources!Kinds
  BY DEF Resources!Kinds
<1>2. ASSUME NEW kind \in {"file", "stream"}, Resources!OpenRefused(kind)
      PROVE  RBounded'
  <2>1. Resources!Family(kind) \in Resources!Families
    BY DEF Resources!Family, Resources!Families
  <2> QED
    BY <1>2, <2>1, TokenTakenTyped DEF Resources!OpenRefused, RBounded
<1>3. CASE /\ os' = Resources!AcceptedDropped(0)
           /\ UNCHANGED <<children, ended, table, issued, nextToken, made>>
  BY <1>3 DEF Resources!AcceptedDropped, RBounded
<1>4. ASSUME NEW kind \in {"file", "stream", "directory", "resolver", "socket"},
             NEW listener \in BOOLEAN, Resources!Register(vm, kind, listener)
      PROVE  RBounded'
  BY <1>1, <1>4, RegisterTyped
<1>5. CASE Resources!Accept(vm, token)
  BY <1>3, <1>4, <1>5 DEF Resources!Accept, Resources!AcceptedDropped
<1> QED
  BY <1>2, <1>4, <1>5 DEF Resources!OpenFile, Resources!OpenDirectory, Resources!OpenStream,
     Resources!OpenResolver, Resources!ConnectSocket, Resources!ListenSocket

LEMMA ClosingTyped ==
  ASSUME RBounded, NEW vm \in VMs, NEW token,
         \/ Resources!CloseSimple(vm, token) \/ Resources!CloseSocket(vm, token)
         \/ Resources!CloseSocketForeign(vm, token) \/ Resources!CloseProcess(vm, token)
         \/ Resources!ResetVM(vm)
  PROVE  RBounded'
<1>1. \/ \E entry \in table[vm] : table' = Resources!Without(vm, entry)
      \/ table' = table
      \/ table' = [table EXCEPT ![vm] = {}]
  BY DEF Resources!CloseSimple, Resources!CloseSocket, Resources!CloseSocketForeign,
     Resources!CloseProcess, Resources!ResetVM, Resources!Named
<1>2. table' \in Tables /\ IdsBelow(table', made)
  <2>1. CASE \E entry \in table[vm] : table' = Resources!Without(vm, entry)
    <3>1. PICK entry \in table[vm] : table' = Resources!Without(vm, entry)
      BY <2>1
    <3> QED
      BY <3>1, WithoutTyped
  <2>2. CASE table' = table \/ table' = [table EXCEPT ![vm] = {}]
    BY <2>2 DEF RBounded, Tables, IdsBelow
  <2> QED
    BY <1>1, <2>1, <2>2
<1>3. /\ os' \in [Handles -> 0 .. MaxMade]
      /\ children' \in [Pids -> 0 .. MaxMade] /\ ended' \subseteq Pids
      /\ UNCHANGED <<nextToken, made>>
  <2>1. \E some : os' = Resources!Released(some)
    BY DEF Resources!CloseSimple, Resources!CloseSocket, Resources!CloseSocketForeign,
       Resources!CloseProcess, Resources!ResetVM, Resources!ReleasedBy
  <2>2. children' = children \/ \E some : children' = Resources!Reaped(some)
    BY DEF Resources!CloseSimple, Resources!CloseSocket, Resources!CloseSocketForeign,
       Resources!CloseProcess, Resources!ResetVM
  <2>3. \E some : ended' = ended \ some
    <3>1. ended = ended \ {}
      OBVIOUS
    <3> QED
      BY <3>1 DEF Resources!CloseSimple, Resources!CloseSocket, Resources!CloseSocketForeign,
         Resources!CloseProcess, Resources!ResetVM
  <2>4. UNCHANGED <<nextToken, made>>
    BY DEF Resources!CloseSimple, Resources!CloseSocket, Resources!CloseSocketForeign,
       Resources!CloseProcess, Resources!ResetVM
  <2> QED
    BY <2>1, <2>2, <2>3, <2>4, HandlesReleased DEF RBounded
<1> QED
  BY <1>2, <1>3 DEF RBounded

LEMMA EntryMovesTyped ==
  ASSUME RBounded, NEW vm \in VMs, NEW token,
         \/ Resources!UpgradeTls(vm, token) \/ Resources!StartProcess(vm, token)
         \/ Resources!ReadEnd(vm, token) \/ Resources!WaitProcess(vm, token)
  PROVE  RBounded'
<1>1. \E entry \in table[vm] :
        \/ table' = Resources!Without(vm, entry)
        \/ \E changed \in BoundedEntry :
             changed.id = entry.id /\ table' = Resources!Replace(vm, entry, changed)
  <2>1. CASE Resources!UpgradeTls(vm, token)
    <3>1. PICK entry \in table[vm] :
             \/ table' = Resources!Replace(vm, entry, [entry EXCEPT !.tls = TRUE])
             \/ table' = Resources!Without(vm, entry)
      BY <2>1 DEF Resources!UpgradeTls, Resources!Named
    <3>2. entry \in BoundedEntry
      BY BoundedEntryFacts
    <3>3. /\ [entry EXCEPT !.tls = TRUE] \in BoundedEntry
          /\ [entry EXCEPT !.tls = TRUE].id = entry.id
      BY <3>2 DEF BoundedEntry
    <3> QED
      BY <3>1, <3>3
  <2>2. CASE Resources!StartProcess(vm, token)
    <3>1. PICK entry \in Resources!Named(vm, token, {"process"}) :
             \/ \E out, err \in Resources!Free, pid \in Resources!FreePids :
                  /\ out < err /\ \A other \in Resources!Free : other = out \/ err <= other
                  /\ table' = Resources!Replace(vm, entry,
                                [entry EXCEPT !.started = TRUE, !.first = out,
                                              !.second = err, !.pid = pid])
                  /\ os' = [os EXCEPT ![out] = entry.id, ![err] = entry.id]
                  /\ children' = [children EXCEPT ![pid] = entry.id]
             \/ /\ table' = Resources!Replace(vm, entry, [entry EXCEPT !.started = TRUE])
                /\ UNCHANGED <<os, children>>
      BY <2>2, Zenon DEF Resources!StartProcess
    <3>2. entry \in table[vm] /\ entry \in BoundedEntry
      BY BoundedEntryFacts DEF Resources!Named
    <3>3. ASSUME NEW out \in Resources!Free, NEW err \in Resources!Free,
                 NEW pid \in Resources!FreePids,
                 table' = Resources!Replace(vm, entry,
                            [entry EXCEPT !.started = TRUE, !.first = out,
                                          !.second = err, !.pid = pid])
          PROVE  <1>1
      <4> DEFINE one == [entry EXCEPT !.started = TRUE, !.first = out, !.second = err, !.pid = pid]
      <4>1. out \in Handles /\ err \in Handles /\ pid \in Pids
        BY DEF Resources!Free, Resources!FreePids
      <4>2. one \in BoundedEntry /\ one.id = entry.id
        BY <3>2, <4>1 DEF BoundedEntry
      <4>3. table' = Resources!Replace(vm, entry, one)
        BY <3>3
      <4> HIDE DEF one
      <4> QED
        BY <3>2, <4>2, <4>3
    <3>4. CASE table' = Resources!Replace(vm, entry, [entry EXCEPT !.started = TRUE])
      <4> DEFINE one == [entry EXCEPT !.started = TRUE]
      <4>1. one \in BoundedEntry /\ one.id = entry.id
        BY <3>2 DEF BoundedEntry
      <4>2. table' = Resources!Replace(vm, entry, one)
        BY <3>4
      <4> HIDE DEF one
      <4> QED
        BY <3>2, <4>1, <4>2
    <3> QED
      BY <3>1, <3>3, <3>4, Zenon
  <2>3. CASE Resources!ReadEnd(vm, token)
    <3>1. PICK entry \in table[vm] :
             \/ table' = Resources!Replace(vm, entry, [entry EXCEPT !.first = 0])
             \/ table' = Resources!Replace(vm, entry, [entry EXCEPT !.second = 0])
      BY <2>3 DEF Resources!ReadEnd, Resources!Named, Resources!None
    <3>2. entry \in BoundedEntry
      BY BoundedEntryFacts
    <3>3. /\ [entry EXCEPT !.first = 0] \in BoundedEntry /\ [entry EXCEPT !.first = 0].id = entry.id
          /\ [entry EXCEPT !.second = 0] \in BoundedEntry /\ [entry EXCEPT !.second = 0].id = entry.id
      BY <3>2 DEF BoundedEntry
    <3> QED
      BY <3>1, <3>3
  <2>4. CASE Resources!WaitProcess(vm, token)
    <3>1. PICK entry \in table[vm] :
             table' = Resources!Replace(vm, entry, [entry EXCEPT !.pid = 0])
      BY <2>4 DEF Resources!WaitProcess, Resources!Named, Resources!PidForgotten, Resources!None
    <3>2. entry \in BoundedEntry
      BY BoundedEntryFacts
    <3>3. [entry EXCEPT !.pid = 0] \in BoundedEntry /\ [entry EXCEPT !.pid = 0].id = entry.id
      BY <3>2 DEF BoundedEntry
    <3> QED
      BY <3>1, <3>3
  <2> QED
    BY <2>1, <2>2, <2>3, <2>4
<1>2. table' \in Tables /\ IdsBelow(table', made)
  <2>1. PICK entry \in table[vm] :
          \/ table' = Resources!Without(vm, entry)
          \/ \E changed \in BoundedEntry :
               changed.id = entry.id /\ table' = Resources!Replace(vm, entry, changed)
    BY <1>1
  <2>2. entry.id <= made
    BY BoundedEntryFacts
  <2> QED
    BY <2>1, <2>2, WithoutTyped, ReplaceTyped
<1>3. os' \in [Handles -> 0 .. MaxMade]
  <2>1. CASE Resources!StartProcess(vm, token)
    <3>1. \/ os' = os
          \/ \E entry \in table[vm], out, err \in Handles :
               os' = [os EXCEPT ![out] = entry.id, ![err] = entry.id]
      BY <2>1 DEF Resources!StartProcess, Resources!Named, Resources!Free
    <3> QED
      BY <3>1, BoundedEntryFacts, HostAssumption DEF RBounded
  <2>2. CASE ~Resources!StartProcess(vm, token)
    <3>1. os' = os \/ \E some : os' = Resources!Released(some)
      BY <2>2 DEF Resources!UpgradeTls, Resources!ReadEnd,
         Resources!WaitProcess, Resources!Named
    <3> QED
      BY <3>1, HandlesReleased DEF RBounded
  <2> QED
    BY <2>1, <2>2
<1>4. children' \in [Pids -> 0 .. MaxMade] /\ ended' \subseteq Pids
  <2>1. CASE Resources!StartProcess(vm, token)
    <3>1. \/ children' = children
          \/ \E entry \in table[vm], pid \in Pids : children' = [children EXCEPT ![pid] = entry.id]
      BY <2>1 DEF Resources!StartProcess, Resources!Named, Resources!FreePids
    <3>2. ended' = ended
      BY <2>1 DEF Resources!StartProcess
    <3> QED
      BY <3>1, <3>2, BoundedEntryFacts, HostAssumption DEF RBounded
  <2>2. CASE Resources!WaitProcess(vm, token)
    BY <2>2, HandlesReleased DEF Resources!WaitProcess, RBounded
  <2>3. CASE Resources!UpgradeTls(vm, token) \/ Resources!ReadEnd(vm, token)
    BY <2>3 DEF Resources!UpgradeTls, Resources!ReadEnd, RBounded
  <2> QED
    BY <2>1, <2>2, <2>3
<1>5. UNCHANGED <<nextToken, made>>
  BY DEF Resources!UpgradeTls, Resources!StartProcess, Resources!ReadEnd, Resources!WaitProcess
<1> QED
  BY <1>2, <1>3, <1>4, <1>5 DEF RBounded

LEMMA NewProcessTyped ==
  ASSUME RBounded, NEW vm \in VMs, Resources!NewProcess(vm)
  PROVE  RBounded'
<1> DEFINE one == Resources!Entry(Resources!TokenFor(vm, "opaque"), made + 1, "process", 0, FALSE)
<1>1. /\ made < MaxMade /\ made \in Nat /\ MaxMade \in Nat /\ made + 1 \in 0 .. MaxMade
      /\ Resources!TokenTaken("opaque") /\ UNCHANGED <<os, children, ended>>
      /\ "opaque" \in Resources!Families /\ "process" \in Resources!Kinds
  BY HostAssumption DEF Resources!NewProcess, RBounded, Resources!Families, Resources!Kinds
<1>2. nextToken' \in [Resources!Families -> 1 .. MaxToken + 1]
  BY <1>1, TokenTakenTyped
<1>3. CASE Resources!Exhausted("opaque")
  BY <1>1, <1>2, <1>3 DEF Resources!NewProcess, RBounded
<1>4. CASE ~Resources!Exhausted("opaque")
  <2>1. table' = [table EXCEPT ![vm] = @ \union {one}] /\ made' = made + 1
    BY <1>4 DEF Resources!NewProcess, Resources!Publish, Resources!None
  <2>2. one \in BoundedEntry /\ one.id = made + 1
    BY <1>1, <1>4, TokenTakenTyped, EntryBounded DEF Resources!TokenFor
  <2> HIDE DEF one
  <2>3. table' \in Tables /\ IdsBelow(table', made + 1)
    BY <2>1, <2>2, AddTyped
  <2> QED
    BY <1>1, <1>2, <2>1, <2>3 DEF RBounded
<1> QED
  BY <1>3, <1>4

LEMMA ResourcesBounded == HostSpec => []RBounded
<1>1. RBounded /\ [Resources!Next]_(Resources!vars) => RBounded'
  <2> SUFFICES ASSUME RBounded, Resources!Next \/ UNCHANGED Resources!vars PROVE RBounded'
    OBVIOUS
  <2>1. CASE UNCHANGED Resources!vars
    BY <2>1 DEF Resources!vars, RBounded
  <2>2. ASSUME NEW pid \in Pids, Resources!Exit(pid) PROVE RBounded'
    BY <2>2 DEF Resources!Exit, RBounded
  <2> QED
    BY <2>1, <2>2, OpeningTyped, ClosingTyped, EntryMovesTyped, NewProcessTyped
       DEF Resources!Next
<1> QED
  BY <1>1, BoundedBegins, ResourceSteps, PTL DEF Resources!Spec

(* Every variable of the three parts keeps its type: no token above the     *)
(* largest, no generation above the width of its counter, no server object  *)
(* in a state between two.                                                  *)
THEOREM TypesOKAlways == HostSpec => []TypesOK
<1>1. HostSpec => Spec
  <2>1. HostInit => Init
    BY DEF HostInit
  <2>2. [HostNext]_hostVars => [Next]_allVars
    BY DEF HostNext, hostVars, Others, InitModules, UseResources, Connect, Tick, Surroundings,
           UseNative, UseStream, RunEditor
  <2> QED
    BY <2>1, <2>2, PTL DEF HostSpec, Spec
<1>2. IInv => TypeOK
  BY DEF IInv
<1>3. RBounded => Resources!TypeOK
  <2> SUFFICES ASSUME RBounded PROVE Resources!TypeOK
    OBVIOUS
  <2>1. \A vm \in VMs : \A entry \in table[vm] : entry \in BoundedEntry /\ entry.id \in 1 .. made
    BY BoundedEntryFacts, HostAssumption DEF RBounded, BoundedEntry
  <2> QED
    BY <2>1 DEF RBounded, Resources!TypeOK, BoundedEntry, Resources!None
<1>4. EInv => Editor!TypeOK
  BY DEF EInv, ETyped, ServerObject, Process, Stops, Awaited, Editor!TypeOK, Editor!None
<1>5. NInv => Native!TypeOK
  BY DEF NInv
<1>6. StreamInv => Stream!TypeOK
  BY StreamSafe
<1> QED
  BY <1>1, <1>2, <1>3, <1>4, <1>5, <1>6, Invariance, ResourcesBounded, EditorInvariance,
     NativeInvariance, StreamInvariance, PTL DEF TypesOK
=============================================================================
