------------------------------ MODULE NativeProofs ------------------------------
(***************************************************************************)
(* Theorems about the sockets of the Windows build: the table its threads   *)
(* share, for any number of threads, handles, addresses and entries, and    *)
(* one TLS session, for any number of bytes, records and pieces.            *)
(***************************************************************************)
EXTENDS MCHost, TLAPS, SequenceTheorems, WellFoundedInduction

-----------------------------------------------------------------------------
(* Each step of the host is a step of one part and leaves the others alone. *)

LEMMA NativeSteps == HostSpec => Native!Init /\ [][Native!Next]_(Native!vars)
<1>1. HostInit => Native!Init
  BY DEF HostInit
<1>2. [HostNext]_hostVars => [Native!Next]_(Native!vars)
  BY DEF HostNext, hostVars, Others, InitModules, UseResources, Connect, Tick, Surroundings,
         UseNative, UseStream, RunEditor, nativeVars, Native!vars
<1> QED
  BY <1>1, <1>2, PTL DEF HostSpec

-----------------------------------------------------------------------------
(* The inductive invariant *)

Live(o) == objects[o].handle # 0

(* Who knows entry o by id i: a table or a call that waits for it or is in. *)
Holder(i, o) ==
  \/ i \in DOMAIN openSockets /\ openSockets[i] = o
  \/ i \in DOMAIN openTlsSockets /\ openTlsSockets[i] = o
  \/ \E t \in Threads : Native!Holds(t) /\ caller[t].id = i /\ caller[t].entry = o

(* All agree on the id of an entry that has a handle.                       *)
Agree == \A i, o, j, p : /\ Holder(i, o) /\ Holder(j, p) /\ Live(o) /\ Live(p)
                         => (i = j <=> o = p)

(* The tables name different ids, and only entries with a handle; an entry  *)
(* that is upgraded is a raw one, an entry that is closed has no id left.   *)
TablesRight ==
  /\ \A i \in DOMAIN openSockets : i \notin DOMAIN openTlsSockets /\ Live(openSockets[i])
  /\ \A i \in DOMAIN openTlsSockets : Live(openTlsSockets[i])
  /\ \A t \in Threads : Native!Holds(t) /\ caller[t].operation = "upgrade" =>
       \A i \in DOMAIN openTlsSockets : openTlsSockets[i] # caller[t].entry
  /\ \A t \in Threads :
       caller[t].at = "waiting" /\ caller[t].operation = "close" /\ Live(caller[t].entry) =>
         caller[t].id \notin Native!Named

Reached == \A o \in 1 .. Len(objects) : Live(o) =>
  \/ \E i \in Native!Named : Native!EntryOf(i) = o
  \/ \E t \in Threads : /\ caller[t].at = "waiting" /\ caller[t].operation = "close"
                        /\ caller[t].entry = o

NInv == /\ Native!TypeOK /\ Native!HandlesOwnedOnce /\ Native!Exclusive
        /\ Agree /\ TablesRight /\ Reached

-----------------------------------------------------------------------------
(* Types *)

(* The entries after an upgrade has left one, and after one is added.       *)
LEMMA ReleasedFacts ==
  ASSUME objects \in Seq(Native!Objects), NEW o \in 1 .. Len(objects)
  PROVE  /\ Native!Released(o) \in Seq(Native!Objects)
         /\ Len(Native!Released(o)) = Len(objects) /\ Native!Released(o)[o].handle = 0
         /\ \A p \in 1 .. Len(objects) : p # o => Native!Released(o)[p] = objects[p]
<1> DEFINE e == [objects[o] EXCEPT !.handle = 0, !.ioMutex = Native!Nobody]
<1>1. objects[o] \in Native!Objects /\ DOMAIN objects = 1 .. Len(objects)
  BY ElementOfSeq, LenProperties
<1>2. e \in Native!Objects /\ e.handle = 0
  BY <1>1 DEF Native!Objects, Native!Nobody
<1>3. Native!Released(o) = [objects EXCEPT ![o] = e]
  BY <1>1 DEF Native!Released
<1>4. /\ [objects EXCEPT ![o] = e] \in Seq(Native!Objects)
      /\ Len([objects EXCEPT ![o] = e]) = Len(objects)
      /\ \A p \in 1 .. Len(objects) : [objects EXCEPT ![o] = e][p] = IF p = o THEN e ELSE objects[p]
  BY <1>2, ExceptSeq
<1> QED
  BY <1>2, <1>3, <1>4

LEMMA EntryAdded ==
  ASSUME NEW s \in Seq(Native!Objects), NEW e \in Native!Objects
  PROVE  /\ Append(s, e) \in Seq(Native!Objects) /\ Len(Append(s, e)) = Len(s) + 1
         /\ Append(s, e)[Len(s) + 1] = e
         /\ \A p \in 1 .. Len(s) : Append(s, e)[p] = s[p]
BY AppendProperties, LenProperties

LEMMA IdleCallTyped == Native!Idle \in Native!Calls
BY HostAssumption DEF Native!Idle, Native!Calls, Native!Operations

LEMMA IdleFields == /\ Native!Idle.at = "idle" /\ Native!Idle.operation = "none"
                    /\ Native!Idle.id = 0 /\ Native!Idle.entry = 0 /\ Native!Idle.fd = 0
BY DEF Native!Idle

LEMMA CallerMoves ==
  ASSUME caller \in [Threads -> Native!Calls], NEW t \in Threads, NEW r \in Native!Calls,
         Native!Goes(t, r)
  PROVE  /\ caller' \in [Threads -> Native!Calls] /\ caller'[t] = r
         /\ \A u \in Threads : u # t => caller'[u] = caller[u]
BY DEF Native!Goes

LEMMA AnswersFacts ==
  ASSUME caller \in [Threads -> Native!Calls], NEW t \in Threads, Native!Answers(t)
  PROVE  /\ caller' \in [Threads -> Native!Calls]
         /\ caller'[t] = Native!Idle /\ caller'[t].at = "idle"
         /\ \A u \in Threads : u # t => caller'[u] = caller[u]
BY IdleCallTyped, CallerMoves DEF Native!Answers, Native!Idle

(* The tables after a call of Without and With.                             *)
LEMMA WithoutFacts ==
  ASSUME NEW f, NEW x
  PROVE  /\ DOMAIN Native!Without(f, x) = DOMAIN f \ {x}
         /\ \A i \in DOMAIN f \ {x} : Native!Without(f, x)[i] = f[i]
BY DEF Native!Without

(* The parts of TypeOK: the handles, the entries, the tables, the calls.    *)
KernelTyped == /\ DOMAIN kernel \subseteq NativeHandles
               /\ \A h \in DOMAIN kernel : kernel[h] \in Native!Kinds
Entries == objects \in Seq(Native!Objects) /\ Len(objects) <= MaxObjects
TablesTyped ==
  /\ nextSocketId \in Nat \ {0}
  /\ \A i \in DOMAIN openSockets :
       i \in 1 .. nextSocketId - 1 /\ openSockets[i] \in 1 .. Len(objects)
  /\ \A i \in DOMAIN openTlsSockets :
       i \in 1 .. nextSocketId - 1 /\ openTlsSockets[i] \in 1 .. Len(objects)
CallsTyped ==
  /\ caller \in [Threads -> Native!Calls]
  /\ \A t \in Threads : Native!Holds(t) =>
       caller[t].entry \in 1 .. Len(objects) /\ caller[t].id \in 1 .. nextSocketId - 1

LEMMA TypeParts == Native!TypeOK <=> KernelTyped /\ Entries /\ TablesTyped /\ CallsTyped
BY DEF Native!TypeOK, KernelTyped, Entries, TablesTyped, CallsTyped

LEMMA QuietTyped ==
  ASSUME Native!TypeOK, NEW t \in Threads, NEW r \in Native!Calls, Native!Goes(t, r),
         r.at \notin {"waiting", "inside"}, KernelTyped', UNCHANGED <<objects, Native!tables>>
  PROVE  Native!TypeOK'
<1>1. /\ caller' \in [Threads -> Native!Calls] /\ caller'[t] = r
      /\ \A u \in Threads : u # t => caller'[u] = caller[u]
  BY TypeParts, CallerMoves DEF CallsTyped
<1>2. CallsTyped'
  BY <1>1, TypeParts DEF CallsTyped, Native!Holds, Native!tables
<1>3. Entries' /\ TablesTyped'
  BY TypeParts DEF Entries, TablesTyped, Native!tables
<1> QED
  BY <1>2, <1>3, TypeParts DEF Native!TypeOK, KernelTyped, Entries, TablesTyped, CallsTyped

(* Handles come and go.                                                     *)
LEMMA HandleComes ==
  ASSUME KernelTyped, NEW h \in NativeHandles, NEW k \in Native!Kinds,
         kernel' = Native!With(kernel, h, k)
  PROVE  /\ KernelTyped' /\ DOMAIN kernel' = DOMAIN kernel \union {h}
         /\ \A g \in DOMAIN kernel : g # h => kernel'[g] = kernel[g]
<1>1. /\ DOMAIN kernel' = DOMAIN kernel \union {h} /\ kernel'[h] = k
      /\ \A g \in DOMAIN kernel : g # h => kernel'[g] = kernel[g]
  BY DEF Native!With
<1> QED
  BY <1>1 DEF KernelTyped

LEMMA HandleGoes ==
  ASSUME KernelTyped, NEW h, Native!closeNativeSocket(h)
  PROVE  /\ KernelTyped' /\ DOMAIN kernel' = DOMAIN kernel \ {h}
         /\ \A g \in DOMAIN kernel \ {h} : kernel'[g] = kernel[g]
<1>1. /\ DOMAIN kernel' = DOMAIN kernel \ {h}
      /\ \A g \in DOMAIN kernel \ {h} : kernel'[g] = kernel[g]
  BY WithoutFacts DEF Native!closeNativeSocket
<1> QED
  BY <1>1 DEF KernelTyped

LEMMA KindChanges ==
  ASSUME KernelTyped, NEW h \in DOMAIN kernel, NEW k \in Native!Kinds,
         kernel' = [kernel EXCEPT ![h] = k]
  PROVE  KernelTyped' /\ DOMAIN kernel' = DOMAIN kernel
BY DEF KernelTyped

(* The steps in which a call opens or closes a handle only it knows.        *)
Opening(t) ==
  \/ Native!socketOpen(t) \/ Native!TryAddress(t) \/ Native!GiveUp(t)
  \/ Native!connectWithTimeout(t) \/ Native!socketListen(t) \/ Native!Bind(t)
  \/ Native!CopyHandle(t) \/ Native!Accept(t)

(* What such a step does: nothing to a handle, one new handle that only the *)
(* call knows, or the end of a handle that only it knew.                    *)
Nothing(t) ==
  /\ DOMAIN kernel' = DOMAIN kernel /\ (Native!Private(t)' <=> Native!Private(t))
  /\ Native!Private(t) => caller'[t].fd = caller[t].fd
Opens(t) ==
  \E h \in NativeHandles \ DOMAIN kernel :
    /\ DOMAIN kernel' = DOMAIN kernel \union {h} /\ caller'[t].fd = h
    /\ Native!Private(t)' /\ ~Native!Private(t)
Closes(t) ==
  /\ Native!Private(t) /\ ~Native!Private(t)'
  /\ DOMAIN kernel' = DOMAIN kernel \ {caller[t].fd}

Quietly(t) ==
  /\ \A u \in Threads : u # t => caller'[u] = caller[u]
  /\ ~Native!Holds(t) \/ caller[t].operation = "accept"
  /\ ~Native!Holds(t)'
  /\ UNCHANGED <<objects, Native!tables>>

LEMMA OpeningFacts ==
  ASSUME Native!TypeOK, Native!HandlesOwnedOnce, NEW t \in Threads, Opening(t)
  PROVE  /\ Native!TypeOK' /\ Quietly(t)
         /\ Nothing(t) \/ Opens(t) \/ Closes(t)
<1> USE DEF Native!Holds, Native!Private
<1>c. /\ caller[t] \in Native!Calls /\ caller \in [Threads -> Native!Calls]
      /\ KernelTyped /\ Entries
  BY TypeParts DEF CallsTyped
<1>i. Native!Idle \in Native!Calls
  BY IdleCallTyped
<1>m. caller[t].left \in 0 .. MaxAddresses
  BY <1>c DEF Native!Calls
<1>l. /\ caller[t].left \in Nat
      /\ caller[t].left > 0 => caller[t].left - 1 \in 0 .. MaxAddresses
  BY <1>m, HostAssumption
<1>k. {"fresh", "connected", "listening"} \subseteq Native!Kinds
  BY DEF Native!Kinds
<1>g. ASSUME NEW r \in Native!Calls, Native!Goes(t, r), r.at \notin {"waiting", "inside"},
             KernelTyped', UNCHANGED <<objects, Native!tables>>,
             ~Native!Holds(t) \/ caller[t].operation = "accept"
      PROVE  Native!TypeOK' /\ Quietly(t) /\ caller'[t] = r
  BY <1>g, <1>c, QuietTyped, CallerMoves DEF Quietly
<1>1. CASE Native!socketOpen(t)
  <2>1. \E r \in Native!Calls : Native!Goes(t, r) /\ r.at = "next address"
    <3>1. PICK operation \in {"connect stream", "connect datagram"}, left \in 0 .. MaxAddresses :
            Native!Goes(t, [Native!Idle EXCEPT !.at = "next address", !.operation = operation,
                                               !.left = left])
      BY <1>1 DEF Native!socketOpen
    <3> DEFINE r == [Native!Idle EXCEPT !.at = "next address", !.operation = operation,
                                        !.left = left]
    <3>2. r \in Native!Calls /\ r.at = "next address"
      BY <1>i DEF Native!Calls, Native!Operations
    <3> QED
      BY <3>1, <3>2
  <2>2. PICK r \in Native!Calls : Native!Goes(t, r) /\ r.at = "next address"
    BY <2>1
  <2>3. UNCHANGED <<kernel, objects, Native!tables>> /\ caller[t].at = "idle"
    BY <1>1, IdleFields DEF Native!socketOpen
  <2>4. KernelTyped'
    BY <1>c, <2>3 DEF KernelTyped
  <2>5. Native!TypeOK' /\ Quietly(t) /\ caller'[t] = r
    BY <1>g, <2>2, <2>3, <2>4
  <2> QED
    BY <2>2, <2>3, <2>5 DEF Nothing
<1>2. CASE Native!TryAddress(t)
  <2>1. /\ caller[t].at = "next address" /\ caller[t].left \in Nat /\ caller[t].left > 0
        /\ UNCHANGED <<objects, Native!tables>>
    BY <1>2, <1>l DEF Native!TryAddress
  <2>2. CASE Native!Goes(t, [caller[t] EXCEPT !.left = @ - 1]) /\ UNCHANGED kernel
    <3>1. \E r \in Native!Calls : Native!Goes(t, r) /\ r.at = "next address"
      <4> DEFINE r == [caller[t] EXCEPT !.left = @ - 1]
      <4>1. r \in Native!Calls /\ r.at = "next address"
        BY <2>1, <2>2, <1>c, <1>l DEF Native!Calls
      <4> QED
        BY <4>1, <2>2
    <3>2. PICK r \in Native!Calls : Native!Goes(t, r) /\ r.at = "next address"
      BY <3>1
    <3>4. KernelTyped'
      BY <1>c, <2>2 DEF KernelTyped
    <3>5. Native!TypeOK' /\ Quietly(t) /\ caller'[t] = r
      BY <1>g, <2>1, <3>2, <3>4
    <3> QED
      BY <2>1, <2>2, <3>2, <3>5 DEF Nothing
  <2>3. ASSUME NEW h \in NativeHandles \ DOMAIN kernel,
               kernel' = Native!With(kernel, h, "fresh"),
               Native!Goes(t, [caller[t] EXCEPT !.at = "connecting", !.left = @ - 1, !.fd = h])
        PROVE  Native!TypeOK' /\ Quietly(t) /\ Opens(t)
    <3>1. \E r \in Native!Calls : Native!Goes(t, r) /\ r.at = "connecting" /\ r.fd = h
      <4> DEFINE r == [caller[t] EXCEPT !.at = "connecting", !.left = @ - 1, !.fd = h]
      <4>1. r \in Native!Calls /\ r.at = "connecting" /\ r.fd = h
        BY <2>1, <2>3, <1>c, <1>l DEF Native!Calls
      <4> QED
        BY <4>1, <2>3
    <3>2. PICK r \in Native!Calls : Native!Goes(t, r) /\ r.at = "connecting" /\ r.fd = h
      BY <3>1
    <3>4. KernelTyped' /\ DOMAIN kernel' = DOMAIN kernel \union {h}
      BY <1>c, <1>k, <2>3, HandleComes
    <3>5. Native!TypeOK' /\ Quietly(t) /\ caller'[t] = r
      BY <1>g, <2>1, <3>2, <3>4
    <3> QED
      BY <2>1, <3>2, <3>4, <3>5 DEF Opens
  <2> QED
    BY <1>2, <2>2, <2>3 DEF Native!TryAddress
<1>a. ASSUME Native!Answers(t), UNCHANGED <<objects, Native!tables>>, KernelTyped',
             ~Native!Holds(t) \/ caller[t].operation = "accept"
      PROVE  Native!TypeOK' /\ Quietly(t) /\ caller'[t].at = "idle"
  BY <1>a, <1>g, <1>i, IdleFields DEF Native!Answers
<1>3. CASE Native!GiveUp(t)
  <2>1. caller[t].at = "next address" /\ Native!Answers(t) /\ UNCHANGED <<kernel, objects, Native!tables>>
    BY <1>3 DEF Native!GiveUp
  <2>2. KernelTyped'
    BY <1>c, <2>1 DEF KernelTyped
  <2>3. Native!TypeOK' /\ Quietly(t) /\ caller'[t].at = "idle"
    BY <1>a, <2>1, <2>2
  <2> QED
    BY <2>1, <2>3 DEF Nothing
<1>4. CASE Native!connectWithTimeout(t)
  <2>1. caller[t].at = "connecting" /\ UNCHANGED <<objects, Native!tables>>
    BY <1>4 DEF Native!connectWithTimeout
  <2>2. caller[t].fd \in DOMAIN kernel
    BY <2>1 DEF Native!HandlesOwnedOnce
  <2>3. ASSUME kernel' = [kernel EXCEPT ![caller[t].fd] = "connected"],
               Native!Goes(t, [caller[t] EXCEPT !.at = "register"])
        PROVE  Native!TypeOK' /\ Quietly(t) /\ Nothing(t)
    <3>1. \E r \in Native!Calls : Native!Goes(t, r) /\ r.at = "register" /\ r.fd = caller[t].fd
      <4> DEFINE r == [caller[t] EXCEPT !.at = "register"]
      <4>1. r \in Native!Calls /\ r.at = "register" /\ r.fd = caller[t].fd
        BY <2>1, <2>3, <1>c, <1>l DEF Native!Calls
      <4> QED
        BY <4>1, <2>3
    <3>2. PICK r \in Native!Calls : Native!Goes(t, r) /\ r.at = "register" /\ r.fd = caller[t].fd
      BY <3>1
    <3>4. KernelTyped' /\ DOMAIN kernel' = DOMAIN kernel
      BY <1>c, <1>k, <2>2, <2>3, KindChanges
    <3>5. Native!TypeOK' /\ Quietly(t) /\ caller'[t] = r
      BY <1>g, <2>1, <3>2, <3>4
    <3> QED
      BY <2>1, <3>2, <3>4, <3>5 DEF Nothing
  <2>4. ASSUME NEW text \in {caller[t].err, TRUE}, Native!closeNativeSocket(caller[t].fd),
               Native!Goes(t, [caller[t] EXCEPT !.at = "next address", !.fd = 0, !.err = text])
        PROVE  Native!TypeOK' /\ Quietly(t) /\ Closes(t)
    <3>1. \E r \in Native!Calls : Native!Goes(t, r) /\ r.at = "next address"
      <4> DEFINE r == [caller[t] EXCEPT !.at = "next address", !.fd = 0, !.err = text]
      <4>1. r \in Native!Calls /\ r.at = "next address"
        BY <2>1, <2>4, <1>c, <1>l DEF Native!Calls
      <4> QED
        BY <4>1, <2>4
    <3>2. PICK r \in Native!Calls : Native!Goes(t, r) /\ r.at = "next address"
      BY <3>1
    <3>4. KernelTyped' /\ DOMAIN kernel' = DOMAIN kernel \ {caller[t].fd}
      BY <1>c, <2>4, HandleGoes
    <3>5. Native!TypeOK' /\ Quietly(t) /\ caller'[t] = r
      BY <1>g, <2>1, <3>2, <3>4
    <3> QED
      BY <2>1, <3>2, <3>4, <3>5 DEF Closes
  <2> QED
    BY <1>4, <2>3, <2>4 DEF Native!connectWithTimeout
<1>5. CASE Native!socketListen(t)
  <2>1. PICK h \in NativeHandles \ DOMAIN kernel :
          /\ kernel' = Native!With(kernel, h, "fresh")
          /\ Native!Goes(t, [Native!Idle EXCEPT !.at = "binding", !.operation = "listen", !.fd = h])
    BY <1>5 DEF Native!socketListen
  <2>2. \E r \in Native!Calls : Native!Goes(t, r) /\ r.at = "binding" /\ r.fd = h
    <3> DEFINE r == [Native!Idle EXCEPT !.at = "binding", !.operation = "listen", !.fd = h]
    <3>1. r \in Native!Calls /\ r.at = "binding" /\ r.fd = h
      BY <2>1, <1>i DEF Native!Calls, Native!Operations
    <3> QED
      BY <2>1, <3>1
  <2>3. PICK r \in Native!Calls : Native!Goes(t, r) /\ r.at = "binding" /\ r.fd = h
    BY <2>2
  <2>4. caller[t].at = "idle" /\ UNCHANGED <<objects, Native!tables>>
    BY <1>5, IdleFields DEF Native!socketListen
  <2>5. KernelTyped' /\ DOMAIN kernel' = DOMAIN kernel \union {h}
    BY <1>c, <1>k, <2>1, HandleComes
  <2>6. Native!TypeOK' /\ Quietly(t) /\ caller'[t] = r
    BY <1>g, <2>3, <2>4, <2>5
  <2> QED
    BY <2>1, <2>3, <2>4, <2>5, <2>6 DEF Opens
<1>6. CASE Native!Bind(t)
  <2>1. caller[t].at = "binding" /\ UNCHANGED <<objects, Native!tables>>
    BY <1>6 DEF Native!Bind
  <2>2. caller[t].fd \in DOMAIN kernel
    BY <2>1 DEF Native!HandlesOwnedOnce
  <2>3. ASSUME kernel' = [kernel EXCEPT ![caller[t].fd] = "listening"],
               Native!Goes(t, [caller[t] EXCEPT !.at = "register"])
        PROVE  Native!TypeOK' /\ Quietly(t) /\ Nothing(t)
    <3>1. \E r \in Native!Calls : Native!Goes(t, r) /\ r.at = "register" /\ r.fd = caller[t].fd
      <4> DEFINE r == [caller[t] EXCEPT !.at = "register"]
      <4>1. r \in Native!Calls /\ r.at = "register" /\ r.fd = caller[t].fd
        BY <2>1, <2>3, <1>c DEF Native!Calls
      <4> QED
        BY <4>1, <2>3
    <3>2. PICK r \in Native!Calls : Native!Goes(t, r) /\ r.at = "register" /\ r.fd = caller[t].fd
      BY <3>1
    <3>4. KernelTyped' /\ DOMAIN kernel' = DOMAIN kernel
      BY <1>c, <1>k, <2>2, <2>3, KindChanges
    <3>5. Native!TypeOK' /\ Quietly(t) /\ caller'[t] = r
      BY <1>g, <2>1, <3>2, <3>4
    <3> QED
      BY <2>1, <3>2, <3>4, <3>5 DEF Nothing
  <2>4. ASSUME Native!closeNativeSocket(caller[t].fd), Native!Answers(t)
        PROVE  Native!TypeOK' /\ Quietly(t) /\ Closes(t)
    <3>1. KernelTyped' /\ DOMAIN kernel' = DOMAIN kernel \ {caller[t].fd}
      BY <1>c, <2>4, HandleGoes
    <3>2. Native!TypeOK' /\ Quietly(t) /\ caller'[t].at = "idle"
      BY <1>a, <2>1, <2>4, <3>1
    <3> QED
      BY <2>1, <3>1, <3>2 DEF Closes
  <2> QED
    BY <1>6, <2>3, <2>4 DEF Native!Bind
<1>7. CASE Native!CopyHandle(t)
  <2>1. /\ caller[t].at = "waiting" /\ caller[t].operation = "accept"
        /\ UNCHANGED <<kernel, objects, Native!tables>>
    BY <1>7 DEF Native!CopyHandle
  <2>2. KernelTyped'
    BY <1>c, <2>1 DEF KernelTyped
  <2>3. CASE Native!Answers(t)
    <3>1. Native!TypeOK' /\ Quietly(t) /\ caller'[t].at = "idle"
      BY <1>a, <2>1, <2>2, <2>3
    <3> QED
      BY <2>1, <3>1 DEF Nothing
  <2> DEFINE h == objects[caller[t].entry].handle
  <2>4. CASE Native!Goes(t, [caller[t] EXCEPT !.at = "accepting", !.fd = h])
    <3>1. h \in NativeHandles \union {0}
      <4>1. caller[t].entry \in 1 .. Len(objects)
        BY <2>1, TypeParts DEF CallsTyped
      <4>2. objects[caller[t].entry] \in Native!Objects
        BY <4>1, <1>c, ElementOfSeq DEF Entries
      <4> QED
        BY <4>2 DEF Native!Objects
    <3>2. \E r \in Native!Calls : Native!Goes(t, r) /\ r.at = "accepting"
      <4> DEFINE r == [caller[t] EXCEPT !.at = "accepting", !.fd = h]
      <4> HIDE DEF h
      <4>1. r \in Native!Calls /\ r.at = "accepting"
        BY <3>1, <1>c DEF Native!Calls
      <4> QED
        BY <4>1, <2>4
    <3>3. PICK r \in Native!Calls : Native!Goes(t, r) /\ r.at = "accepting"
      BY <3>2
    <3>4. Native!TypeOK' /\ Quietly(t) /\ caller'[t] = r
      BY <1>g, <2>1, <2>2, <3>3
    <3> QED
      BY <2>1, <3>3, <3>4 DEF Nothing
  <2> QED
    BY <1>7, <2>3, <2>4 DEF Native!CopyHandle
<1>8. CASE Native!Accept(t)
  <2>1. caller[t].at = "accepting" /\ UNCHANGED <<objects, Native!tables>>
    BY <1>8 DEF Native!Accept
  <2>2. CASE Native!Answers(t) /\ UNCHANGED kernel
    <3>1. KernelTyped'
      BY <1>c, <2>2 DEF KernelTyped
    <3>2. Native!TypeOK' /\ Quietly(t) /\ caller'[t].at = "idle"
      BY <1>a, <2>1, <2>2, <3>1
    <3> QED
      BY <2>1, <2>2, <3>2 DEF Nothing
  <2>3. ASSUME NEW h \in NativeHandles \ DOMAIN kernel,
               kernel' = Native!With(kernel, h, "connected"),
               Native!Goes(t, [caller[t] EXCEPT !.at = "register", !.fd = h])
        PROVE  Native!TypeOK' /\ Quietly(t) /\ Opens(t)
    <3>1. \E r \in Native!Calls : Native!Goes(t, r) /\ r.at = "register" /\ r.fd = h
      <4> DEFINE r == [caller[t] EXCEPT !.at = "register", !.fd = h]
      <4>1. r \in Native!Calls /\ r.at = "register" /\ r.fd = h
        BY <2>3, <1>c DEF Native!Calls
      <4> QED
        BY <4>1, <2>3
    <3>2. PICK r \in Native!Calls : Native!Goes(t, r) /\ r.at = "register" /\ r.fd = h
      BY <3>1
    <3>3. KernelTyped' /\ DOMAIN kernel' = DOMAIN kernel \union {h}
      BY <1>c, <1>k, <2>3, HandleComes
    <3>4. Native!TypeOK' /\ Quietly(t) /\ caller'[t] = r
      BY <1>g, <2>1, <3>2, <3>3
    <3> QED
      BY <2>1, <3>2, <3>3, <3>4 DEF Opens
  <2> QED
    BY <1>8, <2>2, <2>3 DEF Native!Accept
<1> QED
  BY <1>1, <1>2, <1>3, <1>4, <1>5, <1>6, <1>7, <1>8 DEF Opening

(* A step after which nobody new knows an entry and no entry gets a handle. *)
LEMMA AgreeKeeps ==
  ASSUME Agree, \A i, o : Holder(i, o)' /\ Live(o)' => Holder(i, o) /\ Live(o)
  PROVE  Agree'
BY DEF Agree

(* A step with a new entry that one id names.                               *)
LEMMA AgreeGrows ==
  ASSUME Agree, NEW n, NEW new,
         \A i, o : Holder(i, o)' /\ Live(o)' =>
            \/ Holder(i, o) /\ Live(o) /\ i # n /\ o # new
            \/ i = n /\ o = new
  PROVE  Agree'
BY DEF Agree

LEMMA OpenConnectionKeeps ==
  ASSUME NInv, NEW t \in Threads, Opening(t)
  PROVE  NInv'
<1>1. /\ Native!TypeOK /\ Native!HandlesOwnedOnce /\ Native!Exclusive
      /\ Agree /\ TablesRight /\ Reached
  BY DEF NInv
<1>2. /\ Native!TypeOK' /\ Quietly(t)
      /\ Nothing(t) \/ Opens(t) \/ Closes(t)
  BY <1>1, OpeningFacts
<1>3. /\ \A u \in Threads : u # t => caller'[u] = caller[u]
      /\ UNCHANGED <<objects, openSockets, openTlsSockets>>
      /\ ~Native!Holds(t)'
      /\ ~Native!Holds(t) \/ caller[t].operation = "accept"
  BY <1>2 DEF Quietly, Native!tables
<1>4. Native!HandlesOwnedOnce'
  <2>0. DOMAIN kernel \subseteq NativeHandles /\ 0 \notin NativeHandles
    BY <1>1, HostAssumption, TypeParts DEF KernelTyped
  <2>1. CASE Nothing(t)
    BY <1>1, <1>3, <2>1 DEF Nothing, Native!HandlesOwnedOnce, Native!Private
  <2>2. CASE Opens(t)
    BY <1>1, <1>3, <2>0, <2>2 DEF Opens, Native!HandlesOwnedOnce, Native!Private
  <2>3. CASE Closes(t)
    BY <1>1, <1>3, <2>0, <2>3 DEF Closes, Native!HandlesOwnedOnce, Native!Private
  <2> QED
    BY <1>2, <2>1, <2>2, <2>3
<1>5. Native!Exclusive'
  BY <1>1, <1>3 DEF Native!Exclusive, Native!Holds
<1>6. \A i, o : Holder(i, o)' => Holder(i, o)
  BY <1>3 DEF Holder, Native!Holds
<1>7. Agree'
  BY <1>1, <1>3, <1>6, AgreeKeeps DEF Live
<1>8. TablesRight'
  BY <1>1, <1>3 DEF TablesRight, Live, Native!Holds, Native!Named
<1>9. Reached'
  BY <1>1, <1>3 DEF Reached, Live, Native!Holds, Native!Named, Native!EntryOf
<1> QED
  BY <1>2, <1>4, <1>5, <1>7, <1>8, <1>9 DEF NInv

LEMMA RegisterEntryKeeps ==
  ASSUME NInv, NEW t \in Threads, Native!Register(t)
  PROVE  NInv'
<1> USE DEF Native!Holds, Native!Private
<1>1. /\ Native!TypeOK /\ Native!HandlesOwnedOnce /\ Native!Exclusive
      /\ Agree /\ TablesRight /\ Reached
  BY DEF NInv
<1>2. KernelTyped /\ Entries /\ TablesTyped /\ CallsTyped
  BY <1>1, TypeParts
<1>n. 0 \notin NativeHandles /\ 0 \notin Threads /\ MaxObjects \in Nat /\ Len(objects) \in Nat
  BY <1>2, HostAssumption, LenProperties DEF Entries
<1> DEFINE n == Len(objects) + 1
           h == caller[t].fd
           e == [handle |-> h, listener |-> caller[t].operation = "listen",
                 stream |-> caller[t].operation # "connect datagram", ioMutex |-> Native!Nobody]
<1>3. /\ caller[t].at = "register" /\ Len(objects) < MaxObjects
      /\ objects' = Append(objects, e)
      /\ openSockets' = Native!With(openSockets, nextSocketId, n)
      /\ nextSocketId' = nextSocketId + 1
      /\ Native!Answers(t) /\ UNCHANGED <<kernel, openTlsSockets>>
  BY DEF Native!Register
<1>4. h \in DOMAIN kernel /\ h \in NativeHandles /\ h # 0
  BY <1>1, <1>2, <1>3, <1>n DEF Native!HandlesOwnedOnce, KernelTyped
<1>5. e \in Native!Objects /\ e.handle = h /\ e.ioMutex = 0
  BY <1>4 DEF Native!Objects, Native!Nobody
<1>6. /\ objects' \in Seq(Native!Objects) /\ Len(objects') = n
      /\ objects'[n].handle = h /\ objects'[n].ioMutex = 0
      /\ \A p \in 1 .. Len(objects) : objects'[p] = objects[p]
  <2> HIDE DEF e, h
  <2>1. objects \in Seq(Native!Objects)
    BY <1>2 DEF Entries
  <2> QED
    BY <1>3, <1>5, <2>1, EntryAdded
<1>7. /\ DOMAIN openSockets' = DOMAIN openSockets \union {nextSocketId}
      /\ openSockets'[nextSocketId] = n
      /\ \A i \in DOMAIN openSockets : i # nextSocketId => openSockets'[i] = openSockets[i]
  BY <1>3 DEF Native!With
<1>8. /\ caller' \in [Threads -> Native!Calls] /\ caller'[t].at = "idle"
      /\ \A u \in Threads : u # t => caller'[u] = caller[u]
  BY <1>2, <1>3, AnswersFacts DEF CallsTyped
<1> HIDE DEF e, h, n
<1>9. n \in Nat /\ n = Len(objects) + 1 /\ nextSocketId \in Nat \ {0}
  BY <1>n, <1>2 DEF n, TablesTyped
<1>10. Native!TypeOK'
  <2>1. KernelTyped'
    BY <1>2, <1>3 DEF KernelTyped
  <2>2. Entries'
    BY <1>6, <1>3, <1>9, <1>n DEF Entries
  <2>3. TablesTyped'
    BY <1>2, <1>3, <1>6, <1>7, <1>9, <1>n DEF TablesTyped
  <2>4. CallsTyped'
    BY <1>2, <1>3, <1>6, <1>8, <1>9, <1>n DEF CallsTyped
  <2> QED
    BY <2>1, <2>2, <2>3, <2>4, TypeParts DEF Native!TypeOK, KernelTyped, Entries, TablesTyped, CallsTyped
<1>11. Native!HandlesOwnedOnce'
  <2>1. \A o \in 1 .. Len(objects)' : o \in 1 .. Len(objects) \/ o = n
    BY <1>6, <1>9, <1>n
  <2>2. 1 .. Len(objects) \subseteq 1 .. Len(objects)' /\ n \in 1 .. Len(objects)'
        /\ n \notin 1 .. Len(objects)
    BY <1>6, <1>9, <1>n
  <2>3. caller[t].fd = h
    BY DEF h
  <2> QED
    BY <1>1, <1>3, <1>4, <1>6, <1>8, <2>1, <2>2, <2>3 DEF Native!HandlesOwnedOnce
<1>12. Native!Exclusive'
  BY <1>1, <1>2, <1>6, <1>8 DEF Native!Exclusive, CallsTyped
<1>13. \A i, o : Holder(i, o) => i \in 1 .. nextSocketId - 1 /\ o \in 1 .. Len(objects)
  BY <1>2 DEF Holder, TablesTyped, CallsTyped
<1>14. \A i, o : Holder(i, o)' => Holder(i, o) \/ (i = nextSocketId /\ o = n)
  BY <1>3, <1>7, <1>8 DEF Holder
<1>15. Agree'
  <2>1. \A i, o : Holder(i, o)' /\ Live(o)' =>
            \/ Holder(i, o) /\ Live(o) /\ i # nextSocketId /\ o # n
            \/ i = nextSocketId /\ o = n
    BY <1>6, <1>9, <1>13, <1>14, <1>n DEF Live
  <2> QED
    BY <1>1, <2>1, AgreeGrows
<1>16. TablesRight'
  <2>1. \A i \in DOMAIN openSockets : /\ i # nextSocketId /\ Live(openSockets[i])'
                                      /\ openSockets'[i] = openSockets[i]
    BY <1>1, <1>2, <1>6, <1>7, <1>9 DEF TablesRight, Live, TablesTyped
  <2>2. \A i \in DOMAIN openTlsSockets : i # nextSocketId /\ Live(openTlsSockets[i])'
    BY <1>1, <1>2, <1>3, <1>6, <1>9 DEF TablesRight, Live, TablesTyped
  <2>3. objects'[openSockets'[nextSocketId]].handle # 0
    BY <1>4, <1>6, <1>7
  <2>4. \A i \in DOMAIN openSockets' : i \notin DOMAIN openTlsSockets' /\ Live(openSockets[i])'
    BY <1>1, <1>3, <1>7, <2>1, <2>2, <2>3 DEF TablesRight, Live
  <2>5. \A i \in DOMAIN openTlsSockets' : Live(openTlsSockets[i])'
    BY <1>3, <2>2
  <2>6. \A u \in Threads : (Native!Holds(u) /\ caller[u].operation = "upgrade")' =>
          \A i \in DOMAIN openTlsSockets' : openTlsSockets'[i] # caller'[u].entry
    BY <1>1, <1>3, <1>8 DEF TablesRight
  <2>7. \A u \in Threads :
          (caller[u].at = "waiting" /\ caller[u].operation = "close" /\ Live(caller[u].entry))'
            => caller'[u].id \notin Native!Named'
    BY <1>1, <1>2, <1>3, <1>6, <1>7, <1>8, <1>9 DEF TablesRight, Live, Native!Named, CallsTyped
  <2> QED
    BY <2>4, <2>5, <2>6, <2>7 DEF TablesRight, Live
<1>17. Reached'
  <2>1. \A i \in Native!Named : i \in Native!Named' /\ Native!EntryOf(i)' = Native!EntryOf(i)
    BY <1>2, <1>3, <1>7, <1>9 DEF Native!Named, Native!EntryOf, TablesTyped
  <2>0. PICK k : k = nextSocketId
    OBVIOUS
  <2>2. k \in Native!Named' /\ Native!EntryOf(k)' = n
    BY <1>7, <2>0 DEF Native!Named, Native!EntryOf
  <2>3. ASSUME NEW o \in 1 .. Len(objects)', Live(o)'
        PROVE  \/ \E i \in Native!Named' : Native!EntryOf(i)' = o
               \/ \E u \in Threads : /\ caller'[u].at = "waiting" /\ caller'[u].operation = "close"
                                     /\ caller'[u].entry = o
    <3>1. CASE o = n
      BY <2>2, <3>1
    <3>2. CASE o \in 1 .. Len(objects)
      BY <1>1, <1>3, <1>6, <1>8, <2>1, <2>3, <3>2 DEF Reached, Live
    <3> QED
      BY <1>6, <1>9, <1>n, <3>1, <3>2
  <2> QED
    BY <2>3 DEF Reached, Live
<1> QED
  BY <1>10, <1>11, <1>12, <1>15, <1>16, <1>17 DEF NInv

(* A call that looks an entry up in a table, where it stays or not.         *)
Looking(t) == \E id \in Native!Ids :
  Native!socketAccept(t, id) \/ Native!handleSockets(t, id) \/ Native!socketTlsUpgradeVm(t, id)

LookedUp(t, operation, i, o) ==
  /\ caller[t].at = "idle" /\ caller' \in [Threads -> Native!Calls]
  /\ caller'[t].at = "waiting" /\ caller'[t].operation = operation
  /\ caller'[t].id = i /\ caller'[t].entry = o
  /\ \A u \in Threads : u # t => caller'[u] = caller[u]
  /\ UNCHANGED <<kernel, objects, nextSocketId>>

LEMMA LooksFacts ==
  ASSUME caller \in [Threads -> Native!Calls], NEW t \in Threads, caller[t] = Native!Idle,
         NEW operation \in Native!Operations, NEW i \in Nat, NEW o \in Nat,
         Native!Looks(t, operation, i, o), UNCHANGED <<kernel, objects, nextSocketId>>
  PROVE  LookedUp(t, operation, i, o)
<1> DEFINE r == [Native!Idle EXCEPT !.at = "waiting", !.operation = operation, !.id = i, !.entry = o]
<1>1. /\ r \in Native!Calls /\ r.at = "waiting" /\ r.operation = operation
      /\ r.id = i /\ r.entry = o
  BY IdleCallTyped DEF Native!Calls
<1>2. Native!Goes(t, r)
  BY DEF Native!Looks
<1> HIDE DEF r
<1>3. /\ caller' \in [Threads -> Native!Calls] /\ caller'[t] = r
      /\ \A u \in Threads : u # t => caller'[u] = caller[u]
  BY <1>1, <1>2, CallerMoves
<1> QED
  BY <1>1, <1>3, IdleFields DEF LookedUp

LEMMA LookingFacts ==
  ASSUME NInv, NEW t \in Threads, Looking(t)
  PROVE  \E i \in 1 .. nextSocketId - 1, o \in 1 .. Len(objects), operation \in Native!Operations :
           /\ LookedUp(t, operation, i, o)
           /\ \/ /\ operation # "close" /\ UNCHANGED <<openSockets, openTlsSockets>>
                 /\ \/ i \in DOMAIN openSockets /\ openSockets[i] = o
                    \/ /\ i \in DOMAIN openTlsSockets /\ openTlsSockets[i] = o
                       /\ operation # "upgrade"
              \/ /\ operation = "close" /\ i \in DOMAIN openSockets /\ openSockets[i] = o
                 /\ openSockets' = Native!Without(openSockets, i) /\ UNCHANGED openTlsSockets
              \/ /\ operation = "close" /\ i \in DOMAIN openTlsSockets /\ openTlsSockets[i] = o
                 /\ openTlsSockets' = Native!Without(openTlsSockets, i) /\ UNCHANGED openSockets
<1>1. PICK i \in Native!Ids : \/ Native!socketAccept(t, i) \/ Native!handleSockets(t, i)
                              \/ Native!socketTlsUpgradeVm(t, i)
  BY DEF Looking
<1>2. TablesTyped /\ CallsTyped /\ Entries
  BY TypeParts DEF NInv
<1>3. {"accept", "use", "close", "upgrade"} \subseteq Native!Operations
  BY DEF Native!Operations
<1>4. /\ caller[t] = Native!Idle /\ UNCHANGED <<kernel, objects, nextSocketId>>
      /\ caller \in [Threads -> Native!Calls] /\ Len(objects) \in Nat
  BY <1>1, <1>2, LenProperties
  DEF Native!socketAccept, Native!handleSockets, Native!socketTlsUpgradeVm, Native!tables,
      CallsTyped, Entries
<1>5. \A j \in DOMAIN openSockets : j \in 1 .. nextSocketId - 1
        /\ openSockets[j] \in 1 .. Len(objects) /\ j \in Nat /\ openSockets[j] \in Nat
  BY <1>2, <1>4 DEF TablesTyped
<1>6. \A j \in DOMAIN openTlsSockets : j \in 1 .. nextSocketId - 1
        /\ openTlsSockets[j] \in 1 .. Len(objects) /\ j \in Nat /\ openTlsSockets[j] \in Nat
  BY <1>2, <1>4 DEF TablesTyped
<1>7. ASSUME i \in DOMAIN openSockets, NEW operation \in Native!Operations,
             Native!Looks(t, operation, i, openSockets[i])
      PROVE  LookedUp(t, operation, i, openSockets[i])
  BY <1>4, <1>5, <1>7, LooksFacts
<1>8. ASSUME i \in DOMAIN openTlsSockets, NEW operation \in Native!Operations,
             Native!Looks(t, operation, i, openTlsSockets[i])
      PROVE  LookedUp(t, operation, i, openTlsSockets[i])
  BY <1>4, <1>6, <1>8, LooksFacts
<1>9. CASE Native!socketAccept(t, i)
  <2>1. /\ i \in DOMAIN openSockets /\ Native!Looks(t, "accept", i, openSockets[i])
        /\ UNCHANGED <<openSockets, openTlsSockets>>
    BY <1>9 DEF Native!socketAccept, Native!tables
  <2>2. LookedUp(t, "accept", i, openSockets[i])
    BY <1>3, <1>7, <2>1
  <2> QED
    BY <1>3, <1>5, <2>1, <2>2
<1>10. CASE Native!socketTlsUpgradeVm(t, i)
  <2>1. /\ i \in DOMAIN openSockets /\ Native!Looks(t, "upgrade", i, openSockets[i])
        /\ UNCHANGED <<openSockets, openTlsSockets>>
    BY <1>10 DEF Native!socketTlsUpgradeVm, Native!tables
  <2>2. LookedUp(t, "upgrade", i, openSockets[i])
    BY <1>3, <1>7, <2>1
  <2> QED
    BY <1>3, <1>5, <2>1, <2>2
<1>11. CASE Native!handleSockets(t, i)
  <2>1. CASE /\ i \in DOMAIN openSockets /\ UNCHANGED openTlsSockets
             /\ Native!Looks(t, "use", i, openSockets[i]) /\ UNCHANGED openSockets
    <3>1. LookedUp(t, "use", i, openSockets[i])
      BY <1>3, <1>7, <2>1
    <3> QED
      BY <1>3, <1>5, <2>1, <3>1
  <2>2. CASE /\ i \in DOMAIN openSockets /\ UNCHANGED openTlsSockets
             /\ Native!Looks(t, "close", i, openSockets[i])
             /\ openSockets' = Native!Without(openSockets, i)
    <3>1. LookedUp(t, "close", i, openSockets[i])
      BY <1>3, <1>7, <2>2
    <3> QED
      BY <1>3, <1>5, <2>2, <3>1
  <2>3. CASE /\ i \in DOMAIN openTlsSockets /\ UNCHANGED openSockets
             /\ Native!Looks(t, "use", i, openTlsSockets[i]) /\ UNCHANGED openTlsSockets
    <3>1. LookedUp(t, "use", i, openTlsSockets[i])
      BY <1>3, <1>8, <2>3
    <3> QED
      BY <1>3, <1>6, <2>3, <3>1
  <2>4. CASE /\ i \in DOMAIN openTlsSockets /\ UNCHANGED openSockets
             /\ Native!Looks(t, "close", i, openTlsSockets[i])
             /\ openTlsSockets' = Native!Without(openTlsSockets, i)
    <3>1. LookedUp(t, "close", i, openTlsSockets[i])
      BY <1>3, <1>8, <2>4
    <3> QED
      BY <1>3, <1>6, <2>4, <3>1
  <2> QED
    BY <1>11, <2>1, <2>2, <2>3, <2>4 DEF Native!handleSockets
<1> QED
  BY <1>1, <1>9, <1>10, <1>11

LEMMA LookingKeeps ==
  ASSUME NInv, NEW t \in Threads, Looking(t)
  PROVE  NInv'
<1> USE DEF Native!Holds, Native!Private
<1>1. /\ Native!TypeOK /\ Native!HandlesOwnedOnce /\ Native!Exclusive
      /\ Agree /\ TablesRight /\ Reached
  BY DEF NInv
<1>2. KernelTyped /\ Entries /\ TablesTyped /\ CallsTyped
  BY <1>1, TypeParts
<1>3. PICK i \in 1 .. nextSocketId - 1, o \in 1 .. Len(objects), operation \in Native!Operations :
        /\ LookedUp(t, operation, i, o)
        /\ \/ /\ operation # "close" /\ UNCHANGED <<openSockets, openTlsSockets>>
              /\ \/ i \in DOMAIN openSockets /\ openSockets[i] = o
                 \/ /\ i \in DOMAIN openTlsSockets /\ openTlsSockets[i] = o
                    /\ operation # "upgrade"
           \/ /\ operation = "close" /\ i \in DOMAIN openSockets /\ openSockets[i] = o
              /\ openSockets' = Native!Without(openSockets, i) /\ UNCHANGED openTlsSockets
           \/ /\ operation = "close" /\ i \in DOMAIN openTlsSockets /\ openTlsSockets[i] = o
              /\ openTlsSockets' = Native!Without(openTlsSockets, i) /\ UNCHANGED openSockets
  BY LookingFacts
<1>4. /\ caller[t].at = "idle" /\ caller' \in [Threads -> Native!Calls]
      /\ caller'[t].at = "waiting" /\ caller'[t].operation = operation
      /\ caller'[t].id = i /\ caller'[t].entry = o
      /\ \A u \in Threads : u # t => caller'[u] = caller[u]
      /\ UNCHANGED <<kernel, objects, nextSocketId>>
  BY <1>3 DEF LookedUp
<1>5. Holder(i, o)
  BY <1>3 DEF Holder
<1>6. /\ \A j \in DOMAIN openSockets' : j \in DOMAIN openSockets /\ openSockets'[j] = openSockets[j]
      /\ \A j \in DOMAIN openTlsSockets' :
           j \in DOMAIN openTlsSockets /\ openTlsSockets'[j] = openTlsSockets[j]
      /\ \A j : j # i => /\ j \in DOMAIN openSockets => j \in DOMAIN openSockets'
                         /\ j \in DOMAIN openTlsSockets => j \in DOMAIN openTlsSockets'
      /\ operation # "close" => UNCHANGED <<openSockets, openTlsSockets>>
      /\ operation = "close" => \/ i \in DOMAIN openSockets /\ i \notin DOMAIN openSockets'
                                \/ i \in DOMAIN openTlsSockets /\ i \notin DOMAIN openTlsSockets'
      /\ \/ i \in DOMAIN openSockets /\ openSockets[i] = o
         \/ i \in DOMAIN openTlsSockets /\ openTlsSockets[i] = o /\ operation # "upgrade"
  <2>1. CASE operation # "close"
    BY <1>3, <2>1
  <2>2. CASE /\ operation = "close" /\ i \in DOMAIN openSockets /\ openSockets[i] = o
             /\ openSockets' = Native!Without(openSockets, i) /\ UNCHANGED openTlsSockets
    <3>1. /\ DOMAIN openSockets' = DOMAIN openSockets \ {i}
          /\ \A j \in DOMAIN openSockets \ {i} : openSockets'[j] = openSockets[j]
      BY <2>2 DEF Native!Without
    <3> QED
      BY <2>2, <3>1
  <2>3. CASE /\ operation = "close" /\ i \in DOMAIN openTlsSockets /\ openTlsSockets[i] = o
             /\ openTlsSockets' = Native!Without(openTlsSockets, i) /\ UNCHANGED openSockets
    <3>1. /\ DOMAIN openTlsSockets' = DOMAIN openTlsSockets \ {i}
          /\ \A j \in DOMAIN openTlsSockets \ {i} : openTlsSockets'[j] = openTlsSockets[j]
      BY <2>3 DEF Native!Without
    <3> QED
      BY <2>3, <3>1
  <2> QED
    BY <1>3, <2>1, <2>2, <2>3
<1>10. Native!TypeOK'
  <2>1. KernelTyped' /\ Entries'
    BY <1>2, <1>4 DEF KernelTyped, Entries
  <2>2. TablesTyped'
    BY <1>2, <1>4, <1>6 DEF TablesTyped
  <2>3. CallsTyped'
    BY <1>2, <1>4 DEF CallsTyped
  <2> QED
    BY <2>1, <2>2, <2>3, TypeParts DEF Native!TypeOK, KernelTyped, Entries, TablesTyped, CallsTyped
<1>11. Native!HandlesOwnedOnce'
  BY <1>1, <1>4 DEF Native!HandlesOwnedOnce
<1>12. Native!Exclusive'
  BY <1>1, <1>4 DEF Native!Exclusive
<1>13. \A j, p : Holder(j, p)' => Holder(j, p)
  BY <1>4, <1>5, <1>6 DEF Holder
<1>14. Agree'
  BY <1>1, <1>4, <1>13, AgreeKeeps DEF Live
<1>15. ASSUME operation = "upgrade", NEW j \in DOMAIN openTlsSockets PROVE openTlsSockets[j] # o
  <2>1. /\ i \in DOMAIN openSockets /\ openSockets[i] = o /\ Live(o)
        /\ j \notin DOMAIN openSockets /\ Live(openTlsSockets[j])
    BY <1>1, <1>6, <1>15 DEF TablesRight
  <2>2. Holder(j, openTlsSockets[j])
    BY DEF Holder
  <2> QED
    BY <1>1, <1>5, <2>1, <2>2 DEF Agree
<1>16. ASSUME operation = "close", NEW j \in Native!Named' PROVE j # i
  <2>1. \/ j \in DOMAIN openSockets /\ j \in DOMAIN openSockets'
        \/ j \in DOMAIN openTlsSockets /\ j \in DOMAIN openTlsSockets'
    BY <1>6 DEF Native!Named
  <2>2. i \notin DOMAIN openSockets' \/ i \notin DOMAIN openTlsSockets'
    BY <1>6, <1>16
  <2> QED
    BY <1>1, <1>6, <1>16, <2>1 DEF TablesRight
<1>17. TablesRight'
  <2>1. \A j \in DOMAIN openSockets' : j \notin DOMAIN openTlsSockets' /\ Live(openSockets[j])'
    BY <1>1, <1>4, <1>6 DEF TablesRight, Live
  <2>2. \A j \in DOMAIN openTlsSockets' : Live(openTlsSockets[j])'
    BY <1>1, <1>4, <1>6 DEF TablesRight, Live
  <2>3. \A u \in Threads : (Native!Holds(u) /\ caller[u].operation = "upgrade")' =>
          \A j \in DOMAIN openTlsSockets' : openTlsSockets'[j] # caller'[u].entry
    BY <1>1, <1>4, <1>6, <1>15 DEF TablesRight
  <2>4. \A u \in Threads :
          (caller[u].at = "waiting" /\ caller[u].operation = "close" /\ Live(caller[u].entry))'
            => caller'[u].id \notin Native!Named'
    <3>1. Native!Named' \subseteq Native!Named
      BY <1>6 DEF Native!Named
    <3> QED
      BY <1>1, <1>4, <1>16, <3>1 DEF TablesRight, Live
  <2> QED
    BY <2>1, <2>2, <2>3, <2>4 DEF TablesRight, Live
<1>18. Reached'
  <2>1. \A j \in Native!Named : j # i => j \in Native!Named' /\ Native!EntryOf(j)' = Native!EntryOf(j)
    BY <1>6 DEF Native!Named, Native!EntryOf
  <2>2. operation # "close" =>
          \A j \in Native!Named : j \in Native!Named' /\ Native!EntryOf(j)' = Native!EntryOf(j)
    BY <1>6 DEF Native!Named, Native!EntryOf
  <2>3. operation = "close" => Native!EntryOf(i) = o
    BY <1>1, <1>6 DEF Native!EntryOf, TablesRight
  <2>4. ASSUME NEW p \in 1 .. Len(objects), Live(p)
        PROVE  \/ \E j \in Native!Named' : Native!EntryOf(j)' = p
               \/ \E u \in Threads : /\ caller'[u].at = "waiting" /\ caller'[u].operation = "close"
                                     /\ caller'[u].entry = p
    <3>1. CASE \E u \in Threads : /\ caller[u].at = "waiting" /\ caller[u].operation = "close"
                                  /\ caller[u].entry = p
      BY <1>4, <3>1
    <3>2. CASE \E j \in Native!Named : Native!EntryOf(j) = p
      BY <1>4, <2>1, <2>2, <2>3, <3>2
    <3> QED
      BY <1>1, <2>4, <3>1, <3>2 DEF Reached
  <2> QED
    BY <1>4, <2>4 DEF Reached, Live
<1> QED
  BY <1>10, <1>11, <1>12, <1>14, <1>17, <1>18 DEF NInv

(* One field of an entry changes.                                           *)
LEMMA HandleCleared ==
  ASSUME NEW s \in Seq(Native!Objects), NEW o \in 1 .. Len(s)
  PROVE  LET r == [s EXCEPT ![o].handle = 0]
         IN /\ r \in Seq(Native!Objects) /\ Len(r) = Len(s)
            /\ r[o].handle = 0 /\ r[o].ioMutex = s[o].ioMutex
            /\ \A p \in 1 .. Len(s) : p # o => r[p] = s[p]
<1> DEFINE e == [s[o] EXCEPT !.handle = 0]
           r == [s EXCEPT ![o].handle = 0]
<1>1. s[o] \in Native!Objects /\ DOMAIN s = 1 .. Len(s)
  BY ElementOfSeq, LenProperties
<1>2. e \in Native!Objects /\ e.handle = 0 /\ e.ioMutex = s[o].ioMutex
  BY <1>1 DEF Native!Objects
<1>3. r = [s EXCEPT ![o] = e]
  BY <1>1
<1>4. /\ [s EXCEPT ![o] = e] \in Seq(Native!Objects)
      /\ Len([s EXCEPT ![o] = e]) = Len(s)
      /\ \A p \in 1 .. Len(s) : [s EXCEPT ![o] = e][p] = IF p = o THEN e ELSE s[p]
  BY <1>2, ExceptSeq
<1> QED
  BY <1>2, <1>3, <1>4

LEMMA MutexSet ==
  ASSUME NEW s \in Seq(Native!Objects), NEW o \in 1 .. Len(s), NEW m \in Threads \union {0}
  PROVE  LET r == [s EXCEPT ![o].ioMutex = m]
         IN /\ r \in Seq(Native!Objects) /\ Len(r) = Len(s)
            /\ r[o].handle = s[o].handle /\ r[o].ioMutex = m
            /\ \A p \in 1 .. Len(s) : p # o => r[p] = s[p]
<1> DEFINE e == [s[o] EXCEPT !.ioMutex = m]
           r == [s EXCEPT ![o].ioMutex = m]
<1>1. s[o] \in Native!Objects /\ DOMAIN s = 1 .. Len(s)
  BY ElementOfSeq, LenProperties
<1>2. e \in Native!Objects /\ e.handle = s[o].handle /\ e.ioMutex = m
  BY <1>1 DEF Native!Objects, Native!Nobody
<1>3. r = [s EXCEPT ![o] = e]
  BY <1>1
<1>4. /\ [s EXCEPT ![o] = e] \in Seq(Native!Objects)
      /\ Len([s EXCEPT ![o] = e]) = Len(s)
      /\ \A p \in 1 .. Len(s) : [s EXCEPT ![o] = e][p] = IF p = o THEN e ELSE s[p]
  BY <1>2, ExceptSeq
<1> QED
  BY <1>2, <1>3, <1>4

(* A call whose own place changes: which handles are open, which entries    *)
(* have one and what the tables say stays; mutexes may change.              *)
LEMMA PlaceKeeps ==
  ASSUME NInv, NEW t \in Threads, NEW r \in Native!Calls,
         caller' \in [Threads -> Native!Calls], caller'[t] = r,
         \A u \in Threads : u # t => caller'[u] = caller[u],
         Native!Holds(t), r.at \in {"idle", "inside"},
         r.at = "inside" => /\ r.entry = caller[t].entry /\ r.id = caller[t].id
                            /\ r.operation = caller[t].operation
                            /\ Live(r.entry) /\ objects'[r.entry].ioMutex = t,
         caller[t].operation = "close" => ~Live(caller[t].entry),
         objects' \in Seq(Native!Objects), Len(objects') = Len(objects),
         \A o \in 1 .. Len(objects) : objects'[o].handle = objects[o].handle,
         \A u \in Threads : u # t /\ caller[u].at = "inside" =>
            objects'[caller[u].entry].ioMutex = u,
         UNCHANGED <<kernel, openSockets, openTlsSockets, nextSocketId>>
  PROVE  NInv'
<1> USE DEF Native!Holds, Native!Private
<1>1. /\ Native!TypeOK /\ Native!HandlesOwnedOnce /\ Native!Exclusive
      /\ Agree /\ TablesRight /\ Reached
  BY DEF NInv
<1>2. KernelTyped /\ Entries /\ TablesTyped /\ CallsTyped
  BY <1>1, TypeParts
<1>3. Native!TypeOK'
  <2>1. KernelTyped' /\ Entries'
    BY <1>2 DEF KernelTyped, Entries
  <2>2. TablesTyped'
    BY <1>2 DEF TablesTyped
  <2>3. CallsTyped'
    BY <1>2 DEF CallsTyped
  <2> QED
    BY <2>1, <2>2, <2>3, TypeParts DEF Native!TypeOK, KernelTyped, Entries, TablesTyped, CallsTyped
<1>4. Native!HandlesOwnedOnce'
  <2>1. \A u \in Threads : /\ Native!Private(u)' <=> Native!Private(u)
                           /\ Native!Private(u) => caller'[u].fd = caller[u].fd
    OBVIOUS
  <2> QED
    BY <1>1, <2>1 DEF Native!HandlesOwnedOnce
<1>5. Native!Exclusive'
  <2>1. \A u \in Threads : u # t /\ caller[u].at = "inside" => objects'[caller[u].entry].handle # 0
    BY <1>1, <1>2 DEF Native!Exclusive, CallsTyped
  <2>2. caller[t].entry \in 1 .. Len(objects)
    BY <1>2 DEF CallsTyped
  <2> QED
    BY <2>1, <2>2 DEF Native!Exclusive, Live
<1>6. \A j, p : Holder(j, p)' => Holder(j, p)
  BY DEF Holder
<1>7. \A j, p : Holder(j, p) => p \in 1 .. Len(objects)
  BY <1>2 DEF Holder, TablesTyped, CallsTyped
<1>8. Agree'
  BY <1>1, <1>6, <1>7, AgreeKeeps DEF Live
<1>9. TablesRight'
  <2>1. /\ \A j \in DOMAIN openSockets : openSockets[j] \in 1 .. Len(objects)
        /\ \A j \in DOMAIN openTlsSockets : openTlsSockets[j] \in 1 .. Len(objects)
    BY <1>2 DEF TablesTyped
  <2>2. /\ \A j \in DOMAIN openSockets' : j \notin DOMAIN openTlsSockets' /\ Live(openSockets[j])'
        /\ \A j \in DOMAIN openTlsSockets' : Live(openTlsSockets[j])'
    BY <1>1, <2>1 DEF TablesRight, Live
  <2>3. \A u \in Threads : (Native!Holds(u) /\ caller[u].operation = "upgrade")' =>
          \A j \in DOMAIN openTlsSockets' : openTlsSockets'[j] # caller'[u].entry
    BY <1>1 DEF TablesRight
  <2>4. \A u \in Threads :
          (caller[u].at = "waiting" /\ caller[u].operation = "close" /\ Live(caller[u].entry))'
            => caller'[u].id \notin Native!Named'
    BY <1>1, <1>2 DEF TablesRight, Live, Native!Named, CallsTyped
  <2> QED
    BY <2>2, <2>3, <2>4 DEF TablesRight, Live
<1>10. Reached'
  BY <1>1 DEF Reached, Live, Native!Named, Native!EntryOf
<1> QED
  BY <1>3, <1>4, <1>5, <1>8, <1>9, <1>10 DEF NInv

(* A call ends an entry: its handle is closed and no table names it.        *)
LEMMA EndKeeps ==
  ASSUME NInv, NEW t \in Threads, NEW o, o = caller[t].entry, Native!Holds(t),
         caller' \in [Threads -> Native!Calls], caller'[t].at = "idle",
         \A u \in Threads : u # t => caller'[u] = caller[u],
         Native!closeNativeSocket(objects[o].handle),
         objects' \in Seq(Native!Objects), Len(objects') = Len(objects),
         objects'[o].handle = 0,
         \A p \in 1 .. Len(objects) : p # o => objects'[p] = objects[p],
         \A u \in Threads : u # t /\ caller[u].at = "inside" => caller[u].entry # o,
         \A j \in DOMAIN openSockets' :
            j \in DOMAIN openSockets /\ openSockets'[j] = openSockets[j] /\ openSockets[j] # o,
         \A j \in DOMAIN openSockets : openSockets[j] # o => j \in DOMAIN openSockets',
         \A j \in DOMAIN openTlsSockets : openTlsSockets[j] # o,
         UNCHANGED <<openTlsSockets, nextSocketId>>
  PROVE  NInv'
<1> USE DEF Native!Holds, Native!Private
<1>1. /\ Native!TypeOK /\ Native!HandlesOwnedOnce /\ Native!Exclusive
      /\ Agree /\ TablesRight /\ Reached
  BY DEF NInv
<1>2. KernelTyped /\ Entries /\ TablesTyped /\ CallsTyped
  BY <1>1, TypeParts
<1>3. o \in 1 .. Len(objects)
  BY <1>2 DEF CallsTyped
<1>4. /\ KernelTyped' /\ DOMAIN kernel' = DOMAIN kernel \ {objects[o].handle}
  BY <1>2, HandleGoes
<1>5. 0 \notin DOMAIN kernel
  BY <1>2, HostAssumption DEF KernelTyped
<1>6. Native!TypeOK'
  <2>1. Entries'
    BY <1>2 DEF Entries
  <2>2. TablesTyped'
    BY <1>2 DEF TablesTyped
  <2>3. CallsTyped'
    BY <1>2 DEF CallsTyped
  <2> QED
    BY <1>4, <2>1, <2>2, <2>3, TypeParts DEF Native!TypeOK, KernelTyped, Entries, TablesTyped, CallsTyped
<1>7. Native!HandlesOwnedOnce'
  <2>1. \A u \in Threads : /\ Native!Private(u)' <=> Native!Private(u)
                           /\ Native!Private(u) => caller'[u].fd = caller[u].fd
    OBVIOUS
  <2>2. \A h \in DOMAIN kernel' : \/ \E p \in 1 .. Len(objects) : objects'[p].handle = h
                                  \/ \E u \in Threads : Native!Private(u)' /\ caller'[u].fd = h
    BY <1>1, <1>3, <1>4, <2>1 DEF Native!HandlesOwnedOnce
  <2>3. \A p \in 1 .. Len(objects) : objects'[p].handle # 0 =>
          /\ p # o /\ objects[p].handle = objects'[p].handle
          /\ objects'[p].handle \in DOMAIN kernel'
    BY <1>1, <1>3, <1>4 DEF Native!HandlesOwnedOnce
  <2>4. \A p \in 1 .. Len(objects) : objects'[p].handle # 0 =>
          /\ \A q \in 1 .. Len(objects) : objects'[q].handle = objects'[p].handle => q = p
          /\ \A u \in Threads : Native!Private(u)' => caller'[u].fd # objects'[p].handle
    BY <1>1, <2>1, <2>3 DEF Native!HandlesOwnedOnce
  <2>5. \A u \in Threads : Native!Private(u)' =>
          /\ caller'[u].fd \in DOMAIN kernel'
          /\ \A v \in Threads : Native!Private(v)' /\ caller'[v].fd = caller'[u].fd => v = u
    BY <1>1, <1>3, <1>4, <1>5, <2>1 DEF Native!HandlesOwnedOnce
  <2> QED
    BY <2>2, <2>3, <2>4, <2>5 DEF Native!HandlesOwnedOnce
<1>8. Native!Exclusive'
  BY <1>1, <1>2 DEF Native!Exclusive, CallsTyped
<1>9. \A j, p : Holder(j, p)' => Holder(j, p) /\ p \in 1 .. Len(objects)
  BY <1>2 DEF Holder, TablesTyped, CallsTyped
<1>10. \A p \in 1 .. Len(objects) : Live(p)' => Live(p) /\ p # o
  BY DEF Live
<1>11. Agree'
  BY <1>1, <1>9, <1>10, AgreeKeeps
<1>12. TablesRight'
  <2>1. /\ \A j \in DOMAIN openSockets : openSockets[j] \in 1 .. Len(objects)
        /\ \A j \in DOMAIN openTlsSockets : openTlsSockets[j] \in 1 .. Len(objects)
    BY <1>2 DEF TablesTyped
  <2>2. /\ \A j \in DOMAIN openSockets' : j \notin DOMAIN openTlsSockets' /\ Live(openSockets[j])'
        /\ \A j \in DOMAIN openTlsSockets' : Live(openTlsSockets[j])'
    BY <1>1, <2>1 DEF TablesRight, Live
  <2>3. \A u \in Threads : (Native!Holds(u) /\ caller[u].operation = "upgrade")' =>
          \A j \in DOMAIN openTlsSockets' : openTlsSockets'[j] # caller'[u].entry
    BY <1>1 DEF TablesRight
  <2>4. \A u \in Threads :
          (caller[u].at = "waiting" /\ caller[u].operation = "close" /\ Live(caller[u].entry))'
            => caller'[u].id \notin Native!Named'
    <3>1. Native!Named' \subseteq Native!Named
      BY DEF Native!Named
    <3> QED
      BY <1>1, <1>2, <1>10, <3>1 DEF TablesRight, Live, CallsTyped
  <2> QED
    BY <2>2, <2>3, <2>4 DEF TablesRight, Live
<1>13. Reached'
  <2>1. \A j \in Native!Named : Native!EntryOf(j) # o =>
          j \in Native!Named' /\ Native!EntryOf(j)' = Native!EntryOf(j)
    BY <1>1 DEF Native!Named, Native!EntryOf, TablesRight
  <2>2. \A p \in 1 .. Len(objects) : Live(p)' =>
          \/ \E j \in Native!Named' : Native!EntryOf(j)' = p
          \/ \E u \in Threads : /\ caller'[u].at = "waiting" /\ caller'[u].operation = "close"
                                /\ caller'[u].entry = p
    BY <1>1, <1>10, <2>1 DEF Reached
  <2> QED
    BY <2>2 DEF Reached, Live
<1> QED
  BY <1>6, <1>7, <1>8, <1>11, <1>12, <1>13 DEF NInv

(* The caller gets the ioMutex.                                             *)
LEMMA EnterKeeps ==
  ASSUME NInv, NEW t \in Threads, Native!Enter(t)
  PROVE  NInv'
<1> DEFINE o == caller[t].entry
<1>1. /\ Native!TypeOK /\ Native!Exclusive /\ Agree /\ TablesRight
      /\ KernelTyped /\ Entries /\ TablesTyped /\ CallsTyped
  BY TypeParts DEF NInv
<1>2. /\ caller[t].at = "waiting" /\ caller[t].operation \in {"use", "close", "upgrade"}
      /\ Native!Free(o) /\ UNCHANGED <<openSockets, openTlsSockets, nextSocketId>>
  BY DEF Native!Enter, Native!tables
<1>3. o \in 1 .. Len(objects) /\ Native!Holds(t) /\ objects \in Seq(Native!Objects)
  BY <1>1, <1>2 DEF Native!Holds, CallsTyped, Entries
<1>4. \A u \in Threads : caller[u].at = "inside" => caller[u].entry # o /\ u # 0
  BY <1>1, <1>2, HostAssumption DEF Native!Exclusive, Native!Free, Native!Nobody
<1>5. caller \in [Threads -> Native!Calls]
  BY <1>1 DEF CallsTyped
<1>6. CASE /\ caller[t].operation = "close" /\ Native!closeNativeSocket(objects[o].handle)
           /\ objects' = [objects EXCEPT ![o].handle = 0] /\ Native!Answers(t)
  <2>1. /\ caller' \in [Threads -> Native!Calls] /\ caller'[t].at = "idle"
        /\ \A u \in Threads : u # t => caller'[u] = caller[u]
    BY <1>5, <1>6, AnswersFacts
  <2>2. /\ objects' \in Seq(Native!Objects) /\ Len(objects') = Len(objects)
        /\ objects'[o].handle = 0
        /\ \A p \in 1 .. Len(objects) : p # o => objects'[p] = objects[p]
    BY <1>3, <1>6, HandleCleared
  <2>3. Holder(caller[t].id, o)
    BY <1>3 DEF Holder
  <2>4. \A j \in DOMAIN openSockets : openSockets[j] # o
    <3> SUFFICES ASSUME NEW j \in DOMAIN openSockets, openSockets[j] = o PROVE FALSE
      OBVIOUS
    <3>1. Live(o) /\ Holder(j, o)
      BY <1>1 DEF TablesRight, Holder
    <3>2. j = caller[t].id
      BY <1>1, <2>3, <3>1 DEF Agree
    <3> QED
      BY <1>1, <1>2, <1>6, <3>1, <3>2 DEF TablesRight, Native!Named
  <2>5. \A j \in DOMAIN openTlsSockets : openTlsSockets[j] # o
    <3> SUFFICES ASSUME NEW j \in DOMAIN openTlsSockets, openTlsSockets[j] = o PROVE FALSE
      OBVIOUS
    <3>1. Live(o) /\ Holder(j, o)
      BY <1>1 DEF TablesRight, Holder
    <3>2. j = caller[t].id
      BY <1>1, <2>3, <3>1 DEF Agree
    <3> QED
      BY <1>1, <1>2, <1>6, <3>1, <3>2 DEF TablesRight, Native!Named
  <2> QED
    BY <1>2, <1>3, <1>4, <1>6, <2>1, <2>2, <2>4, <2>5, EndKeeps
<1>7. CASE /\ objects[o].handle = 0 /\ Native!Answers(t) /\ UNCHANGED <<kernel, objects>>
  <2>1. /\ caller' \in [Threads -> Native!Calls] /\ caller'[t].at = "idle"
        /\ \A u \in Threads : u # t => caller'[u] = caller[u]
    BY <1>5, <1>7, AnswersFacts
  <2>2. PICK r \in Native!Calls : caller'[t] = r /\ r.at = "idle"
    BY <2>1
  <2>3. /\ \A u \in Threads : u # t /\ caller[u].at = "inside" =>
             objects'[caller[u].entry].ioMutex = u
        /\ \A p \in 1 .. Len(objects) : objects'[p].handle = objects[p].handle
        /\ objects' \in Seq(Native!Objects) /\ Len(objects') = Len(objects)
    BY <1>1, <1>3, <1>7 DEF Native!Exclusive
  <2>4. ~Live(caller[t].entry)
    BY <1>7 DEF Live
  <2> QED
    BY <1>2, <1>3, <1>7, <2>1, <2>2, <2>3, <2>4, PlaceKeeps
<1>8. CASE /\ caller[t].operation # "close" /\ objects[o].handle # 0
           /\ objects' = [objects EXCEPT ![o].ioMutex = t]
           /\ Native!Goes(t, [caller[t] EXCEPT !.at = "inside"]) /\ UNCHANGED kernel
  <2> DEFINE r == [caller[t] EXCEPT !.at = "inside"]
  <2>1. /\ r \in Native!Calls /\ r.at = "inside" /\ r.entry = o /\ r.id = caller[t].id
        /\ r.operation = caller[t].operation
    BY <1>5 DEF Native!Calls
  <2>2. /\ caller' \in [Threads -> Native!Calls] /\ caller'[t] = r
        /\ \A u \in Threads : u # t => caller'[u] = caller[u]
    BY <1>5, <1>8, <2>1, CallerMoves
  <2>3. /\ objects' \in Seq(Native!Objects) /\ Len(objects') = Len(objects)
        /\ objects'[o].handle = objects[o].handle /\ objects'[o].ioMutex = t
        /\ \A p \in 1 .. Len(objects) : p # o => objects'[p] = objects[p]
    BY <1>3, <1>8, MutexSet
  <2>4. /\ \A u \in Threads : u # t /\ caller[u].at = "inside" =>
             objects'[caller[u].entry].ioMutex = u
        /\ \A p \in 1 .. Len(objects) : objects'[p].handle = objects[p].handle
    BY <1>1, <1>4, <2>3 DEF Native!Exclusive, CallsTyped, Native!Holds
  <2>5. Live(o)
    BY <1>8 DEF Live
  <2> HIDE DEF r
  <2> QED
    BY <1>2, <1>3, <1>8, <2>1, <2>2, <2>3, <2>4, <2>5, PlaceKeeps
<1> QED
  BY <1>6, <1>7, <1>8 DEF Native!Enter

LEMMA MutexFreed ==
  ASSUME NEW q \in Seq(Native!Objects), NEW o \in 1 .. Len(q)
  PROVE  LET r == [q EXCEPT ![o].ioMutex = Native!Nobody]
         IN /\ r \in Seq(Native!Objects) /\ Len(r) = Len(q)
            /\ r[o].handle = q[o].handle
            /\ \A p \in 1 .. Len(q) : p # o => r[p] = q[p]
<1>1. Native!Nobody \in Threads \union {0}
  BY DEF Native!Nobody
<1> QED
  BY <1>1, MutexSet

LEMMA UsedKeeps ==
  ASSUME NInv, NEW t \in Threads, Native!Used(t)
  PROVE  NInv'
<1> DEFINE o == caller[t].entry
<1>1. /\ Native!Exclusive /\ Entries /\ CallsTyped
  BY TypeParts DEF NInv
<1>2. /\ caller[t].at = "inside" /\ caller[t].operation = "use" /\ Native!Answers(t)
      /\ objects' = [objects EXCEPT ![o].ioMutex = Native!Nobody]
      /\ UNCHANGED <<kernel, openSockets, openTlsSockets, nextSocketId>>
  BY DEF Native!Used, Native!tables
<1>3. o \in 1 .. Len(objects) /\ Native!Holds(t) /\ objects \in Seq(Native!Objects)
  BY <1>1, <1>2 DEF Native!Holds, CallsTyped, Entries
<1>4. /\ caller' \in [Threads -> Native!Calls] /\ caller'[t].at = "idle"
      /\ \A u \in Threads : u # t => caller'[u] = caller[u]
  BY <1>1, <1>2, AnswersFacts DEF CallsTyped
<1>5. PICK r \in Native!Calls : caller'[t] = r /\ r.at = "idle"
  BY <1>4
<1>6. /\ objects' \in Seq(Native!Objects) /\ Len(objects') = Len(objects)
      /\ objects'[o].handle = objects[o].handle
      /\ \A p \in 1 .. Len(objects) : p # o => objects'[p] = objects[p]
  BY <1>2, <1>3, MutexFreed
<1>7. /\ \A u \in Threads : u # t /\ caller[u].at = "inside" =>
           objects'[caller[u].entry].ioMutex = u
      /\ \A p \in 1 .. Len(objects) : objects'[p].handle = objects[p].handle
  BY <1>1, <1>2, <1>6 DEF Native!Exclusive, CallsTyped, Native!Holds
<1> QED
  BY <1>2, <1>3, <1>4, <1>5, <1>6, <1>7, PlaceKeeps

(* What is known of an upgrade that is under way.                           *)
LEMMA UpgradeFacts ==
  ASSUME NInv, NEW t \in Threads, caller[t].at = "inside", caller[t].operation = "upgrade"
  PROVE  /\ caller[t].entry \in 1 .. Len(objects) /\ caller[t].id \in 1 .. nextSocketId - 1
         /\ Live(caller[t].entry)
         /\ \A u \in Threads : u # t /\ caller[u].at = "inside" => caller[u].entry # caller[t].entry
         /\ \A j \in DOMAIN openSockets : openSockets[j] = caller[t].entry <=> j = caller[t].id
         /\ \A j \in DOMAIN openTlsSockets : j # caller[t].id /\ openTlsSockets[j] # caller[t].entry
<1> DEFINE o == caller[t].entry
           i == caller[t].id
<1>1. /\ Native!Exclusive /\ Agree /\ TablesRight /\ CallsTyped
  BY TypeParts DEF NInv
<1>2. o \in 1 .. Len(objects) /\ i \in 1 .. nextSocketId - 1 /\ Live(o) /\ Holder(i, o)
  BY <1>1 DEF CallsTyped, Native!Exclusive, Live, Holder, Native!Holds
<1>3. \A u \in Threads : u # t /\ caller[u].at = "inside" => caller[u].entry # o
  BY <1>1 DEF Native!Exclusive
<1>4. \A j \in DOMAIN openSockets : openSockets[j] = o <=> j = i
  <2> SUFFICES ASSUME NEW j \in DOMAIN openSockets PROVE openSockets[j] = o <=> j = i
    OBVIOUS
  <2>1. Live(openSockets[j]) /\ Holder(j, openSockets[j])
    BY <1>1 DEF TablesRight, Holder
  <2> QED
    BY <1>1, <1>2, <2>1 DEF Agree
<1>5. \A j \in DOMAIN openTlsSockets : j # i /\ openTlsSockets[j] # o
  <2> SUFFICES ASSUME NEW j \in DOMAIN openTlsSockets PROVE j # i /\ openTlsSockets[j] # o
    OBVIOUS
  <2>1. Live(openTlsSockets[j]) /\ Holder(j, openTlsSockets[j]) /\ openTlsSockets[j] # o
    BY <1>1 DEF TablesRight, Holder, Native!Holds
  <2> QED
    BY <1>1, <1>2, <2>1 DEF Agree
<1> QED
  BY <1>2, <1>3, <1>4, <1>5

LEMMA HandshakeFailsKeeps ==
  ASSUME NInv, NEW t \in Threads, Native!HandshakeFails(t)
  PROVE  NInv'
<1> DEFINE o == caller[t].entry
           i == caller[t].id
<1>1. /\ Entries /\ CallsTyped
  BY TypeParts DEF NInv
<1>2. /\ caller[t].at = "inside" /\ caller[t].operation = "upgrade" /\ Native!Answers(t)
      /\ Native!closeNativeSocket(objects[o].handle)
      /\ objects' = Native!Released(o)
      /\ openSockets' = Native!Without(openSockets, i)
      /\ UNCHANGED <<openTlsSockets, nextSocketId>>
  BY DEF Native!HandshakeFails
<1>3. /\ o \in 1 .. Len(objects)
      /\ \A u \in Threads : u # t /\ caller[u].at = "inside" => caller[u].entry # o
      /\ \A j \in DOMAIN openSockets : openSockets[j] = o <=> j = i
      /\ \A j \in DOMAIN openTlsSockets : openTlsSockets[j] # o
  BY <1>2, UpgradeFacts
<1>4. Native!Holds(t) /\ objects \in Seq(Native!Objects)
  BY <1>1, <1>2 DEF Native!Holds, Entries
<1>5. /\ caller' \in [Threads -> Native!Calls] /\ caller'[t].at = "idle"
      /\ \A u \in Threads : u # t => caller'[u] = caller[u]
  BY <1>1, <1>2, AnswersFacts DEF CallsTyped
<1>6. /\ objects' \in Seq(Native!Objects) /\ Len(objects') = Len(objects)
      /\ objects'[o].handle = 0
      /\ \A p \in 1 .. Len(objects) : p # o => objects'[p] = objects[p]
  BY <1>2, <1>3, <1>4, ReleasedFacts
<1>7. /\ \A j \in DOMAIN openSockets' :
           j \in DOMAIN openSockets /\ openSockets'[j] = openSockets[j] /\ openSockets[j] # o
      /\ \A j \in DOMAIN openSockets : openSockets[j] # o => j \in DOMAIN openSockets'
  <2>1. /\ DOMAIN openSockets' = DOMAIN openSockets \ {i}
        /\ \A j \in DOMAIN openSockets \ {i} : openSockets'[j] = openSockets[j]
    BY <1>2 DEF Native!Without
  <2> QED
    BY <1>3, <2>1
<1> QED
  BY <1>2, <1>3, <1>4, <1>5, <1>6, <1>7, EndKeeps

LEMMA HandshakeDoneKeeps ==
  ASSUME NInv, NEW t \in Threads, Native!HandshakeDone(t)
  PROVE  NInv'
<1> USE DEF Native!Holds, Native!Private
<1> DEFINE o == caller[t].entry
           i == caller[t].id
           h == objects[o].handle
           n == Len(objects) + 1
           e == [objects[o] EXCEPT !.ioMutex = Native!Nobody]
           mid == Native!Released(o)
<1>1. /\ Native!TypeOK /\ Native!HandlesOwnedOnce /\ Native!Exclusive
      /\ Agree /\ TablesRight /\ Reached
  BY DEF NInv
<1>2. KernelTyped /\ Entries /\ TablesTyped /\ CallsTyped
  BY <1>1, TypeParts
<1>3. /\ caller[t].at = "inside" /\ caller[t].operation = "upgrade" /\ Native!Answers(t)
      /\ Len(objects) < MaxObjects /\ objects' = Append(mid, e)
      /\ openSockets' = Native!Without(openSockets, i)
      /\ openTlsSockets' = Native!With(openTlsSockets, i, n)
      /\ UNCHANGED <<kernel, nextSocketId>>
  BY DEF Native!HandshakeDone
<1>4. /\ o \in 1 .. Len(objects) /\ i \in 1 .. nextSocketId - 1 /\ h # 0
      /\ \A u \in Threads : u # t /\ caller[u].at = "inside" => caller[u].entry # o
      /\ \A j \in DOMAIN openSockets : openSockets[j] = o <=> j = i
      /\ \A j \in DOMAIN openTlsSockets : j # i /\ openTlsSockets[j] # o
  BY <1>3, UpgradeFacts DEF Live
<1>5. /\ caller' \in [Threads -> Native!Calls] /\ caller'[t].at = "idle"
      /\ \A u \in Threads : u # t => caller'[u] = caller[u]
  BY <1>2, <1>3, AnswersFacts DEF CallsTyped
<1>6. /\ MaxObjects \in Nat /\ Len(objects) \in Nat /\ objects \in Seq(Native!Objects)
      /\ nextSocketId \in Nat \ {0}
  BY <1>2, HostAssumption, LenProperties DEF Entries, TablesTyped
<1>7. e \in Native!Objects /\ e.handle = h
  <2>1. objects[o] \in Native!Objects
    BY <1>4, <1>6, ElementOfSeq
  <2> QED
    BY <2>1 DEF Native!Objects
<1>8. /\ mid \in Seq(Native!Objects) /\ Len(mid) = Len(objects) /\ mid[o].handle = 0
      /\ \A p \in 1 .. Len(objects) : p # o => mid[p] = objects[p]
  BY <1>4, <1>6, ReleasedFacts
<1>9. /\ objects' \in Seq(Native!Objects) /\ Len(objects') = n
      /\ objects'[n].handle = h /\ objects'[o].handle = 0
      /\ \A p \in 1 .. Len(objects) : p # o => objects'[p] = objects[p]
  <2> HIDE DEF e, mid
  <2>1. /\ Append(mid, e) \in Seq(Native!Objects) /\ Len(Append(mid, e)) = Len(mid) + 1
        /\ Append(mid, e)[Len(mid) + 1] = e
        /\ \A p \in 1 .. Len(mid) : Append(mid, e)[p] = mid[p]
    BY <1>7, <1>8, EntryAdded
  <2> QED
    BY <1>3, <1>4, <1>7, <1>8, <2>1
<1>10. /\ DOMAIN openSockets' = DOMAIN openSockets \ {i}
       /\ \A j \in DOMAIN openSockets \ {i} : openSockets'[j] = openSockets[j]
       /\ DOMAIN openTlsSockets' = DOMAIN openTlsSockets \union {i}
       /\ openTlsSockets'[i] = n
       /\ \A j \in DOMAIN openTlsSockets : j # i => openTlsSockets'[j] = openTlsSockets[j]
  BY <1>3 DEF Native!Without, Native!With
<1> HIDE DEF e, mid
<1>11. PICK k, m, g, s : k = i /\ m = n /\ g = h /\ s = o
  OBVIOUS
<1>12. m \in Nat /\ m = Len(objects) + 1
  BY <1>6, <1>11
<1>13. Native!TypeOK'
  <2>1. KernelTyped'
    BY <1>2, <1>3 DEF KernelTyped
  <2>2. Entries'
    BY <1>3, <1>6, <1>9 DEF Entries
  <2>3. TablesTyped'
    BY <1>2, <1>3, <1>4, <1>6, <1>9, <1>10 DEF TablesTyped
  <2>4. CallsTyped'
    BY <1>2, <1>3, <1>5, <1>6, <1>9 DEF CallsTyped
  <2> QED
    BY <2>1, <2>2, <2>3, <2>4, TypeParts DEF Native!TypeOK, KernelTyped, Entries, TablesTyped, CallsTyped
<1> HIDE DEF i, o, h, n
<1>14. Native!HandlesOwnedOnce'
  <2>1. \A p \in 1 .. Len(objects)' : \/ p \in 1 .. Len(objects) /\ p # m
                                      \/ p = m
    BY <1>6, <1>9, <1>11, <1>12
  <2>2. 1 .. Len(objects) \subseteq 1 .. Len(objects)' /\ m \in 1 .. Len(objects)'
    BY <1>6, <1>9, <1>11, <1>12
  <2>3. \A u \in Threads : /\ Native!Private(u)' <=> Native!Private(u)
                           /\ Native!Private(u) => caller'[u].fd = caller[u].fd
    BY <1>3, <1>5
  <2>4. /\ objects'[m].handle = g /\ objects'[s].handle = 0 /\ g # 0
        /\ s \in 1 .. Len(objects) /\ objects[s].handle = g
        /\ \A p \in 1 .. Len(objects) : p # s => objects'[p] = objects[p]
    BY <1>4, <1>9, <1>11 DEF h
  <2>5. \A x \in DOMAIN kernel' : \/ \E p \in 1 .. Len(objects)' : objects'[p].handle = x
                                  \/ \E u \in Threads : Native!Private(u)' /\ caller'[u].fd = x
    <3> SUFFICES ASSUME NEW x \in DOMAIN kernel
                 PROVE  \/ \E p \in 1 .. Len(objects)' : objects'[p].handle = x
                        \/ \E u \in Threads : Native!Private(u)' /\ caller'[u].fd = x
      BY <1>3
    <3>1. CASE \E u \in Threads : Native!Private(u) /\ caller[u].fd = x
      BY <2>3, <3>1
    <3>2. CASE x = g
      BY <2>2, <2>4, <3>2
    <3>3. CASE \E p \in 1 .. Len(objects) : p # s /\ objects[p].handle = x
      BY <2>2, <2>4, <3>3
    <3> QED
      BY <1>1, <2>4, <3>1, <3>2, <3>3 DEF Native!HandlesOwnedOnce
  <2>6. \A p \in 1 .. Len(objects)' : objects'[p].handle # 0 =>
          /\ objects'[p].handle \in DOMAIN kernel'
          /\ \A q \in 1 .. Len(objects)' : objects'[q].handle = objects'[p].handle => q = p
          /\ \A u \in Threads : Native!Private(u)' => caller'[u].fd # objects'[p].handle
    BY <1>1, <1>3, <2>1, <2>3, <2>4 DEF Native!HandlesOwnedOnce
  <2>7. \A u \in Threads : Native!Private(u)' =>
          /\ caller'[u].fd \in DOMAIN kernel'
          /\ \A v \in Threads : Native!Private(v)' /\ caller'[v].fd = caller'[u].fd => v = u
    BY <1>1, <1>3, <2>3 DEF Native!HandlesOwnedOnce
  <2> QED
    BY <2>5, <2>6, <2>7 DEF Native!HandlesOwnedOnce
<1>15. Native!Exclusive'
  BY <1>1, <1>2, <1>4, <1>5, <1>9 DEF Native!Exclusive, CallsTyped
<1>16. \A j, p : Holder(j, p) => j \in 1 .. nextSocketId - 1 /\ p \in 1 .. Len(objects)
  BY <1>2 DEF Holder, TablesTyped, CallsTyped
<1>17. \A j, p : Holder(j, p)' => Holder(j, p) \/ (j = k /\ p = m)
  BY <1>5, <1>10, <1>11 DEF Holder
<1>18. Holder(k, s) /\ Live(s)
  BY <1>3, <1>4, <1>11 DEF Holder, Live, i, o, h
<1>19. Agree'
  <2>1. \A j, p : Holder(j, p)' /\ Live(p)' =>
            \/ Holder(j, p) /\ Live(p) /\ j # k /\ p # m
            \/ j = k /\ p = m
    <3> SUFFICES ASSUME NEW j, NEW p, Holder(j, p)', Live(p)', ~(j = k /\ p = m)
                 PROVE  Holder(j, p) /\ Live(p) /\ j # k /\ p # m
      OBVIOUS
    <3>1. Holder(j, p) /\ p \in 1 .. Len(objects) /\ p # m
      BY <1>6, <1>12, <1>16, <1>17
    <3>2. p # s /\ Live(p)
      BY <1>9, <1>11, <3>1 DEF Live
    <3> QED
      BY <1>1, <1>18, <3>1, <3>2 DEF Agree
  <2> QED
    BY <1>1, <2>1, AgreeGrows
<1>20. TablesRight'
  <2>1. /\ \A j \in DOMAIN openSockets : openSockets[j] \in 1 .. Len(objects)
        /\ \A j \in DOMAIN openTlsSockets : openTlsSockets[j] \in 1 .. Len(objects)
    BY <1>2 DEF TablesTyped
  <2>2. /\ \A j \in DOMAIN openSockets' : j \notin DOMAIN openTlsSockets' /\ Live(openSockets[j])'
        /\ \A j \in DOMAIN openTlsSockets' : Live(openTlsSockets[j])'
    BY <1>1, <1>4, <1>9, <1>10, <2>1 DEF TablesRight, Live
  <2>3. \A u \in Threads : (Native!Holds(u) /\ caller[u].operation = "upgrade")' =>
          \A j \in DOMAIN openTlsSockets' : openTlsSockets'[j] # caller'[u].entry
    <3>1. \A u \in Threads : Native!Holds(u) => caller[u].entry \in 1 .. Len(objects)
      BY <1>2 DEF CallsTyped
    <3>2. \A p \in 1 .. Len(objects) : p # m
      BY <1>6, <1>12
    <3> QED
      BY <1>1, <1>5, <1>10, <1>11, <3>1, <3>2 DEF TablesRight
  <2>4. \A u \in Threads :
          (caller[u].at = "waiting" /\ caller[u].operation = "close" /\ Live(caller[u].entry))'
            => caller'[u].id \notin Native!Named'
    <3> SUFFICES ASSUME NEW u \in Threads, caller'[u].at = "waiting",
                        caller'[u].operation = "close", Live(caller[u].entry)'
                 PROVE  caller'[u].id \notin Native!Named'
      BY DEF Live
    <3>1. u # t /\ caller'[u] = caller[u] /\ caller[u].entry \in 1 .. Len(objects)
      BY <1>2, <1>5 DEF CallsTyped
    <3>2. caller[u].entry # s /\ Live(caller[u].entry)
      BY <1>9, <1>11, <3>1 DEF Live
    <3>3. Holder(caller[u].id, caller[u].entry)
      BY <3>1 DEF Holder
    <3>4. caller[u].id # k
      BY <1>1, <1>18, <3>2, <3>3 DEF Agree
    <3>5. Native!Named' \subseteq Native!Named \union {k}
      BY <1>10, <1>11 DEF Native!Named
    <3> QED
      BY <1>1, <3>1, <3>2, <3>4, <3>5 DEF TablesRight
  <2> QED
    BY <2>2, <2>3, <2>4 DEF TablesRight, Live
<1>21. Reached'
  <2>1. \A j \in Native!Named : j # k =>
          j \in Native!Named' /\ Native!EntryOf(j)' = Native!EntryOf(j)
    BY <1>10, <1>11 DEF Native!Named, Native!EntryOf
  <2>2. k \in Native!Named' /\ Native!EntryOf(k)' = m
    BY <1>10, <1>11 DEF Native!Named, Native!EntryOf
  <2>3. k \in Native!Named => Native!EntryOf(k) = s
    BY <1>4, <1>11 DEF Native!Named, Native!EntryOf, o, i
  <2>4. ASSUME NEW p \in 1 .. Len(objects)', Live(p)'
        PROVE  \/ \E j \in Native!Named' : Native!EntryOf(j)' = p
               \/ \E u \in Threads : /\ caller'[u].at = "waiting" /\ caller'[u].operation = "close"
                                     /\ caller'[u].entry = p
    <3>1. CASE p = m
      BY <2>2, <3>1
    <3>2. CASE p # m
      <4>1. p \in 1 .. Len(objects) /\ p # s /\ Live(p)
        BY <1>6, <1>9, <1>11, <1>12, <2>4, <3>2 DEF Live
      <4>2. CASE \E j \in Native!Named : Native!EntryOf(j) = p
        BY <2>1, <2>3, <4>1, <4>2
      <4>3. CASE \E u \in Threads : /\ caller[u].at = "waiting" /\ caller[u].operation = "close"
                                    /\ caller[u].entry = p
        BY <1>3, <1>5, <4>3
      <4> QED
        BY <1>1, <4>1, <4>2, <4>3 DEF Reached
    <3> QED
      BY <3>1, <3>2
  <2> QED
    BY <2>4 DEF Reached, Live
<1> QED
  BY <1>13, <1>14, <1>15, <1>19, <1>20, <1>21 DEF NInv

LEMMA NativeBegins ==
  ASSUME Native!Init
  PROVE  NInv
<1> USE DEF Native!Init, Native!Holds, Native!Private, Native!Named
<1>1. /\ Len(objects) = 0 /\ \A t \in Threads : caller[t] = Native!Idle
      /\ DOMAIN kernel = {} /\ DOMAIN openSockets = {} /\ DOMAIN openTlsSockets = {}
  OBVIOUS
<1>2. KernelTyped /\ Entries /\ TablesTyped /\ CallsTyped
  BY <1>1, IdleCallTyped, IdleFields, HostAssumption, EmptySeq
  DEF KernelTyped, Entries, TablesTyped, CallsTyped
<1>3. Native!HandlesOwnedOnce /\ Native!Exclusive
  BY <1>1, IdleFields DEF Native!HandlesOwnedOnce, Native!Exclusive
<1>4. Agree /\ TablesRight /\ Reached
  BY <1>1, IdleFields DEF Agree, Holder, TablesRight, Reached
<1> QED
  BY <1>2, <1>3, <1>4, TypeParts DEF NInv

Moves(t) ==
  \/ Opening(t) \/ Native!Register(t) \/ Looking(t) \/ Native!Enter(t) \/ Native!Used(t)
  \/ Native!HandshakeFails(t) \/ Native!HandshakeDone(t)

LEMMA NativeMoves ==
  ASSUME Native!Next
  PROVE  \E t \in Threads : Moves(t)
BY DEF Native!Next, Moves, Opening, Looking

LEMMA NativeStepKeeps == NInv /\ [Native!Next]_(Native!vars) => NInv'
<1> SUFFICES ASSUME NInv, [Native!Next]_(Native!vars) PROVE NInv'
  OBVIOUS
<1>1. CASE Native!Next
  BY <1>1, NativeMoves, OpenConnectionKeeps, RegisterEntryKeeps, LookingKeeps, EnterKeeps, UsedKeeps,
     HandshakeFailsKeeps, HandshakeDoneKeeps DEF Moves
<1>2. CASE UNCHANGED Native!vars
  <2>1. UNCHANGED <<kernel, objects, openSockets, openTlsSockets, nextSocketId, caller>>
    BY <1>2 DEF Native!vars, Native!tables
  <2>2. KernelTyped' /\ Entries' /\ TablesTyped' /\ CallsTyped'
    BY <2>1, TypeParts
    DEF NInv, KernelTyped, Entries, TablesTyped, CallsTyped, Native!Holds
  <2>3. Native!TypeOK'
    BY <2>2, TypeParts DEF Native!TypeOK, KernelTyped, Entries, TablesTyped, CallsTyped
  <2>4. Native!HandlesOwnedOnce' /\ Native!Exclusive'
    BY <2>1 DEF NInv, Native!HandlesOwnedOnce, Native!Exclusive, Native!Private
  <2>5. Agree' /\ TablesRight' /\ Reached'
    BY <2>1 DEF NInv, Agree, Holder, Live, TablesRight, Reached, Native!Holds, Native!Named,
                Native!EntryOf
  <2> QED
    BY <2>3, <2>4, <2>5 DEF NInv
<1> QED
  BY <1>1, <1>2

LEMMA NativeInvariance == HostSpec => []NInv
<1>1. Native!Init => NInv
  BY NativeBegins
<1> QED
  BY <1>1, NativeStepKeeps, NativeSteps, PTL

(* What a step may do to the handle an id stands for.                       *)
KeptOrUpgraded(i) ==
  \/ i \in Native!Named /\ Native!HandleOf(i)' = Native!HandleOf(i)
  \/ \E t \in Threads : /\ caller[t].at = "inside" /\ caller[t].operation = "upgrade"
                        /\ caller[t].id = i
                        /\ Native!HandleOf(i)' = objects[caller[t].entry].handle

LEMMA NamedFacts ==
  ASSUME NInv, NEW i \in Native!Named
  PROVE  /\ Native!EntryOf(i) \in 1 .. Len(objects) /\ Live(Native!EntryOf(i))
         /\ Holder(i, Native!EntryOf(i))
<1>1. TablesTyped /\ TablesRight
  BY TypeParts DEF NInv
<1> QED
  BY <1>1 DEF TablesTyped, TablesRight, Native!Named, Native!EntryOf, Holder

(* Steps that take no entry its handle as long as an id names it.           *)
LEMMA IdKept ==
  ASSUME NInv, NEW i \in Native!Named, Native!EntryOf(i)' = Native!EntryOf(i),
         objects'[Native!EntryOf(i)].handle = objects[Native!EntryOf(i)].handle
  PROVE  KeptOrUpgraded(i)
BY DEF KeptOrUpgraded, Native!HandleOf

LEMMA MovesKeepIds ==
  ASSUME NInv, NEW t \in Threads, Moves(t),
         NEW i \in 1 .. nextSocketId - 1, i \in Native!Named'
  PROVE  KeptOrUpgraded(i)
<1>0. /\ Native!TypeOK /\ KernelTyped /\ Entries /\ TablesTyped /\ CallsTyped
      /\ Native!HandlesOwnedOnce /\ Native!Exclusive /\ Agree /\ TablesRight
  BY TypeParts DEF NInv
<1>1. CASE Opening(t)
  <2>1. UNCHANGED <<objects, openSockets, openTlsSockets>>
    BY <1>0, <1>1, OpeningFacts DEF Quietly, Native!tables
  <2> QED
    BY <2>1, IdKept DEF Native!Named, Native!EntryOf
<1>2. CASE Native!Used(t)
  <2>1. /\ objects' = [objects EXCEPT ![caller[t].entry].ioMutex = Native!Nobody]
        /\ caller[t].entry \in 1 .. Len(objects) /\ objects \in Seq(Native!Objects)
        /\ UNCHANGED <<openSockets, openTlsSockets>>
    BY <1>0, <1>2 DEF Native!Used, Native!tables, CallsTyped, Entries, Native!Holds
  <2>2. \A p \in 1 .. Len(objects) : objects'[p].handle = objects[p].handle
    BY <2>1, MutexFreed
  <2>3. i \in Native!Named /\ Native!EntryOf(i)' = Native!EntryOf(i)
    BY <2>1 DEF Native!Named, Native!EntryOf
  <2> QED
    BY <2>2, <2>3, NamedFacts, IdKept
<1>3. CASE Looking(t)
  <2>1. /\ UNCHANGED objects
        /\ \A j \in DOMAIN openSockets' : j \in DOMAIN openSockets /\ openSockets'[j] = openSockets[j]
        /\ \A j \in DOMAIN openTlsSockets' :
             j \in DOMAIN openTlsSockets /\ openTlsSockets'[j] = openTlsSockets[j]
    <3>1. PICK k : /\ UNCHANGED objects
                   /\ openSockets' \in {openSockets, Native!Without(openSockets, k)}
                   /\ openTlsSockets' \in {openTlsSockets, Native!Without(openTlsSockets, k)}
      BY <1>3, LookingFacts DEF LookedUp
    <3> QED
      BY <3>1 DEF Native!Without
  <2>2. i \in Native!Named /\ Native!EntryOf(i)' = Native!EntryOf(i)
    BY <1>0, <2>1 DEF Native!Named, Native!EntryOf, TablesRight
  <2> QED
    BY <2>1, <2>2, IdKept
<1>4. CASE Native!Register(t)
  <2> DEFINE e == [handle |-> caller[t].fd, listener |-> caller[t].operation = "listen",
                   stream |-> caller[t].operation # "connect datagram",
                   ioMutex |-> Native!Nobody]
  <2>1. /\ objects' = Append(objects, e) /\ objects \in Seq(Native!Objects)
        /\ openSockets' = Native!With(openSockets, nextSocketId, Len(objects) + 1)
        /\ caller[t].at = "register" /\ UNCHANGED openTlsSockets
    BY <1>0, <1>4 DEF Native!Register, Entries
  <2>2. e \in Native!Objects
    BY <1>0, <2>1 DEF Native!Objects, Native!Nobody, CallsTyped, Native!Calls
  <2>3. \A p \in 1 .. Len(objects) : objects'[p] = objects[p]
    <3> HIDE DEF e
    <3> QED
      BY <2>1, <2>2, EntryAdded
  <2>4. nextSocketId \in Nat \ {0} /\ i # nextSocketId
    BY <1>0 DEF TablesTyped
  <2>5. /\ DOMAIN openSockets' = DOMAIN openSockets \union {nextSocketId}
        /\ \A j \in DOMAIN openSockets : j # nextSocketId => openSockets'[j] = openSockets[j]
    BY <2>1 DEF Native!With
  <2>6. i \in Native!Named /\ Native!EntryOf(i)' = Native!EntryOf(i)
    BY <2>1, <2>4, <2>5 DEF Native!Named, Native!EntryOf
  <2> QED
    BY <2>3, <2>6, NamedFacts, IdKept
<1>5. CASE Native!Enter(t)
  <2> DEFINE o == caller[t].entry
  <2>1. /\ UNCHANGED <<openSockets, openTlsSockets>> /\ caller[t].at = "waiting"
        /\ o \in 1 .. Len(objects) /\ objects \in Seq(Native!Objects)
    BY <1>0, <1>5 DEF Native!Enter, Native!tables, CallsTyped, Entries, Native!Holds
  <2>2. i \in Native!Named /\ Native!EntryOf(i)' = Native!EntryOf(i)
    BY <2>1 DEF Native!Named, Native!EntryOf
  <2>3. /\ Native!EntryOf(i) \in 1 .. Len(objects) /\ Live(Native!EntryOf(i))
        /\ Holder(i, Native!EntryOf(i))
    BY <2>2, NamedFacts
  <2>4. CASE caller[t].operation = "close"
    <3>1. objects' = [objects EXCEPT ![o].handle = 0]
      BY <1>5, <2>4 DEF Native!Enter
    <3>2. Native!EntryOf(i) # o
      <4> SUFFICES ASSUME Native!EntryOf(i) = o PROVE FALSE
        OBVIOUS
      <4>1. Holder(caller[t].id, o)
        BY <2>1 DEF Holder, Native!Holds
      <4>2. caller[t].id = i
        BY <1>0, <2>3, <4>1 DEF Agree
      <4> QED
        BY <1>0, <2>1, <2>2, <2>3, <2>4, <4>2 DEF TablesRight
    <3>3. \A p \in 1 .. Len(objects) : p # o => objects'[p] = objects[p]
      BY <2>1, <3>1, HandleCleared
    <3> QED
      BY <2>2, <2>3, <3>2, <3>3, IdKept
  <2>5. CASE caller[t].operation # "close"
    <3>1. UNCHANGED objects \/ objects' = [objects EXCEPT ![o].ioMutex = t]
      BY <1>5, <2>5 DEF Native!Enter
    <3>2. t \in Threads \union {0}
      OBVIOUS
    <3>3. CASE objects' = [objects EXCEPT ![o].ioMutex = t]
      <4>1. /\ objects'[o].handle = objects[o].handle
            /\ \A p \in 1 .. Len(objects) : p # o => objects'[p] = objects[p]
        BY <2>1, <3>2, <3>3, MutexSet
      <4> QED
        BY <2>2, <2>3, <4>1, IdKept
    <3> QED
      BY <2>2, <3>1, <3>3, IdKept
  <2> QED
    BY <2>4, <2>5
<1>6. CASE Native!HandshakeFails(t) \/ Native!HandshakeDone(t)
  <2> DEFINE o == caller[t].entry
  <2>1. caller[t].at = "inside" /\ caller[t].operation = "upgrade"
    BY <1>6 DEF Native!HandshakeFails, Native!HandshakeDone
  <2>2. /\ o \in 1 .. Len(objects)
        /\ \A j \in DOMAIN openSockets : openSockets[j] = o <=> j = caller[t].id
        /\ \A j \in DOMAIN openTlsSockets : j # caller[t].id /\ openTlsSockets[j] # o
    BY <2>1, UpgradeFacts
  <2>3. objects \in Seq(Native!Objects) /\ Len(objects) \in Nat
    BY <1>0, LenProperties DEF Entries
  <2>4. /\ Native!Released(o) \in Seq(Native!Objects) /\ Len(Native!Released(o)) = Len(objects)
        /\ \A p \in 1 .. Len(objects) : p # o => Native!Released(o)[p] = objects[p]
    BY <2>2, <2>3, ReleasedFacts
  <2>5. /\ DOMAIN openSockets' = DOMAIN openSockets \ {caller[t].id}
        /\ \A j \in DOMAIN openSockets \ {caller[t].id} : openSockets'[j] = openSockets[j]
    BY <1>6 DEF Native!HandshakeFails, Native!HandshakeDone, Native!Without
  <2> DEFINE n == Len(objects) + 1
             e == [objects[o] EXCEPT !.ioMutex = Native!Nobody]
  <2>6. CASE Native!HandshakeFails(t)
    <3>1. objects' = Native!Released(o) /\ UNCHANGED openTlsSockets
      BY <2>6 DEF Native!HandshakeFails
    <3>2. /\ i \in Native!Named /\ Native!EntryOf(i)' = Native!EntryOf(i)
          /\ Native!EntryOf(i) # o
      BY <2>2, <2>5, <3>1 DEF Native!Named, Native!EntryOf
    <3> QED
      BY <2>4, <3>1, <3>2, NamedFacts, IdKept
  <2>7. CASE Native!HandshakeDone(t)
    <3>1. /\ objects' = Append(Native!Released(o), e)
          /\ openTlsSockets' = Native!With(openTlsSockets, caller[t].id, n)
      BY <2>7 DEF Native!HandshakeDone
    <3>2. e \in Native!Objects /\ e.handle = objects[o].handle
      <4>1. objects[o] \in Native!Objects
        BY <2>2, <2>3, ElementOfSeq
      <4> QED
        BY <4>1 DEF Native!Objects, Native!Nobody
    <3>3. /\ objects'[n].handle = objects[o].handle
          /\ \A p \in 1 .. Len(objects) : p # o => objects'[p] = objects[p]
      <4> HIDE DEF e
      <4>1. /\ Append(Native!Released(o), e)[Len(Native!Released(o)) + 1] = e
            /\ \A p \in 1 .. Len(Native!Released(o)) :
                 Append(Native!Released(o), e)[p] = Native!Released(o)[p]
        BY <2>4, <3>2, EntryAdded
      <4> QED
        BY <2>4, <3>1, <3>2, <4>1
    <3>4. /\ DOMAIN openTlsSockets' = DOMAIN openTlsSockets \union {caller[t].id}
          /\ openTlsSockets'[caller[t].id] = n
          /\ \A j \in DOMAIN openTlsSockets : j # caller[t].id =>
               openTlsSockets'[j] = openTlsSockets[j]
      BY <3>1 DEF Native!With
    <3>5. CASE i = caller[t].id
      <4>1. Native!EntryOf(i)' = n
        BY <2>5, <3>4, <3>5 DEF Native!EntryOf
      <4>2. Native!HandleOf(i)' = objects[o].handle
        BY <3>3, <4>1 DEF Native!HandleOf
      <4> QED
        BY <2>1, <3>5, <4>2 DEF KeptOrUpgraded
    <3>6. CASE i # caller[t].id
      <4>1. /\ i \in Native!Named /\ Native!EntryOf(i)' = Native!EntryOf(i)
            /\ Native!EntryOf(i) # o
        BY <2>2, <2>5, <3>4, <3>6 DEF Native!Named, Native!EntryOf
      <4> QED
        BY <3>3, <4>1, NamedFacts, IdKept
    <3> QED
      BY <3>5, <3>6
  <2> QED
    BY <1>6, <2>6, <2>7
<1> QED
  BY <1>1, <1>2, <1>3, <1>4, <1>5, <1>6 DEF Moves

(* SocketsShared, of the socket table of the Windows build: every open      *)
(* handle has one owner, entries with a handle can be reached, the caller   *)
(* inside is alone, and an id keeps its connection, for any number of       *)
(* threads, handles, addresses and entries.                                 *)
THEOREM SocketsSharedAlways == HostSpec => SocketsShared
<1>1. NInv => HandlesOwnedOnce /\ EntriesReachable /\ Exclusive
  BY DEF NInv, HandlesOwnedOnce, EntriesReachable, Exclusive, Native!EntriesReachable, Reached,
         Live, TablesRight, Native!Named, Native!EntryOf, Native!HandleOf
<1>2. NInv /\ [Native!Next]_(Native!vars) =>
        [\A id \in 1 .. nextSocketId - 1 : id \in Native!Named' =>
           \/ id \in Native!Named /\ Native!HandleOf(id)' = Native!HandleOf(id)
           \/ \E t \in Threads : /\ caller[t].at = "inside" /\ caller[t].operation = "upgrade"
                                 /\ caller[t].id = id
                                 /\ Native!HandleOf(id)' = objects[caller[t].entry].handle
        ]_(Native!vars)
  BY NativeMoves, MovesKeepIds DEF KeptOrUpgraded
<1>4. HostSpec => IdKeepsConnection
  BY <1>2, NativeInvariance, NativeSteps, PTL DEF IdKeepsConnection, Native!IdKeepsConnection
<1>5. HostSpec => [](HandlesOwnedOnce /\ EntriesReachable /\ Exclusive)
  BY <1>1, NativeInvariance, PTL
<1> QED
  BY <1>4, <1>5 DEF SocketsShared

-----------------------------------------------------------------------------
(* The TLS session.                                                         *)

LEMMA StreamSteps == HostSpec => Stream!Init /\ [][Stream!Next]_(Stream!streamVars)
<1>1. HostInit => Stream!Init
  BY DEF HostInit
<1>2. [HostNext]_hostVars => [Stream!Next]_(Stream!streamVars)
  BY DEF HostNext, hostVars, Others, InitModules, UseResources, Connect, Tick, Surroundings,
         UseNative, UseStream, RunEditor, streamVars, Stream!streamVars
<1> QED
  BY <1>1, <1>2, PTL DEF HostSpec

-----------------------------------------------------------------------------
(* Sequences of pieces.                                                     *)

Cuts == Stream!Pieces

LEMMA LeastOf ==
  ASSUME NEW T, T \subseteq Nat, T # {}
  PROVE  \E i \in T : \A j \in T : i <= j
<1>1. IsWellFoundedOn(OpToRel(<, Nat), Nat)
  BY NatLessThanWellFounded
<1>2. PICK i \in T : \A j \in T : <<j, i>> \notin OpToRel(<, Nat)
  BY <1>1, WFMin
<1>3. \A j \in T : ~(j < i)
  BY <1>2 DEF OpToRel
<1> QED
  BY <1>3

LEMMA EndFacts ==
  ASSUME NEW b \in Seq(Cuts)
  PROVE  /\ Stream!EndOfRecord(b) \in 0 .. Len(b)
         /\ Stream!EndOfRecord(b) = 0 => \A i \in 1 .. Len(b) : ~b[i].last
         /\ Stream!EndOfRecord(b) # 0 =>
              /\ b[Stream!EndOfRecord(b)].last
              /\ \A j \in 1 .. Stream!EndOfRecord(b) - 1 : ~b[j].last
<1> DEFINE T == {i \in 1 .. Len(b) : b[i].last}
           least == CHOOSE i \in T : \A j \in T : i <= j
<1>1. Len(b) \in Nat
  BY LenProperties
<1>2. CASE T = {}
  BY <1>1, <1>2 DEF Stream!EndOfRecord, Stream!Complete
<1>3. CASE T # {}
  <2>1. T \subseteq Nat
    BY <1>1
  <2>2. \E i \in T : \A j \in T : i <= j
    BY <1>3, <2>1, LeastOf
  <2>3. least \in T /\ \A j \in T : least <= j
    BY <2>2
  <2>4. Stream!EndOfRecord(b) = least
    BY <1>3 DEF Stream!EndOfRecord, Stream!Complete
  <2> HIDE DEF least
  <2>5. least \in 1 .. Len(b) /\ b[least].last
    BY <2>3
  <2>6. \A j \in 1 .. least - 1 : ~b[j].last
    BY <1>1, <2>3, <2>5
  <2> QED
    BY <1>1, <2>4, <2>5, <2>6
<1> QED
  BY <1>2, <1>3

LEMMA Widen ==
  ASSUME NEW S, NEW T, S \subseteq T, NEW s \in Seq(S)
  PROVE  s \in Seq(T)
<1>1. Len(s) \in Nat /\ s \in [1 .. Len(s) -> S]
  BY LenProperties
<1>2. s \in [1 .. Len(s) -> T]
  BY <1>1
<1> QED
  BY <1>1, <1>2

LEMMA Regroup ==
  ASSUME NEW b \in Seq(Cuts), NEW p \in Seq(Cuts), NEW q \in Seq(Cuts)
  PROVE  (b \o p) \o q = b \o (p \o q)
BY ConcatAssociative

LEMMA Arrives ==
  ASSUME NEW b \in Seq(Cuts), NEW w \in Seq(Cuts), NEW n \in 1 .. Len(w)
  PROVE  /\ SubSeq(w, 1, n) \in Seq(Cuts) /\ SubSeq(w, n + 1, Len(w)) \in Seq(Cuts)
         /\ b \o SubSeq(w, 1, n) \in Seq(Cuts)
         /\ (b \o SubSeq(w, 1, n)) \o SubSeq(w, n + 1, Len(w)) = b \o w
<1>1. Len(w) \in Nat /\ \A i \in 1 .. Len(w) : w[i] \in Cuts
  BY LenProperties, ElementOfSeq
<1>2. SubSeq(w, 1, n) \in Seq(Cuts) /\ SubSeq(w, n + 1, Len(w)) \in Seq(Cuts)
  BY <1>1, SubSeqProperties
<1>3. SubSeq(w, 1, n) \o SubSeq(w, n + 1, Len(w)) = SubSeq(w, 1, Len(w))
  BY <1>1, ConcatAdjacentSubSeq
<1>4. SubSeq(w, 1, Len(w)) = w
  BY SubSeqFull
<1> DEFINE p == SubSeq(w, 1, n)
           q == SubSeq(w, n + 1, Len(w))
<1>5. (b \o p) \o q = b \o (p \o q)
  <2> HIDE DEF p, q
  <2>1. b \in Seq(Cuts) /\ p \in Seq(Cuts) /\ q \in Seq(Cuts)
    BY <1>2 DEF p, q
  <2> QED
    BY <2>1, Regroup
<1> QED
  BY <1>2, <1>3, <1>4, <1>5, ConcatProperties

LEMMA RestFacts ==
  ASSUME NEW c \in Seq(Cuts), NEW e \in 1 .. Len(c)
  PROVE  /\ SubSeq(c, e + 1, Len(c)) \in Seq(Cuts)
         /\ Len(SubSeq(c, e + 1, Len(c))) = Len(c) - e
         /\ \A i \in 1 .. Len(c) - e : SubSeq(c, e + 1, Len(c))[i] = c[e + i]
<1>1. Len(c) \in Nat /\ \A i \in 1 .. Len(c) : c[i] \in Cuts
  BY LenProperties, ElementOfSeq
<1>2. \A i \in e + 1 .. Len(c) : c[i] \in Cuts
  BY <1>1
<1>3. /\ SubSeq(c, e + 1, Len(c)) \in Seq(Cuts)
      /\ Len(SubSeq(c, e + 1, Len(c))) = IF e + 1 <= Len(c) THEN Len(c) - (e + 1) + 1 ELSE 0
      /\ \A i \in 1 .. Len(c) - (e + 1) + 1 : SubSeq(c, e + 1, Len(c))[i] = c[(e + 1) + i - 1]
  BY <1>1, <1>2, SubSeqProperties
<1> QED
  BY <1>1, <1>3

LEMMA Leaves ==
  ASSUME NEW b \in Seq(Cuts), NEW w \in Seq(Cuts), NEW e \in 1 .. Len(b)
  PROVE  /\ e \in 1 .. Len(b \o w) /\ (b \o w)[e] = b[e]
         /\ \A j \in 1 .. e : (b \o w)[j] = b[j]
         /\ SubSeq(b, e + 1, Len(b)) \o w = SubSeq(b \o w, e + 1, Len(b \o w))
<1> DEFINE c == b \o w
           r == SubSeq(b, e + 1, Len(b))
           l == r \o w
           d == SubSeq(c, e + 1, Len(c))
<1>1. Len(b) \in Nat /\ Len(w) \in Nat
  BY LenProperties
<1>2. /\ c \in Seq(Cuts) /\ Len(c) = Len(b) + Len(w)
      /\ \A i \in 1 .. Len(b) + Len(w) : c[i] = IF i <= Len(b) THEN b[i] ELSE w[i - Len(b)]
  BY ConcatProperties
<1>3. /\ r \in Seq(Cuts) /\ Len(r) = Len(b) - e
      /\ \A i \in 1 .. Len(b) - e : r[i] = b[e + i]
  BY RestFacts
<1>4. e \in 1 .. Len(c)
  BY <1>1, <1>2
<1> HIDE DEF c
<1>5. /\ d \in Seq(Cuts) /\ Len(d) = Len(c) - e
      /\ \A i \in 1 .. Len(c) - e : d[i] = c[e + i]
  BY <1>2, <1>4, RestFacts
<1> HIDE DEF r, d
<1>6. /\ l \in Seq(Cuts) /\ Len(l) = Len(r) + Len(w)
      /\ \A i \in 1 .. Len(r) + Len(w) : l[i] = IF i <= Len(r) THEN r[i] ELSE w[i - Len(r)]
  BY <1>3, ConcatProperties
<1> HIDE DEF l
<1>7. \A i \in 1 .. Len(l) : l[i] = d[i]
  <2> SUFFICES ASSUME NEW i \in 1 .. Len(l) PROVE l[i] = d[i]
    OBVIOUS
  <2>1. CASE i <= Len(r)
    BY <1>1, <1>2, <1>3, <1>5, <1>6, <2>1
  <2>2. CASE i > Len(r)
    <3>1. l[i] = w[i - Len(r)] /\ d[i] = c[e + i] /\ c[e + i] = w[(e + i) - Len(b)]
      BY <1>1, <1>2, <1>3, <1>5, <1>6, <2>2
    <3>2. (e + i) - Len(b) = i - Len(r)
      BY <1>1, <1>3
    <3> QED
      BY <3>1, <3>2
  <2> QED
    BY <1>1, <1>3, <2>1, <2>2
<1>8. l = d
  <2>1. l \in Seq(Cuts) /\ d \in Seq(Cuts) /\ Len(l) = Len(d)
    BY <1>1, <1>2, <1>3, <1>5, <1>6
  <2> QED
    BY <1>7, <2>1, SeqEqual, Zenon
<1>9. e \in 1 .. Len(b \o w) /\ SubSeq(b, e + 1, Len(b)) \o w = SubSeq(b \o w, e + 1, Len(b \o w))
  BY <1>4, <1>8 DEF c, d, l, r
<1>10. \A j \in 1 .. e : (b \o w)[j] = b[j]
  BY <1>1, <1>2 DEF c
<1>11. e \in 1 .. e
  BY <1>1
<1> QED
  BY <1>9, <1>10, <1>11

-----------------------------------------------------------------------------
(* The invariant.  What is coming is a chain: each piece begins where the   *)
(* one before it ends, the last one ends where the peer's text ends and     *)
(* ends a record, only the last piece of a data record carries text, and    *)
(* the goodbye is the last record.                                          *)

Over == said \in {"goodbye", "closed"}

PiecesFit(c, s, word) ==
  \A i \in 1 .. Len(c) :
    /\ c[i].from <= c[i].to /\ c[i].to <= s
    /\ ~c[i].last \/ c[i].kind # "data" => c[i].to = c[i].from
    /\ c[i].last /\ c[i].kind = "goodbye" => i = Len(c)
    /\ c[i].kind = "goodbye" => word \in {"goodbye", "closed"}
EndsWhole(c, s) == c # <<>> => c[Len(c)].last /\ c[Len(c)].to = s
Chain(c, s, word) ==
  c \in Seq(Cuts) /\ PiecesFit(c, s, word) /\ Stream!Consecutive(c) /\ EndsWhole(c, s)

(* Where the text begins that is still to be decrypted.                     *)
Onset(c, s) == IF c = <<>> THEN s ELSE c[1].from

LEMMA Nonempty ==
  ASSUME NEW S, NEW c \in Seq(S)
  PROVE  c # <<>> <=> Len(c) >= 1
<1>1. Len(c) \in Nat /\ (c = <<>> <=> Len(c) = 0)
  BY LenProperties, EmptySeq
<1> QED
  BY <1>1

LEMMA PieceTypes ==
  ASSUME NEW c \in Seq(Cuts), NEW i \in 1 .. Len(c)
  PROVE  c[i] \in Cuts /\ c[i].from \in Nat /\ c[i].to \in Nat /\ c[i].last \in BOOLEAN
         /\ c[i].kind \in Stream!Kinds
<1>1. c[i] \in Cuts
  BY ElementOfSeq
<1> QED
  BY <1>1 DEF Cuts, Stream!Pieces

LEMMA StartWithin ==
  ASSUME NEW c, NEW s \in Nat, NEW word, Chain(c, s, word)
  PROVE  Onset(c, s) \in 0 .. s
<1>1. c \in Seq(Cuts) /\ Len(c) \in Nat
  BY LenProperties DEF Chain
<1>2. CASE c = <<>>
  BY <1>2 DEF Onset
<1>3. CASE c # <<>>
  <2>1. 1 \in 1 .. Len(c)
    BY <1>1, <1>3, Nonempty
  <2>2. c[1].from \in Nat /\ c[1].to \in Nat
    BY <1>1, <2>1, PieceTypes
  <2>3. c[1].from <= c[1].to /\ c[1].to <= s
    BY <2>1 DEF Chain, PiecesFit
  <2> QED
    BY <1>3, <2>2, <2>3 DEF Onset
<1> QED
  BY <1>2, <1>3

(* Up to the first piece that ends a record, every piece begins at the      *)
(* start: were there another, the first of them would not fit.              *)
LEMMA FirstRecord ==
  ASSUME NEW c, NEW s \in Nat, NEW word, Chain(c, s, word),
         NEW e \in 1 .. Len(c), \A j \in 1 .. e - 1 : ~c[j].last
  PROVE  c[e].from = c[1].from
<1> DEFINE Odd == {j \in 1 .. e : c[j].from # c[1].from}
<1>1. c \in Seq(Cuts) /\ Len(c) \in Nat
  BY LenProperties DEF Chain
<1>2. SUFFICES ASSUME Odd # {} PROVE FALSE
  BY <1>1
<1>3. Odd \subseteq Nat
  OBVIOUS
<1>4. PICK j \in Odd : \A k \in Odd : j <= k
  BY <1>2, <1>3, LeastOf
<1>5. j \in 2 .. e /\ j - 1 \in 1 .. e - 1 /\ j - 1 \in 1 .. Len(c) - 1 /\ j - 1 \in 1 .. Len(c)
  BY <1>1, <1>4
<1>6. j - 1 \notin Odd
  BY <1>4, <1>5
<1>7. c[j - 1].from = c[1].from
  BY <1>5, <1>6
<1>8. ~c[j - 1].last
  BY <1>5
<1>9. c[j - 1].to = c[j - 1].from
  BY <1>5, <1>8 DEF Chain, PiecesFit
<1>10. c[(j - 1) + 1].from = c[j - 1].to
  BY <1>5 DEF Chain, Stream!Consecutive
<1>11. (j - 1) + 1 = j
  BY <1>5
<1> QED
  BY <1>4, <1>7, <1>9, <1>10, <1>11

(* The first record ends with piece e.                                      *)
FirstEnd(c, e) == e \in 1 .. Len(c) /\ c[e].last /\ \A j \in 1 .. e - 1 : ~c[j].last

(* The first record is taken off.                                           *)
LEMMA ChainShrinks ==
  ASSUME NEW c \in Seq(Cuts), NEW s \in Nat, NEW word, Chain(c, s, word),
         NEW e, FirstEnd(c, e)
  PROVE  LET d == SubSeq(c, e + 1, Len(c))
         IN /\ Chain(d, s, word)
            /\ c[e].from = Onset(c, s) /\ c[e].to = Onset(d, s)
            /\ c[e].from \in Nat /\ c[e].to \in Nat /\ c[e].from <= c[e].to
            /\ c[e].kind # "data" => c[e].to = c[e].from
            /\ c[e].kind = "goodbye" => word \in {"goodbye", "closed"} /\ d = <<>>
<1> DEFINE d == SubSeq(c, e + 1, Len(c))
<1>0. e \in 1 .. Len(c) /\ c[e].last /\ \A j \in 1 .. e - 1 : ~c[j].last
  BY DEF FirstEnd
<1>1. c \in Seq(Cuts) /\ Len(c) \in Nat
  BY LenProperties DEF Chain
<1>2. /\ d \in Seq(Cuts) /\ Len(d) = Len(c) - e
      /\ \A i \in 1 .. Len(c) - e : d[i] = c[e + i]
  BY <1>0, <1>1, RestFacts
<1> HIDE DEF d
<1>3. c[e].from \in Nat /\ c[e].to \in Nat
  BY <1>0, <1>1, PieceTypes
<1>4. /\ c[e].from <= c[e].to
      /\ c[e].kind # "data" => c[e].to = c[e].from
      /\ c[e].kind = "goodbye" => word \in {"goodbye", "closed"} /\ e = Len(c)
  BY <1>0 DEF Chain, PiecesFit
<1>5. c # <<>> /\ c[e].from = Onset(c, s)
  BY <1>0, <1>1, FirstRecord, Nonempty DEF Onset
<1>6. PiecesFit(d, s, word)
  <2> SUFFICES ASSUME NEW i \in 1 .. Len(d)
               PROVE  /\ d[i].from <= d[i].to /\ d[i].to <= s
                      /\ ~d[i].last \/ d[i].kind # "data" => d[i].to = d[i].from
                      /\ d[i].last /\ d[i].kind = "goodbye" => i = Len(d)
                      /\ d[i].kind = "goodbye" => word \in {"goodbye", "closed"}
    BY DEF PiecesFit
  <2>1. d[i] = c[e + i] /\ e + i \in 1 .. Len(c) /\ (e + i = Len(c) => i = Len(d))
    BY <1>0, <1>1, <1>2
  <2>2. /\ c[e + i].from <= c[e + i].to /\ c[e + i].to <= s
        /\ ~c[e + i].last \/ c[e + i].kind # "data" => c[e + i].to = c[e + i].from
        /\ c[e + i].last /\ c[e + i].kind = "goodbye" => e + i = Len(c)
        /\ c[e + i].kind = "goodbye" => word \in {"goodbye", "closed"}
    BY <2>1 DEF Chain, PiecesFit
  <2> QED
    BY <2>1, <2>2
<1>7. Stream!Consecutive(d)
  <2> SUFFICES ASSUME NEW i \in 1 .. Len(d) - 1 PROVE d[i + 1].from = d[i].to
    BY DEF Stream!Consecutive
  <2>1. d[i] = c[e + i] /\ d[i + 1] = c[(e + i) + 1] /\ e + i \in 1 .. Len(c) - 1
    <3>1. e + (i + 1) = (e + i) + 1
      BY <1>0, <1>1, <1>2
    <3> QED
      BY <1>0, <1>1, <1>2, <3>1
  <2> QED
    BY <2>1 DEF Chain, Stream!Consecutive
<1>8. EndsWhole(d, s)
  <2> SUFFICES ASSUME d # <<>> PROVE d[Len(d)].last /\ d[Len(d)].to = s
    BY DEF EndsWhole
  <2>1. d[Len(d)] = c[e + Len(d)] /\ e + Len(d) = Len(c)
    BY <1>0, <1>1, <1>2, Nonempty
  <2> QED
    BY <1>5, <2>1 DEF Chain, EndsWhole
<1>9. c[e].to = Onset(d, s)
  <2>1. CASE d = <<>>
    <3>1. e = Len(c)
      BY <1>0, <1>1, <1>2, <2>1, Nonempty
    <3> QED
      BY <1>5, <2>1, <3>1 DEF Onset, Chain, EndsWhole
  <2>2. CASE d # <<>>
    <3>1. d[1] = c[e + 1] /\ e \in 1 .. Len(c) - 1
      BY <1>0, <1>1, <1>2, <2>2, Nonempty
    <3> QED
      BY <1>0, <2>2, <3>1 DEF Onset, Chain, Stream!Consecutive
  <2> QED
    BY <2>1, <2>2
<1>10. c[e].kind = "goodbye" => d = <<>>
  BY <1>0, <1>1, <1>2, <1>4, Nonempty
<1> QED
  BY <1>2, <1>3, <1>4, <1>5, <1>6, <1>7, <1>8, <1>9, <1>10 DEF Chain, d

(* The peer sends a record.                                                 *)
LEMMA ChainGrows ==
  ASSUME NEW c, NEW s \in Nat, NEW word, word \notin {"goodbye", "closed"}, Chain(c, s, word),
         NEW kind \in Stream!Kinds, NEW pieces \in Nat \ {0}, NEW to \in Nat, s <= to,
         kind # "data" => to = s
  PROVE  LET d == c \o Stream!Record(kind, pieces, s, to)
         IN /\ Stream!Record(kind, pieces, s, to) \in Seq(Cuts)
            /\ Chain(d, to, kind) /\ Onset(d, to) = Onset(c, s)
<1> DEFINE r == Stream!Record(kind, pieces, s, to)
           d == c \o r
<1>1. c \in Seq(Cuts) /\ Len(c) \in Nat
  BY LenProperties DEF Chain
<1>2. \A i \in 1 .. pieces : r[i] = [kind |-> kind, last |-> i = pieces, from |-> s,
                                     to |-> IF i = pieces THEN to ELSE s]
  BY DEF Stream!Record
<1>3. r \in Seq(Cuts) /\ Len(r) = pieces
  <2>1. \A i \in 1 .. pieces : [kind |-> kind, last |-> i = pieces, from |-> s,
                                to |-> IF i = pieces THEN to ELSE s] \in Cuts
    BY DEF Cuts, Stream!Pieces
  <2>2. r \in [1 .. pieces -> Cuts]
    BY <2>1 DEF Stream!Record
  <2> QED
    BY <2>2, LenProperties
<1> HIDE DEF r
<1>4. \A i \in 1 .. pieces :
        /\ r[i].kind = kind /\ (r[i].last <=> i = pieces) /\ r[i].from = s
        /\ r[i].to = IF i = pieces THEN to ELSE s
  <2> SUFFICES ASSUME NEW i \in 1 .. pieces
               PROVE  /\ r[i].kind = kind /\ (r[i].last <=> i = pieces) /\ r[i].from = s
                      /\ r[i].to = IF i = pieces THEN to ELSE s
    OBVIOUS
  <2>1. r[i] = [kind |-> kind, last |-> i = pieces, from |-> s, to |-> IF i = pieces THEN to ELSE s]
    BY <1>2
  <2>2. r[i].last = (i = pieces)
    BY <2>1
  <2>3. r[i].kind = kind /\ r[i].from = s /\ r[i].to = IF i = pieces THEN to ELSE s
    BY <2>1
  <2> QED
    BY <2>2, <2>3, Zenon
<1>5. /\ d \in Seq(Cuts) /\ Len(d) = Len(c) + pieces
      /\ \A i \in 1 .. Len(c) : d[i] = c[i]
      /\ \A i \in 1 .. pieces : d[Len(c) + i] = r[i]
  <2>1. /\ d \in Seq(Cuts) /\ Len(d) = Len(c) + Len(r)
        /\ \A i \in 1 .. Len(c) + Len(r) : d[i] = IF i <= Len(c) THEN c[i] ELSE r[i - Len(c)]
    BY <1>1, <1>3, ConcatProperties
  <2> HIDE DEF d
  <2>2. \A i \in 1 .. Len(c) : d[i] = c[i]
    BY <1>1, <1>3, <2>1
  <2>3. ASSUME NEW i \in 1 .. pieces PROVE d[Len(c) + i] = r[i]
    <3>1. Len(c) + i \in 1 .. Len(c) + Len(r) /\ ~(Len(c) + i <= Len(c)) /\ (Len(c) + i) - Len(c) = i
      BY <1>1, <1>3
    <3> QED
      BY <2>1, <3>1
  <2> QED
    BY <1>3, <2>1, <2>2, <2>3
<1> HIDE DEF d
<1>6. \A i \in 1 .. Len(d) : i \in 1 .. Len(c) \/ \E k \in 1 .. pieces : i = Len(c) + k
  <2> SUFFICES ASSUME NEW i \in 1 .. Len(d)
               PROVE  i \in 1 .. Len(c) \/ \E k \in 1 .. pieces : i = Len(c) + k
    OBVIOUS
  <2>1. CASE i <= Len(c)
    BY <1>1, <1>5, <2>1
  <2>2. CASE i > Len(c)
    <3>1. i - Len(c) \in 1 .. pieces /\ i = Len(c) + (i - Len(c))
      BY <1>1, <1>5, <2>2
    <3> QED
      BY <3>1
  <2> QED
    BY <1>1, <1>5, <2>1, <2>2
<1>7. PiecesFit(d, to, kind)
  <2> SUFFICES ASSUME NEW i \in 1 .. Len(d)
               PROVE  /\ d[i].from <= d[i].to /\ d[i].to <= to
                      /\ ~d[i].last \/ d[i].kind # "data" => d[i].to = d[i].from
                      /\ d[i].last /\ d[i].kind = "goodbye" => i = Len(d)
                      /\ d[i].kind = "goodbye" => kind \in {"goodbye", "closed"}
    BY DEF PiecesFit
  <2>1. CASE i \in 1 .. Len(c)
    <3>1. /\ c[i].from <= c[i].to /\ c[i].to <= s /\ c[i].to \in Nat
          /\ ~c[i].last \/ c[i].kind # "data" => c[i].to = c[i].from
          /\ c[i].kind # "goodbye"
      BY <1>1, <2>1, PieceTypes DEF Chain, PiecesFit
    <3> QED
      BY <1>5, <2>1, <3>1
  <2>2. ASSUME NEW k \in 1 .. pieces, i = Len(c) + k PROVE
           /\ d[i].from <= d[i].to /\ d[i].to <= to
           /\ ~d[i].last \/ d[i].kind # "data" => d[i].to = d[i].from
           /\ d[i].last /\ d[i].kind = "goodbye" => i = Len(d)
           /\ d[i].kind = "goodbye" => kind \in {"goodbye", "closed"}
    <3>1. d[i] = r[k] /\ (k = pieces <=> i = Len(d))
      BY <1>1, <1>5, <2>2
    <3>2. /\ r[k].kind = kind /\ (r[k].last <=> k = pieces) /\ r[k].from = s
          /\ r[k].to = IF k = pieces THEN to ELSE s
      BY <1>4
    <3> QED
      BY <3>1, <3>2
  <2> QED
    BY <1>6, <2>1, <2>2
<1>8. Stream!Consecutive(d)
  <2> SUFFICES ASSUME NEW i \in 1 .. Len(d) - 1 PROVE d[i + 1].from = d[i].to
    BY DEF Stream!Consecutive
  <2>1. CASE i \in 1 .. Len(c) - 1
    <3>1. i \in 1 .. Len(c) /\ i + 1 \in 1 .. Len(c)
      BY <1>1, <2>1
    <3>2. d[i] = c[i] /\ d[i + 1] = c[i + 1]
      BY <1>5, <3>1
    <3> QED
      BY <2>1, <3>2 DEF Chain, Stream!Consecutive
  <2>2. CASE i = Len(c)
    <3>1. i \in 1 .. Len(c) /\ 1 \in 1 .. pieces /\ pieces # 0 /\ Len(c) >= 1
      BY <1>1, <2>2
    <3>2. d[i] = c[i] /\ d[i + 1] = r[1]
      BY <1>5, <2>2, <3>1
    <3>3. c # <<>>
      BY <1>1, <3>1, Nonempty
    <3>4. c[i].to = s
      BY <2>2, <3>3 DEF Chain, EndsWhole
    <3> QED
      BY <1>4, <3>1, <3>2, <3>4
  <2>3. CASE i > Len(c)
    <3>1. PICK k \in 1 .. pieces - 1 : i = Len(c) + k
      BY <1>1, <1>5, <2>3, i - Len(c) \in 1 .. pieces - 1 /\ i = Len(c) + (i - Len(c))
    <3>2. i + 1 = Len(c) + (k + 1) /\ k \in 1 .. pieces /\ k + 1 \in 1 .. pieces /\ k # pieces
      BY <1>1, <3>1
    <3>3. d[i] = r[k] /\ d[i + 1] = r[k + 1]
      BY <1>5, <3>1, <3>2
    <3> QED
      BY <1>4, <3>2, <3>3
  <2> QED
    BY <1>1, <1>5, <2>1, <2>2, <2>3
<1>9. EndsWhole(d, to)
  <2>1. pieces \in 1 .. pieces /\ d[Len(d)] = r[pieces]
    BY <1>5
  <2> QED
    BY <1>4, <2>1 DEF EndsWhole
<1>10. Onset(d, to) = Onset(c, s)
  <2>1. d # <<>>
    BY <1>1, <1>5, Nonempty
  <2>2. CASE c = <<>>
    <3>1. 1 \in 1 .. pieces /\ Len(c) + 1 = 1
      BY <1>1, <2>2, EmptySeq
    <3>2. d[1] = r[1]
      BY <1>5, <3>1
    <3> QED
      BY <1>4, <2>1, <2>2, <3>1, <3>2 DEF Onset
  <2>3. CASE c # <<>>
    <3>1. d[1] = c[1]
      BY <1>1, <1>5, <2>3, Nonempty
    <3> QED
      BY <2>1, <2>3, <3>1 DEF Onset
  <2> QED
    BY <2>2, <2>3
<1> QED
  BY <1>3, <1>5, <1>7, <1>8, <1>9, <1>10 DEF Chain, d, r

-----------------------------------------------------------------------------
(* Stretches of the text.                                                   *)

LEMMA StretchFacts ==
  ASSUME NEW a \in Nat, NEW b \in Nat, a <= b
  PROVE  /\ Stream!Bytes(a, b) \in Seq(a + 1 .. b) /\ Stream!Bytes(a, b) \in Seq(Nat)
         /\ Len(Stream!Bytes(a, b)) = b - a
         /\ \A i \in 1 .. b - a : Stream!Bytes(a, b)[i] = a + i
<1>1. b - a \in Nat /\ Stream!Bytes(a, b) = [i \in 1 .. b - a |-> a + i]
  BY DEF Stream!Bytes
<1>2. \A i \in 1 .. b - a : a + i \in a + 1 .. b /\ a + i \in Nat
  OBVIOUS
<1> QED
  BY <1>1, <1>2, LenProperties

LEMMA StretchesJoin ==
  ASSUME NEW a \in Nat, NEW b \in Nat, NEW c \in Nat, a <= b, b <= c
  PROVE  Stream!Bytes(a, b) \o Stream!Bytes(b, c) = Stream!Bytes(a, c)
<1> DEFINE x == Stream!Bytes(a, b)
           y == Stream!Bytes(b, c)
           z == Stream!Bytes(a, c)
           w == x \o y
<1>1. /\ x \in Seq(Nat) /\ Len(x) = b - a /\ \A i \in 1 .. b - a : x[i] = a + i
      /\ y \in Seq(Nat) /\ Len(y) = c - b /\ \A i \in 1 .. c - b : y[i] = b + i
      /\ z \in Seq(Nat) /\ Len(z) = c - a /\ \A i \in 1 .. c - a : z[i] = a + i
  <2>1. a <= c
    OBVIOUS
  <2>2. x \in Seq(Nat) /\ Len(x) = b - a /\ \A i \in 1 .. b - a : x[i] = a + i
    BY StretchFacts
  <2>3. y \in Seq(Nat) /\ Len(y) = c - b /\ \A i \in 1 .. c - b : y[i] = b + i
    BY StretchFacts
  <2>4. z \in Seq(Nat) /\ Len(z) = c - a /\ \A i \in 1 .. c - a : z[i] = a + i
    BY <2>1, StretchFacts
  <2> HIDE DEF x, y, z
  <2> QED
    BY <2>2, <2>3, <2>4
<1> HIDE DEF x, y, z
<1>2. /\ w \in Seq(Nat) /\ Len(w) = Len(x) + Len(y)
      /\ \A i \in 1 .. Len(x) + Len(y) : w[i] = IF i <= Len(x) THEN x[i] ELSE y[i - Len(x)]
  BY <1>1, ConcatProperties
<1> HIDE DEF w
<1>3. \A i \in 1 .. Len(w) : w[i] = z[i]
  <2> SUFFICES ASSUME NEW i \in 1 .. Len(w) PROVE w[i] = z[i]
    OBVIOUS
  <2>1. z[i] = a + i
    BY <1>1, <1>2
  <2>2. CASE i <= Len(x)
    BY <1>1, <1>2, <2>1, <2>2
  <2>3. CASE i > Len(x)
    <3>1. w[i] = y[i - Len(x)] /\ i - Len(x) \in 1 .. c - b
      BY <1>1, <1>2, <2>3
    <3> QED
      BY <1>1, <2>1, <3>1
  <2> QED
    BY <1>1, <1>2, <2>2, <2>3
<1>4. w \in Seq(Nat) /\ z \in Seq(Nat) /\ Len(w) = Len(z)
  BY <1>1, <1>2
<1>5. w = z
  BY <1>3, <1>4, SeqEqual, Zenon
<1> QED
  BY <1>5 DEF w, x, y, z

LEMMA StretchCut ==
  ASSUME NEW a \in Nat, NEW b \in Nat, NEW n \in Nat, a + n <= b
  PROVE  /\ SubSeq(Stream!Bytes(a, b), 1, n) = Stream!Bytes(a, a + n)
         /\ SubSeq(Stream!Bytes(a, b), n + 1, Len(Stream!Bytes(a, b))) = Stream!Bytes(a + n, b)
<1> DEFINE x == Stream!Bytes(a, b)
           y == Stream!Bytes(a, a + n)
           z == Stream!Bytes(a + n, b)
           p == SubSeq(x, 1, n)
           q == SubSeq(x, n + 1, b - a)
<1>1. /\ x \in Seq(Nat) /\ Len(x) = b - a /\ \A i \in 1 .. b - a : x[i] = a + i
      /\ y \in Seq(Nat) /\ Len(y) = n /\ \A i \in 1 .. n : y[i] = a + i
      /\ z \in Seq(Nat) /\ Len(z) = (b - a) - n /\ \A i \in 1 .. (b - a) - n : z[i] = (a + n) + i
  <2>1. a <= b /\ a <= a + n /\ a + n \in Nat /\ (a + n) - a = n /\ b - (a + n) = (b - a) - n
    OBVIOUS
  <2> QED
    BY <2>1, StretchFacts
<1> HIDE DEF x, y, z
<1>2. \A i \in 1 .. b - a : x[i] \in Nat
  BY <1>1
<1>3. /\ p \in Seq(Nat) /\ Len(p) = (IF 1 <= n THEN n - 1 + 1 ELSE 0)
      /\ \A i \in 1 .. n - 1 + 1 : p[i] = x[1 + i - 1]
  <2>1. \A i \in 1 .. n : x[i] \in Nat
    BY <1>2
  <2> QED
    BY <2>1, SubSeqProperties
<1>4. /\ q \in Seq(Nat) /\ Len(q) = (IF n + 1 <= b - a THEN b - a - (n + 1) + 1 ELSE 0)
      /\ \A i \in 1 .. b - a - (n + 1) + 1 : q[i] = x[n + 1 + i - 1]
  <2>1. \A i \in n + 1 .. b - a : x[i] \in Nat
    BY <1>2
  <2> QED
    BY <2>1, SubSeqProperties
<1> HIDE DEF p, q
<1>5. Len(p) = Len(y) /\ \A i \in 1 .. Len(p) : p[i] = y[i]
  <2>1. Len(p) = n
    BY <1>3
  <2>2. \A i \in 1 .. n : i \in 1 .. n - 1 + 1 /\ 1 + i - 1 = i /\ i \in 1 .. b - a
    OBVIOUS
  <2>3. \A i \in 1 .. n : p[i] = x[i]
    BY <1>3, <2>2
  <2> QED
    BY <1>1, <2>1, <2>2, <2>3
<1>6. Len(q) = Len(z) /\ \A i \in 1 .. Len(q) : q[i] = z[i]
  <2>1. Len(q) = (b - a) - n
    BY <1>4
  <2>2. \A i \in 1 .. (b - a) - n :
          /\ i \in 1 .. b - a - (n + 1) + 1 /\ n + 1 + i - 1 = n + i /\ n + i \in 1 .. b - a
          /\ a + (n + i) = (a + n) + i
    OBVIOUS
  <2>3. \A i \in 1 .. (b - a) - n : q[i] = x[n + i]
    BY <1>4, <2>2
  <2> QED
    BY <1>1, <2>1, <2>2, <2>3
<1>7. p = y
  BY <1>1, <1>3, <1>5, SeqEqual, Zenon
<1>8. q = z
  BY <1>1, <1>4, <1>6, SeqEqual, Zenon
<1> QED
  BY <1>1, <1>7, <1>8 DEF p, q, x, y, z

-----------------------------------------------------------------------------
(* The session.                                                             *)

StreamTypes ==
  /\ said \in Stream!Kinds \cup {"closed"} /\ sent \in 0 .. MaxBytes /\ records \in 0 .. MaxRecords
  /\ network \in Seq(Cuts) /\ input \in Seq(Cuts) /\ encrypted \in Seq(Cuts)
  /\ stage \in Stream!Stages /\ result \in {"none", "data", "end", "error"}
  /\ decrypted \in Seq(Nat) /\ delivered \in Seq(Nat)
  /\ total \in 0 .. MaxBytes /\ written \in 0 .. total
  /\ wrote \in Seq(1 .. MaxBytes) /\ torn \in BOOLEAN

ComingFits == Chain(Stream!Coming, sent, said)

(* What reads have given and what waits for the next read is the text up    *)
(* to the start of what is still to be decrypted.                           *)
TextGiven ==
  /\ delivered = Stream!Bytes(0, Len(delivered))
  /\ decrypted = Stream!Bytes(Len(delivered), Len(delivered) + Len(decrypted))
  /\ Len(delivered) + Len(decrypted) = Onset(Stream!Coming, sent)

(* Records wait for the handshake or for the reads, never for both.         *)
StagesFit ==
  /\ input # <<>> => stage \in {"hello", "step", "failed"}
  /\ encrypted # <<>> => stage \in {"idle", "reading"}
  /\ decrypted # <<>> => stage = "idle"

(* After the end was told the peer sends no more.                           *)
EndTold == result = "end" => Over /\ Len(delivered) = sent

StreamInv == /\ StreamTypes /\ ComingFits /\ TextGiven /\ StagesFit /\ EndTold /\ Stream!SentWhole

LEMMA ComingIs ==
  ASSUME StreamTypes, StagesFit
  PROVE  /\ Stream!Coming \in Seq(Cuts)
         /\ stage \in {"hello", "step", "failed"} => encrypted = <<>> /\ Stream!Coming = input \o network
         /\ stage \in {"idle", "reading"} => input = <<>> /\ Stream!Coming = encrypted \o network
<1>1. /\ network \in Seq(Cuts) /\ input \in Seq(Cuts) /\ encrypted \in Seq(Cuts)
  BY DEF StreamTypes
<1>2. Stream!Coming = (input \o encrypted) \o network /\ input \o encrypted \in Seq(Cuts)
  BY <1>1, ConcatProperties DEF Stream!Coming
<1>3. Stream!Coming \in Seq(Cuts)
  BY <1>1, <1>2, ConcatProperties
<1>4. stage \in {"hello", "step", "failed"} => encrypted = <<>>
  BY DEF StagesFit
<1>5. stage \in {"idle", "reading"} => input = <<>>
  BY DEF StagesFit
<1>6. input \o <<>> = input /\ <<>> \o encrypted = encrypted
  BY <1>1, ConcatEmptySeq
<1> QED
  BY <1>2, <1>3, <1>4, <1>5, <1>6

LEMMA StreamInitial == Stream!Init => StreamInv
<1> SUFFICES ASSUME Stream!Init PROVE StreamInv
  OBVIOUS
<1> USE DEF Stream!Init
<1>1. <<>> \in Seq(Cuts) /\ <<>> \in Seq(Nat) /\ <<>> \in Seq(1 .. MaxBytes) /\ Len(<<>>) = 0
  BY EmptySeq
<1>2. StreamTypes
  <2>1. MaxBytes \in Nat /\ MaxRecords \in Nat
    BY HostAssumption
  <2>2. sent \in 0 .. MaxBytes /\ records \in 0 .. MaxRecords /\ total \in 0 .. MaxBytes /\ written \in 0 .. total
    BY <2>1
  <2> QED
    BY <1>1, <2>2 DEF StreamTypes, Stream!Kinds, Stream!Stages
<1>3. StagesFit
  BY DEF StagesFit
<1>4. Stream!Coming = <<>>
  BY <1>1, <1>2, <1>3, ComingIs, ConcatEmptySeq
<1>5. Chain(<<>>, 0, said)
  BY <1>1 DEF Chain, PiecesFit, EndsWhole, Stream!Consecutive
<1>6. ComingFits
  BY <1>4, <1>5 DEF ComingFits
<1>7. Stream!Bytes(0, 0) = <<>>
  <2>1. Stream!Bytes(0, 0) \in Seq(Nat) /\ Len(Stream!Bytes(0, 0)) = 0
    BY StretchFacts
  <2> QED
    BY <2>1, EmptySeq
<1>8. TextGiven
  BY <1>1, <1>4, <1>7 DEF TextGiven, Onset
<1>9. EndTold /\ Stream!SentWhole
  BY <1>7 DEF EndTold, Stream!SentWhole
<1> QED
  BY <1>2, <1>3, <1>6, <1>8, <1>9 DEF StreamInv

LEMMA PeerSendsKeeps == StreamInv /\ Stream!PeerSends => StreamInv'
<1> SUFFICES ASSUME StreamInv, Stream!PeerSends PROVE StreamInv'
  OBVIOUS
<1>1. StreamTypes /\ ComingFits /\ TextGiven /\ StagesFit /\ EndTold /\ Stream!SentWhole
  BY DEF StreamInv
<1>2. PICK kind \in Stream!Kinds, pieces \in 1 .. MaxPieces, to \in sent .. MaxBytes :
        /\ Stream!Follows(kind) /\ (kind # "data" => to = sent)
        /\ network' = network \o Stream!Record(kind, pieces, sent, to)
        /\ said' = kind /\ sent' = to
  BY DEF Stream!PeerSends
<1>3. /\ records < MaxRecords /\ records' = records + 1
      /\ UNCHANGED <<stage, input, encrypted, decrypted, delivered, result>>
      /\ UNCHANGED <<total, written, wrote, torn>>
  BY DEF Stream!PeerSends, Stream!writeVars
<1>4. sent \in Nat /\ MaxBytes \in Nat /\ MaxPieces \in Nat /\ MaxRecords \in Nat /\ records \in Nat
  BY <1>1, HostAssumption DEF StreamTypes
<1>5. ~Over /\ Over \in BOOLEAN
  BY <1>2 DEF Over, Stream!Follows, Stream!Kinds
<1>6. Chain(Stream!Coming, sent, said)
  BY <1>1 DEF ComingFits
<1> DEFINE r == Stream!Record(kind, pieces, sent, to)
<1>7. /\ r \in Seq(Cuts)
      /\ Chain(Stream!Coming \o r, to, kind)
      /\ Onset(Stream!Coming \o r, to) = Onset(Stream!Coming, sent)
  <2>1. pieces \in Nat \ {0} /\ to \in Nat /\ sent <= to
    BY <1>4
  <2>2. kind # "data" => to = sent
    BY <1>2
  <2>3. said \notin {"goodbye", "closed"}
    BY <1>5 DEF Over
  <2> QED
    BY <1>4, <1>6, <2>1, <2>2, <2>3, ChainGrows
<1> HIDE DEF r
<1>8. /\ network \in Seq(Cuts) /\ input \o encrypted \in Seq(Cuts)
      /\ network \o r \in Seq(Cuts)
  BY <1>1, <1>7, ConcatProperties DEF StreamTypes
<1>9. network' = network \o r
  BY <1>2 DEF r
<1>10. Stream!Coming' = Stream!Coming \o r
  <2>1. Stream!Coming = (input \o encrypted) \o network
    BY DEF Stream!Coming
  <2>2. Stream!Coming' = (input \o encrypted) \o (network \o r)
    BY <1>3, <1>9 DEF Stream!Coming
  <2> QED
    BY <1>7, <1>8, <2>1, <2>2, Regroup
<1>11. StreamTypes'
  BY <1>1, <1>2, <1>3, <1>4, <1>8, <1>9 DEF StreamTypes
<1>13. ComingFits'
  BY <1>2, <1>7, <1>10 DEF ComingFits
<1>14. TextGiven'
  BY <1>1, <1>2, <1>3, <1>7, <1>10 DEF TextGiven
<1>15. StagesFit' /\ EndTold' /\ Stream!SentWhole'
  BY <1>1, <1>3, <1>5 DEF StagesFit, EndTold, Stream!SentWhole
<1> QED
  BY <1>11, <1>13, <1>14, <1>15 DEF StreamInv

LEMMA PeerClosesKeeps == StreamInv /\ Stream!PeerCloses => StreamInv'
<1> SUFFICES ASSUME StreamInv, Stream!PeerCloses PROVE StreamInv'
  OBVIOUS
<1>1. StreamTypes /\ ComingFits /\ TextGiven /\ StagesFit /\ EndTold /\ Stream!SentWhole
  BY DEF StreamInv
<1>2. /\ said' = "closed" /\ UNCHANGED <<network, sent, records>>
      /\ UNCHANGED <<stage, input, encrypted, decrypted, delivered, result>>
      /\ UNCHANGED <<total, written, wrote, torn>>
  BY DEF Stream!PeerCloses, Stream!writeVars
<1>3. Over' /\ Stream!Coming' = Stream!Coming
  BY <1>2 DEF Over, Stream!Coming
<1>4. StreamTypes'
  BY <1>1, <1>2 DEF StreamTypes
<1>5. ComingFits'
  BY <1>1, <1>2, <1>3 DEF ComingFits, Chain, PiecesFit
<1>6. TextGiven'
  BY <1>1, <1>2, <1>3 DEF TextGiven
<1>7. StagesFit' /\ EndTold' /\ Stream!SentWhole'
  BY <1>1, <1>2, <1>3 DEF StagesFit, EndTold, Stream!SentWhole
<1> QED
  BY <1>4, <1>5, <1>6, <1>7 DEF StreamInv

(* The first record of a buffer is taken, before what is on its way.        *)
LEMMA TakeRecord ==
  ASSUME NEW b \in Seq(Cuts), NEW w \in Seq(Cuts), NEW s \in Nat, NEW word,
         Chain(b \o w, s, word), NEW e, e = Stream!EndOfRecord(b), e # 0
  PROVE  /\ Stream!Extra(b) \in Seq(Cuts) /\ Chain(Stream!Extra(b) \o w, s, word)
         /\ b[e].from = Onset(b \o w, s) /\ b[e].to = Onset(Stream!Extra(b) \o w, s)
         /\ b[e].from \in Nat /\ b[e].to \in Nat /\ b[e].from <= b[e].to
         /\ b[e].kind # "data" => b[e].to = b[e].from
         /\ b[e].kind = "goodbye" =>
              word \in {"goodbye", "closed"} /\ Stream!Extra(b) = <<>> /\ w = <<>>
<1> DEFINE c == b \o w
           x == Stream!Extra(b)
<1>1. Len(b) \in Nat
  BY LenProperties
<1>2. e \in 1 .. Len(b) /\ b[e].last /\ \A j \in 1 .. e - 1 : ~b[j].last
  BY <1>1, EndFacts
<1>3. x = SubSeq(b, e + 1, Len(b)) /\ x \in Seq(Cuts)
  <2>1. x = SubSeq(b, e + 1, Len(b))
    BY DEF Stream!Extra
  <2> QED
    BY <1>2, <2>1, RestFacts
<1> HIDE DEF x
<1>4. /\ e \in 1 .. Len(c) /\ c[e] = b[e] /\ \A j \in 1 .. e : c[j] = b[j]
      /\ x \o w = SubSeq(c, e + 1, Len(c))
  <2>1. e \in 1 .. Len(b)
    BY <1>2
  <2>2. /\ e \in 1 .. Len(b \o w) /\ (b \o w)[e] = b[e]
        /\ \A j \in 1 .. e : (b \o w)[j] = b[j]
        /\ SubSeq(b, e + 1, Len(b)) \o w = SubSeq(b \o w, e + 1, Len(b \o w))
    BY <2>1, Leaves
  <2> QED
    BY <1>3, <2>2
<1>5. Chain(c, s, word) /\ c \in Seq(Cuts)
  BY DEF Chain
<1> HIDE DEF c
<1>6. FirstEnd(c, e)
  <2>1. \A j \in 1 .. e - 1 : j \in 1 .. e
    BY <1>1, <1>2
  <2> QED
    BY <1>2, <1>4, <2>1 DEF FirstEnd
<1>7. /\ Chain(x \o w, s, word)
      /\ c[e].from = Onset(c, s) /\ c[e].to = Onset(x \o w, s)
      /\ c[e].from \in Nat /\ c[e].to \in Nat /\ c[e].from <= c[e].to
      /\ c[e].kind # "data" => c[e].to = c[e].from
      /\ c[e].kind = "goodbye" => word \in {"goodbye", "closed"} /\ x \o w = <<>>
  <2>1. LET d == SubSeq(c, e + 1, Len(c))
        IN /\ Chain(d, s, word)
           /\ c[e].from = Onset(c, s) /\ c[e].to = Onset(d, s)
           /\ c[e].from \in Nat /\ c[e].to \in Nat /\ c[e].from <= c[e].to
           /\ c[e].kind # "data" => c[e].to = c[e].from
           /\ c[e].kind = "goodbye" => word \in {"goodbye", "closed"} /\ d = <<>>
    BY <1>5, <1>6, ChainShrinks
  <2> QED
    BY <1>4, <2>1
<1>8. x \o w = <<>> => x = <<>> /\ w = <<>>
  BY <1>3, ConcatSimplifications
<1> QED
  BY <1>3, <1>4, <1>7, <1>8 DEF c, x

LEMMA ReceiveTokenKeeps == StreamInv /\ Stream!ReceiveToken => StreamInv'
<1> SUFFICES ASSUME StreamInv, Stream!ReceiveToken PROVE StreamInv'
  OBVIOUS
<1>1. StreamTypes /\ ComingFits /\ TextGiven /\ StagesFit /\ EndTold /\ Stream!SentWhole
  BY DEF StreamInv
<1>2. PICK n \in 1 .. Len(network) :
        /\ input' = input \o SubSeq(network, 1, n)
        /\ network' = SubSeq(network, n + 1, Len(network))
  BY DEF Stream!ReceiveToken, Stream!Receive
<1>3. /\ stage = "hello" /\ stage' = "step"
      /\ UNCHANGED <<said, sent, records, encrypted, decrypted, delivered, result>>
      /\ UNCHANGED <<total, written, wrote, torn>>
  BY DEF Stream!ReceiveToken, Stream!writeVars
<1>4. /\ input \in Seq(Cuts) /\ network \in Seq(Cuts)
      /\ encrypted = <<>> /\ Stream!Coming = input \o network
  BY <1>1, <1>3, ComingIs DEF StreamTypes
<1>5. /\ input' \in Seq(Cuts) /\ network' \in Seq(Cuts) /\ input' \o network' = input \o network
  BY <1>2, <1>4, Arrives
<1>6. Stream!Coming' = Stream!Coming
  <2>1. Stream!Coming' = (input' \o <<>>) \o network'
    BY <1>3, <1>4 DEF Stream!Coming
  <2> QED
    BY <1>4, <1>5, <2>1, ConcatEmptySeq
<1>7. StreamTypes'
  BY <1>1, <1>3, <1>5 DEF StreamTypes, Stream!Stages
<1>8. ComingFits' /\ TextGiven'
  BY <1>1, <1>3, <1>6 DEF ComingFits, TextGiven
<1>9. StagesFit' /\ EndTold' /\ Stream!SentWhole'
  BY <1>1, <1>3, <1>4 DEF StagesFit, EndTold, Over, Stream!SentWhole
<1> QED
  BY <1>7, <1>8, <1>9 DEF StreamInv

LEMMA TakeTokenKeeps == StreamInv /\ Stream!TakeToken => StreamInv'
<1> SUFFICES ASSUME StreamInv, Stream!TakeToken PROVE StreamInv'
  OBVIOUS
<1>1. StreamTypes /\ ComingFits /\ TextGiven /\ StagesFit /\ EndTold /\ Stream!SentWhole
  BY DEF StreamInv
<1> DEFINE end == Stream!EndOfRecord(input)
           extra == Stream!Extra(input)
<1>2. /\ stage = "step"
      /\ UNCHANGED <<said, network, sent, records, decrypted, delivered, result>>
      /\ UNCHANGED <<total, written, wrote, torn>>
  BY DEF Stream!TakeToken, Stream!peerVars, Stream!writeVars
<1>3. /\ input \in Seq(Cuts) /\ network \in Seq(Cuts) /\ sent \in Nat
      /\ encrypted = <<>> /\ Stream!Coming = input \o network /\ decrypted = <<>>
  BY <1>1, <1>2, ComingIs, HostAssumption DEF StreamTypes, StagesFit
<1>4. CASE end = 0 /\ stage' = "hello" /\ UNCHANGED <<input, encrypted>>
  <2>1. Stream!Coming' = Stream!Coming
    BY <1>2, <1>4 DEF Stream!Coming
  <2>2. StreamTypes'
    BY <1>1, <1>2, <1>4 DEF StreamTypes, Stream!Stages
  <2>3. ComingFits' /\ TextGiven'
    BY <1>1, <1>2, <2>1 DEF ComingFits, TextGiven
  <2>4. StagesFit' /\ EndTold' /\ Stream!SentWhole'
    BY <1>1, <1>2, <1>3, <1>4 DEF StagesFit, EndTold, Over, Stream!SentWhole
  <2> QED
    BY <2>2, <2>3, <2>4 DEF StreamInv
<1>5. ASSUME end # 0, input[end].kind # "data",
             \/ input' = extra /\ encrypted' = <<>> /\ stage' \in {"hello", "step"}
             \/ input' = <<>> /\ encrypted' = extra /\ stage' = "idle"
      PROVE  StreamInv'
  <2>1. Chain(input \o network, sent, said)
    BY <1>1, <1>3 DEF ComingFits
  <2>2. /\ extra \in Seq(Cuts) /\ Chain(extra \o network, sent, said)
        /\ Onset(extra \o network, sent) = Onset(input \o network, sent)
    BY <1>3, <1>5, <2>1, TakeRecord
  <2> HIDE DEF extra
  <2>3. Stream!Coming' = extra \o network
    <3>1. Stream!Coming' = (input' \o encrypted') \o network
      BY <1>2 DEF Stream!Coming
    <3>2. extra \o <<>> = extra /\ <<>> \o extra = extra
      BY <2>2, ConcatEmptySeq
    <3> QED
      BY <1>5, <3>1, <3>2
  <2>4. <<>> \in Seq(Cuts)
    BY EmptySeq
  <2>5. StreamTypes'
    BY <1>1, <1>2, <1>5, <2>2, <2>4 DEF StreamTypes, Stream!Stages
  <2>6. ComingFits' /\ TextGiven'
    BY <1>1, <1>2, <1>3, <2>2, <2>3 DEF ComingFits, TextGiven
  <2>7. StagesFit' /\ EndTold' /\ Stream!SentWhole'
    BY <1>1, <1>2, <1>3, <1>5 DEF StagesFit, EndTold, Over, Stream!SentWhole
  <2> QED
    BY <2>5, <2>6, <2>7 DEF StreamInv
<1>6. \/ end = 0 /\ stage' = "hello" /\ UNCHANGED <<input, encrypted>>
      \/ /\ end # 0 /\ input[end].kind = "token"
         /\ input' = extra /\ stage' = (IF extra = <<>> THEN "hello" ELSE "step")
         /\ UNCHANGED encrypted
      \/ /\ end # 0 /\ input[end].kind = "finished"
         /\ encrypted' = extra /\ input' = <<>> /\ stage' = "idle"
  BY DEF Stream!TakeToken
<1> HIDE DEF end, extra
<1> QED
  BY <1>3, <1>4, <1>5, <1>6

LEMMA StreamHandshakeFailsKeeps == StreamInv /\ Stream!HandshakeFails => StreamInv'
<1> SUFFICES ASSUME StreamInv, Stream!HandshakeFails PROVE StreamInv'
  OBVIOUS
<1>1. StreamTypes /\ ComingFits /\ TextGiven /\ StagesFit /\ EndTold /\ Stream!SentWhole
  BY DEF StreamInv
<1>2. /\ stage \in {"hello", "step"} /\ stage' = "failed"
      /\ UNCHANGED <<said, network, sent, records, input, encrypted, decrypted, delivered, result>>
      /\ UNCHANGED <<total, written, wrote, torn>>
  BY DEF Stream!HandshakeFails, Stream!peerVars, Stream!writeVars
<1>3. Stream!Coming' = Stream!Coming
  BY <1>2 DEF Stream!Coming
<1>4. StreamTypes'
  BY <1>1, <1>2 DEF StreamTypes, Stream!Stages
<1>5. ComingFits' /\ TextGiven'
  BY <1>1, <1>2, <1>3 DEF ComingFits, TextGiven
<1>6. StagesFit' /\ EndTold' /\ Stream!SentWhole'
  BY <1>1, <1>2 DEF StagesFit, EndTold, Over, Stream!SentWhole
<1> QED
  BY <1>4, <1>5, <1>6 DEF StreamInv

(* A read answers with the beginning of a text that comes next.             *)
LEMMA GivesKeeps ==
  ASSUME NEW t \in Seq(Nat), delivered \in Seq(Nat), Stream!Gives(t),
         delivered = Stream!Bytes(0, Len(delivered)),
         t = Stream!Bytes(Len(delivered), Len(delivered) + Len(t))
  PROVE  /\ delivered' \in Seq(Nat) /\ decrypted' \in Seq(Nat)
         /\ delivered' = Stream!Bytes(0, Len(delivered'))
         /\ decrypted' = Stream!Bytes(Len(delivered'), Len(delivered') + Len(decrypted'))
         /\ Len(delivered') + Len(decrypted') = Len(delivered) + Len(t)
         /\ stage' = "idle" /\ result' = "data"
<1> DEFINE count == IF Len(t) <= Maximum THEN Len(t) ELSE Maximum
           a == Len(delivered)
           b == Len(delivered) + Len(t)
<1>1. a \in Nat /\ b \in Nat /\ Len(t) \in Nat /\ Maximum \in Nat
  BY LenProperties, HostAssumption
<1>2. count \in Nat /\ a + count <= b /\ a + count \in Nat /\ 0 <= a /\ a <= a + count
  BY <1>1
<1>3. /\ delivered' = delivered \o SubSeq(t, 1, count)
      /\ decrypted' = SubSeq(t, count + 1, Len(t))
      /\ stage' = "idle" /\ result' = "data"
  BY DEF Stream!Gives, Stream!Ends
<1> HIDE DEF count
<1>4. t = Stream!Bytes(a, b)
  OBVIOUS
<1>5. delivered = Stream!Bytes(0, a)
  OBVIOUS
<1> HIDE DEF a, b
<1>6. /\ SubSeq(Stream!Bytes(a, b), 1, count) = Stream!Bytes(a, a + count)
      /\ SubSeq(Stream!Bytes(a, b), count + 1, Len(Stream!Bytes(a, b))) = Stream!Bytes(a + count, b)
  BY <1>1, <1>2, StretchCut
<1>7. delivered' = Stream!Bytes(0, a) \o Stream!Bytes(a, a + count)
  BY <1>3, <1>4, <1>5, <1>6
<1>8. delivered' = Stream!Bytes(0, a + count)
  BY <1>1, <1>2, <1>7, StretchesJoin
<1>9. decrypted' = Stream!Bytes(a + count, b)
  BY <1>3, <1>4, <1>6
<1>10. delivered' \in Seq(Nat) /\ Len(delivered') = (a + count) - 0
  BY <1>1, <1>2, <1>8, StretchFacts
<1>11. decrypted' \in Seq(Nat) /\ Len(decrypted') = b - (a + count)
  BY <1>1, <1>2, <1>9, StretchFacts
<1>12. Len(delivered') = a + count /\ Len(delivered') + Len(decrypted') = b
  BY <1>1, <1>2, <1>10, <1>11
<1> QED
  BY <1>3, <1>8, <1>9, <1>10, <1>11, <1>12 DEF b

LEMMA ReadKeeps == StreamInv /\ Stream!Read => StreamInv'
<1> SUFFICES ASSUME StreamInv, Stream!Read PROVE StreamInv'
  OBVIOUS
<1>1. StreamTypes /\ ComingFits /\ TextGiven /\ StagesFit /\ EndTold /\ Stream!SentWhole
  BY DEF StreamInv
<1>2. /\ stage = "idle"
      /\ UNCHANGED <<said, network, sent, records, input, encrypted, total, written, wrote, torn>>
      /\ IF decrypted # <<>> THEN Stream!Gives(decrypted)
         ELSE stage' = "reading" /\ UNCHANGED <<decrypted, delivered, result>>
  BY DEF Stream!Read, Stream!peerVars, Stream!writeVars
<1>3. Stream!Coming' = Stream!Coming
  BY <1>2 DEF Stream!Coming
<1>4. ComingFits' /\ input = <<>>
  BY <1>1, <1>2, <1>3, ComingIs DEF ComingFits
<1>5. /\ delivered' \in Seq(Nat) /\ decrypted' \in Seq(Nat)
      /\ delivered' = Stream!Bytes(0, Len(delivered'))
      /\ decrypted' = Stream!Bytes(Len(delivered'), Len(delivered') + Len(decrypted'))
      /\ Len(delivered') + Len(decrypted') = Len(delivered) + Len(decrypted)
      /\ \/ stage' = "idle" /\ result' = "data"
         \/ stage' = "reading" /\ decrypted' = <<>> /\ UNCHANGED <<delivered, result>>
  <2>1. CASE decrypted # <<>>
    <3>1. delivered \in Seq(Nat) /\ decrypted \in Seq(Nat) /\ Stream!Gives(decrypted)
      BY <1>1, <1>2, <2>1 DEF StreamTypes
    <3> QED
      BY <1>1, <3>1, GivesKeeps DEF TextGiven
  <2>2. CASE decrypted = <<>>
    BY <1>1, <1>2, <2>2 DEF StreamTypes, TextGiven
  <2> QED
    BY <2>1, <2>2
<1>6. StreamTypes'
  BY <1>1, <1>2, <1>5 DEF StreamTypes, Stream!Stages
<1>7. TextGiven'
  BY <1>1, <1>2, <1>3, <1>5 DEF TextGiven
<1>8. StagesFit' /\ EndTold' /\ Stream!SentWhole'
  BY <1>1, <1>2, <1>4, <1>5 DEF StagesFit, EndTold, Over, Stream!SentWhole
<1> QED
  BY <1>4, <1>6, <1>7, <1>8 DEF StreamInv

LEMMA ReadMoreKeeps == StreamInv /\ Stream!ReadMore => StreamInv'
<1> SUFFICES ASSUME StreamInv, Stream!ReadMore PROVE StreamInv'
  OBVIOUS
<1>1. StreamTypes /\ ComingFits /\ TextGiven /\ StagesFit /\ EndTold /\ Stream!SentWhole
  BY DEF StreamInv
<1>2. /\ stage = "reading"
      /\ UNCHANGED <<said, sent, records, input, decrypted, delivered, total, written, wrote, torn>>
  BY DEF Stream!ReadMore, Stream!writeVars
<1>3. /\ input = <<>> /\ encrypted \in Seq(Cuts) /\ network \in Seq(Cuts)
      /\ Stream!Coming = encrypted \o network /\ decrypted = <<>>
  BY <1>1, <1>2, ComingIs DEF StreamTypes, StagesFit
<1>4. CASE Stream!Receive(encrypted, encrypted') /\ UNCHANGED <<stage, result>>
  <2>1. PICK n \in 1 .. Len(network) :
          /\ encrypted' = encrypted \o SubSeq(network, 1, n)
          /\ network' = SubSeq(network, n + 1, Len(network))
    BY <1>4 DEF Stream!Receive
  <2>2. /\ encrypted' \in Seq(Cuts) /\ network' \in Seq(Cuts)
        /\ encrypted' \o network' = encrypted \o network
    BY <1>3, <2>1, Arrives
  <2>3. Stream!Coming' = Stream!Coming
    <3>1. Stream!Coming' = (<<>> \o encrypted') \o network'
      BY <1>2, <1>3 DEF Stream!Coming
    <3> QED
      BY <1>3, <2>2, <3>1, ConcatEmptySeq
  <2>4. StreamTypes'
    BY <1>1, <1>2, <1>4, <2>2 DEF StreamTypes
  <2>5. ComingFits' /\ TextGiven'
    BY <1>1, <1>2, <2>3 DEF ComingFits, TextGiven
  <2>6. StagesFit' /\ EndTold' /\ Stream!SentWhole'
    BY <1>1, <1>2, <1>3, <1>4 DEF StagesFit, EndTold, Over, Stream!SentWhole
  <2> QED
    BY <2>4, <2>5, <2>6 DEF StreamInv
<1>5. ASSUME UNCHANGED <<network, encrypted>>, stage' = "idle", result' \in {"end", "error"},
             result' = "end" => network = <<>> /\ said = "closed" /\ encrypted = <<>>
      PROVE  StreamInv'
  <2>1. Stream!Coming' = Stream!Coming
    BY <1>2, <1>5 DEF Stream!Coming
  <2>2. StreamTypes'
    BY <1>1, <1>2, <1>5 DEF StreamTypes, Stream!Stages
  <2>3. ComingFits' /\ TextGiven'
    BY <1>1, <1>2, <2>1 DEF ComingFits, TextGiven
  <2>4. StagesFit' /\ Stream!SentWhole'
    BY <1>1, <1>2, <1>3, <1>5 DEF StagesFit, Stream!SentWhole
  <2>5. EndTold'
    <3> SUFFICES ASSUME result' = "end" PROVE Over /\ Len(delivered) = sent
      BY <1>2 DEF EndTold, Over
    <3>1. network = <<>> /\ said = "closed" /\ encrypted = <<>>
      BY <1>5
    <3>2. Stream!Coming = <<>>
      BY <1>3, <3>1, ConcatEmptySeq
    <3>3. Len(delivered) + Len(<<>>) = sent
      BY <1>1, <1>3, <3>2 DEF TextGiven, Onset
    <3>4. Len(<<>>) = 0 /\ Len(delivered) \in Nat
      BY <1>1, LenProperties, EmptySeq DEF StreamTypes
    <3> QED
      BY <3>1, <3>3, <3>4 DEF Over
  <2> QED
    BY <2>2, <2>3, <2>4, <2>5 DEF StreamInv
<1>6. \/ Stream!Receive(encrypted, encrypted') /\ UNCHANGED <<stage, result>>
      \/ /\ network = <<>> /\ said = "closed"
         /\ stage' = "idle" /\ result' = (IF encrypted = <<>> THEN "end" ELSE "error")
         /\ UNCHANGED <<network, encrypted>>
      \/ stage' = "idle" /\ result' = "error" /\ UNCHANGED <<network, encrypted>>
  BY DEF Stream!ReadMore, Stream!Ends
<1> QED
  BY <1>4, <1>5, <1>6

LEMMA DecryptKeeps == StreamInv /\ Stream!Decrypt => StreamInv'
<1> SUFFICES ASSUME StreamInv, Stream!Decrypt PROVE StreamInv'
  OBVIOUS
<1>1. StreamTypes /\ ComingFits /\ TextGiven /\ StagesFit /\ EndTold /\ Stream!SentWhole
  BY DEF StreamInv
<1> DEFINE end == Stream!EndOfRecord(encrypted)
           record == encrypted[end]
           extra == Stream!Extra(encrypted)
<1>2. /\ stage = "reading" /\ end # 0
      /\ UNCHANGED <<said, network, sent, records, input, total, written, wrote, torn>>
  BY DEF Stream!Decrypt, Stream!peerVars, Stream!writeVars
<1>3. /\ input = <<>> /\ encrypted \in Seq(Cuts) /\ network \in Seq(Cuts) /\ sent \in Nat
      /\ Stream!Coming = encrypted \o network /\ decrypted = <<>>
      /\ delivered \in Seq(Nat) /\ Len(delivered) \in Nat
  BY <1>1, <1>2, ComingIs, HostAssumption, LenProperties DEF StreamTypes, StagesFit
<1>4. Chain(encrypted \o network, sent, said)
  BY <1>1, <1>3 DEF ComingFits
<1>5. /\ extra \in Seq(Cuts) /\ Chain(extra \o network, sent, said)
      /\ record.from = Onset(encrypted \o network, sent)
      /\ record.to = Onset(extra \o network, sent)
      /\ record.from \in Nat /\ record.to \in Nat /\ record.from <= record.to
      /\ record.kind # "data" => record.to = record.from
      /\ record.kind = "goodbye" =>
           said \in {"goodbye", "closed"} /\ extra = <<>> /\ network = <<>>
  BY <1>2, <1>3, <1>4, TakeRecord
<1>6. \/ /\ record.kind = "data" /\ encrypted' = extra
         /\ IF record.to > record.from THEN Stream!Gives(Stream!Bytes(record.from, record.to))
            ELSE UNCHANGED <<stage, decrypted, delivered, result>>
      \/ /\ record.kind = "ticket" /\ encrypted' = extra
         /\ stage' = "idle" /\ result' = "error" /\ UNCHANGED <<decrypted, delivered>>
      \/ /\ record.kind = "goodbye" /\ encrypted' = <<>>
         /\ stage' = "idle" /\ result' = "end" /\ UNCHANGED <<decrypted, delivered>>
      \/ /\ stage' = "idle" /\ result' = "error"
         /\ UNCHANGED <<encrypted, decrypted, delivered>>
  BY DEF Stream!Decrypt, Stream!Ends
<1> HIDE DEF end, record, extra
<1>7. Len(delivered) = record.from /\ Len(<<>>) = 0
  <2>1. Len(<<>>) = 0 /\ Len(delivered) + Len(<<>>) = record.from
    BY <1>1, <1>3, <1>5, EmptySeq DEF TextGiven
  <2> QED
    BY <1>3, <2>1
<1>8. /\ delivered \in Seq(Nat) /\ decrypted \in Seq(Nat)
      /\ delivered = Stream!Bytes(0, Len(delivered))
      /\ decrypted = Stream!Bytes(Len(delivered), Len(delivered) + Len(decrypted))
      /\ Len(delivered) + Len(decrypted) = record.from
  BY <1>1, <1>3, <1>7 DEF StreamTypes, TextGiven
<1>9. CASE UNCHANGED <<encrypted, decrypted, delivered>> /\ stage' = "idle" /\ result' = "error"
  <2>1. Stream!Coming' = Stream!Coming
    BY <1>2, <1>9 DEF Stream!Coming
  <2>2. StreamTypes'
    BY <1>1, <1>2, <1>9 DEF StreamTypes, Stream!Stages
  <2>3. ComingFits' /\ TextGiven'
    BY <1>1, <1>2, <1>9, <2>1 DEF ComingFits, TextGiven
  <2>4. StagesFit' /\ EndTold' /\ Stream!SentWhole'
    BY <1>2, <1>3, <1>9, <1>1 DEF StagesFit, EndTold, Stream!SentWhole
  <2> QED
    BY <2>2, <2>3, <2>4 DEF StreamInv
<1>10. ASSUME delivered' \in Seq(Nat), decrypted' \in Seq(Nat),
              delivered' = Stream!Bytes(0, Len(delivered')),
              decrypted' = Stream!Bytes(Len(delivered'), Len(delivered') + Len(decrypted')),
              encrypted' = extra, Len(delivered') + Len(decrypted') = record.to,
              \/ stage' = "idle" /\ result' \in {"data", "error"}
              \/ stage' = "reading" /\ decrypted' = <<>> /\ UNCHANGED result
              \/ /\ stage' = "idle" /\ record.kind = "goodbye" /\ result' = "end"
                 /\ UNCHANGED <<decrypted, delivered>>
       PROVE  StreamInv'
  <2>1. Stream!Coming' = extra \o network
    <3>1. Stream!Coming' = (<<>> \o extra) \o network
      BY <1>2, <1>3, <1>10 DEF Stream!Coming
    <3> QED
      BY <1>5, <3>1, ConcatEmptySeq
  <2>2. StreamTypes'
    BY <1>1, <1>2, <1>5, <1>10 DEF StreamTypes, Stream!Stages
  <2>3. ComingFits' /\ TextGiven'
    BY <1>2, <1>5, <1>10, <2>1 DEF ComingFits, TextGiven
  <2>4. StagesFit' /\ Stream!SentWhole'
    BY <1>1, <1>2, <1>3, <1>10 DEF StagesFit, Stream!SentWhole
  <2>5. EndTold'
    <3>1. CASE stage' = "idle" /\ result' \in {"data", "error"}
      BY <3>1 DEF EndTold
    <3>2. CASE stage' = "reading" /\ decrypted' = <<>> /\ UNCHANGED result
      <4> SUFFICES ASSUME result' = "end" PROVE Over' /\ Len(delivered') = sent'
        BY DEF EndTold
      <4>1. Over /\ Len(delivered) = sent
        BY <1>1, <3>2 DEF EndTold
      <4>2. record.to <= sent
        BY <1>3, <1>5, StartWithin
      <4>3. Len(delivered') + Len(<<>>) = record.to /\ Len(delivered') \in Nat
        BY <1>10, <3>2, LenProperties
      <4> QED
        BY <1>2, <1>3, <1>5, <1>7, <4>1, <4>2, <4>3 DEF Over
    <3>3. CASE /\ stage' = "idle" /\ record.kind = "goodbye" /\ result' = "end"
               /\ UNCHANGED <<decrypted, delivered>>
      <4>1. extra \o network = <<>>
        BY <1>3, <1>5, <3>3, ConcatEmptySeq
      <4>2. record.to = sent /\ record.to = record.from
        BY <1>5, <3>3, <4>1 DEF Onset
      <4> QED
        BY <1>2, <1>5, <1>7, <3>3, <4>2 DEF EndTold, Over
    <3> QED
      BY <1>10, <3>1, <3>2, <3>3
  <2> QED
    BY <2>2, <2>3, <2>4, <2>5 DEF StreamInv
<1>11. CASE /\ record.kind = "data" /\ encrypted' = extra /\ record.to > record.from
             /\ Stream!Gives(Stream!Bytes(record.from, record.to))
  <2> DEFINE t == Stream!Bytes(record.from, record.to)
  <2>1. t \in Seq(Nat) /\ Len(t) = record.to - record.from
    BY <1>5, StretchFacts
  <2>2. /\ t = Stream!Bytes(Len(delivered), Len(delivered) + Len(t))
        /\ Len(delivered) + Len(t) = record.to
    BY <1>5, <1>7, <2>1
  <2>3. Stream!Gives(t)
    BY <1>11
  <2> HIDE DEF t
  <2>4. /\ delivered' \in Seq(Nat) /\ decrypted' \in Seq(Nat)
        /\ delivered' = Stream!Bytes(0, Len(delivered'))
        /\ decrypted' = Stream!Bytes(Len(delivered'), Len(delivered') + Len(decrypted'))
        /\ Len(delivered') + Len(decrypted') = Len(delivered) + Len(t)
        /\ stage' = "idle" /\ result' = "data"
    BY <1>8, <2>1, <2>2, <2>3, GivesKeeps
  <2> QED
    BY <1>10, <1>11, <2>2, <2>4
<1>12. CASE /\ record.kind = "data" /\ encrypted' = extra /\ ~(record.to > record.from)
             /\ UNCHANGED <<stage, decrypted, delivered, result>>
  <2>1. record.to = record.from
    BY <1>5, <1>12
  <2> QED
    BY <1>2, <1>3, <1>8, <1>10, <1>12, <2>1
<1>13. CASE \/ record.kind = "ticket" /\ encrypted' = extra /\ result' = "error"
               /\ stage' = "idle" /\ UNCHANGED <<decrypted, delivered>>
            \/ record.kind = "goodbye" /\ encrypted' = <<>> /\ result' = "end"
               /\ stage' = "idle" /\ UNCHANGED <<decrypted, delivered>>
  <2>1. record.to = record.from /\ encrypted' = extra
    BY <1>5, <1>13
  <2> QED
    BY <1>8, <1>10, <1>13, <2>1
<1> QED
  BY <1>6, <1>9, <1>11, <1>12, <1>13

LEMMA AskSendKeeps == StreamInv /\ Stream!AskSend => StreamInv'
<1> SUFFICES ASSUME StreamInv, Stream!AskSend PROVE StreamInv'
  OBVIOUS
<1>1. StreamTypes /\ ComingFits /\ TextGiven /\ StagesFit /\ EndTold /\ Stream!SentWhole
  BY DEF StreamInv
<1>2. /\ written = total /\ total' \in written + 1 .. MaxBytes
      /\ UNCHANGED <<said, network, sent, records, stage, input, encrypted, decrypted, delivered,
                     result, written, wrote, torn>>
  BY DEF Stream!AskSend, Stream!peerVars
<1>3. Stream!Coming' = Stream!Coming
  BY <1>2 DEF Stream!Coming
<1>4. total' \in 0 .. MaxBytes /\ written' \in 0 .. total'
  BY <1>1, <1>2, HostAssumption DEF StreamTypes
<1>5. StreamTypes'
  BY <1>1, <1>2, <1>4 DEF StreamTypes
<1>6. ComingFits' /\ TextGiven'
  BY <1>1, <1>2, <1>3 DEF ComingFits, TextGiven
<1>7. StagesFit' /\ EndTold' /\ Stream!SentWhole'
  BY <1>1, <1>2 DEF StagesFit, EndTold, Over, Stream!SentWhole
<1> QED
  BY <1>5, <1>6, <1>7 DEF StreamInv

LEMMA WriteKeeps == StreamInv /\ Stream!Write => StreamInv'
<1> SUFFICES ASSUME StreamInv, Stream!Write PROVE StreamInv'
  OBVIOUS
<1>1. StreamTypes /\ ComingFits /\ TextGiven /\ StagesFit /\ EndTold /\ Stream!SentWhole
  BY DEF StreamInv
<1> DEFINE rest == total - written
           chunk == IF rest <= cbMaximumMessage THEN rest ELSE cbMaximumMessage
<1>2. /\ stage = "idle" /\ written < total
      /\ UNCHANGED <<said, network, sent, records, stage, input, encrypted, decrypted, delivered,
                     result>>
      /\ \/ /\ written' = written + chunk
            /\ wrote' = (IF torn THEN wrote ELSE wrote \o Stream!Bytes(written, written + chunk))
            /\ UNCHANGED <<total, torn>>
         \/ total' = written /\ torn' = TRUE /\ UNCHANGED <<written, wrote>>
  BY DEF Stream!Write, Stream!peerVars
<1>3. /\ written \in Nat /\ total \in Nat /\ MaxBytes \in Nat /\ total <= MaxBytes
      /\ chunk \in Nat /\ written + chunk <= total
  BY <1>1, <1>2, HostAssumption DEF StreamTypes
<1> HIDE DEF chunk
<1>4. wrote \in Seq(1 .. MaxBytes) /\ torn \in BOOLEAN
  BY <1>1 DEF StreamTypes
<1>5. /\ wrote' \in Seq(1 .. MaxBytes) /\ torn' \in BOOLEAN
      /\ total' \in 0 .. MaxBytes /\ written' \in 0 .. total' /\ Stream!SentWhole'
  <2>1. CASE /\ written' = written + chunk /\ ~torn
             /\ wrote' = wrote \o Stream!Bytes(written, written + chunk)
             /\ UNCHANGED <<total, torn>>
    <3>1. wrote = Stream!Bytes(0, written)
      BY <1>1, <2>1 DEF Stream!SentWhole
    <3>2. wrote' = Stream!Bytes(0, written + chunk)
      <4>1. 0 \in Nat /\ 0 <= written /\ written + chunk \in Nat /\ written <= written + chunk
        BY <1>3
      <4> QED
        BY <1>3, <2>1, <3>1, <4>1, StretchesJoin
    <3>3. wrote' \in Seq(0 + 1 .. written + chunk)
      BY <1>3, <3>2, StretchFacts
    <3>4. 0 + 1 .. written + chunk \subseteq 1 .. MaxBytes
      BY <1>3
    <3>5. wrote' \in Seq(1 .. MaxBytes)
      BY <3>3, <3>4, Widen
    <3> QED
      BY <1>3, <1>4, <2>1, <3>2, <3>5 DEF Stream!SentWhole
  <2>2. CASE written' = written + chunk /\ torn /\ wrote' = wrote /\ UNCHANGED <<total, torn>>
    <3>1. wrote = Stream!Bytes(0, Len(wrote)) /\ Len(wrote) <= written
      BY <1>1, <2>2 DEF Stream!SentWhole
    <3>2. Len(wrote) \in Nat
      BY <1>4, LenProperties
    <3> QED
      BY <1>3, <1>4, <2>2, <3>1, <3>2 DEF Stream!SentWhole
  <2>3. CASE total' = written /\ torn' = TRUE /\ UNCHANGED <<written, wrote>>
    <3>1. Len(wrote) <= written /\ wrote = Stream!Bytes(0, Len(wrote))
      <4>1. CASE torn
        BY <1>1, <4>1 DEF Stream!SentWhole
      <4>2. CASE ~torn
        <5>1. wrote = Stream!Bytes(0, written)
          BY <1>1, <4>2 DEF Stream!SentWhole
        <5>2. Len(wrote) = written - 0
          BY <1>3, <5>1, StretchFacts
        <5>3. Len(wrote) = written
          BY <1>3, <5>2
        <5> QED
          BY <1>3, <5>1, <5>3
      <4> QED
        BY <4>1, <4>2
    <3> QED
      BY <1>3, <1>4, <2>3, <3>1 DEF Stream!SentWhole
  <2> QED
    BY <1>2, <1>4, <2>1, <2>2, <2>3
<1>6. Stream!Coming' = Stream!Coming
  BY <1>2 DEF Stream!Coming
<1>7. StreamTypes'
  BY <1>1, <1>2, <1>5 DEF StreamTypes
<1>8. ComingFits' /\ TextGiven'
  BY <1>1, <1>2, <1>6 DEF ComingFits, TextGiven
<1>9. StagesFit' /\ EndTold'
  BY <1>1, <1>2 DEF StagesFit, EndTold, Over
<1> QED
  BY <1>5, <1>7, <1>8, <1>9 DEF StreamInv

LEMMA StreamKeeps == StreamInv /\ [Stream!Next]_(Stream!streamVars) => StreamInv'
<1> SUFFICES ASSUME StreamInv, [Stream!Next]_(Stream!streamVars) PROVE StreamInv'
  OBVIOUS
<1>1. CASE UNCHANGED Stream!streamVars
  <2>1. UNCHANGED <<said, network, sent, records, stage, input, encrypted, decrypted, delivered,
                    result, total, written, wrote, torn>>
    BY <1>1 DEF Stream!streamVars
  <2>2. Stream!Coming' = Stream!Coming
    BY <2>1 DEF Stream!Coming
  <2>3. StreamTypes'
    BY <2>1 DEF StreamInv, StreamTypes
  <2>4. ComingFits' /\ TextGiven'
    BY <2>1, <2>2 DEF StreamInv, ComingFits, TextGiven
  <2>5. StagesFit' /\ EndTold' /\ Stream!SentWhole'
    BY <2>1 DEF StreamInv, StagesFit, EndTold, Over, Stream!SentWhole
  <2> QED
    BY <2>3, <2>4, <2>5 DEF StreamInv
<1>2. CASE Stream!PeerSends
  BY <1>2, PeerSendsKeeps
<1>3. CASE Stream!PeerCloses
  BY <1>3, PeerClosesKeeps
<1>4. CASE Stream!ReceiveToken
  BY <1>4, ReceiveTokenKeeps
<1>5. CASE Stream!TakeToken
  BY <1>5, TakeTokenKeeps
<1>6. CASE Stream!HandshakeFails
  BY <1>6, StreamHandshakeFailsKeeps
<1>7. CASE Stream!Read
  BY <1>7, ReadKeeps
<1>8. CASE Stream!ReadMore
  BY <1>8, ReadMoreKeeps
<1>9. CASE Stream!Decrypt
  BY <1>9, DecryptKeeps
<1>10. CASE Stream!AskSend
  BY <1>10, AskSendKeeps
<1>11. CASE Stream!Write
  BY <1>11, WriteKeeps
<1> QED
  BY <1>1, <1>2, <1>3, <1>4, <1>5, <1>6, <1>7, <1>8, <1>9, <1>10, <1>11 DEF Stream!Next

(* The text that was given is a beginning of the peer's text, so its bytes  *)
(* have the types the model declares.                                       *)
LEMMA StreamSafe == StreamInv => Stream!TypeOK /\ StreamIntact
<1> SUFFICES ASSUME StreamInv PROVE Stream!TypeOK /\ StreamIntact
  OBVIOUS
<1>1. StreamTypes /\ ComingFits /\ TextGiven /\ StagesFit /\ EndTold /\ Stream!SentWhole
  BY DEF StreamInv
<1> DEFINE a == Len(delivered)
           b == Len(delivered) + Len(decrypted)
<1>2. /\ delivered \in Seq(Nat) /\ decrypted \in Seq(Nat) /\ sent \in Nat
      /\ Len(delivered) \in Nat /\ Len(decrypted) \in Nat
  BY <1>1, HostAssumption, LenProperties DEF StreamTypes
<1>3. b = Onset(Stream!Coming, sent) /\ Onset(Stream!Coming, sent) \in 0 .. sent
  BY <1>1, <1>2, StartWithin DEF ComingFits, TextGiven
<1>4. a \in Nat /\ b \in Nat /\ 0 <= a /\ a <= b /\ b <= sent
  BY <1>2, <1>3
<1>5. delivered = Stream!Bytes(0, a) /\ decrypted = Stream!Bytes(a, b)
  BY <1>1 DEF TextGiven
<1> HIDE DEF a, b
<1>6. delivered \in Seq(0 + 1 .. a) /\ decrypted \in Seq(a + 1 .. b)
  BY <1>4, <1>5, StretchFacts
<1>7. 0 + 1 .. a \subseteq 1 .. sent /\ a + 1 .. b \subseteq 1 .. sent
  BY <1>2, <1>4
<1>8. delivered \in Seq(1 .. sent) /\ decrypted \in Seq(1 .. sent)
  BY <1>6, <1>7, Widen
<1>9. Stream!TypeOK
  BY <1>1, <1>8 DEF Stream!TypeOK, StreamTypes, Cuts
<1>10. delivered \o decrypted = Stream!Bytes(0, b)
  BY <1>4, <1>5, StretchesJoin
<1>11. Len(delivered \o decrypted) = b
  BY <1>2, ConcatProperties DEF b
<1>12. Stream!NothingLost
  BY <1>1, <1>3, <1>10, <1>11 DEF Stream!NothingLost, ComingFits, Chain, Onset
<1>13. Stream!EndIsTheEnd
  BY <1>1 DEF Stream!EndIsTheEnd, EndTold
<1> QED
  BY <1>1, <1>9, <1>12, <1>13 DEF StreamIntact, NothingLost, EndIsTheEnd, SentWhole

LEMMA StreamInvariance == HostSpec => []StreamInv
<1> QED
  BY StreamSteps, StreamInitial, StreamKeeps, PTL

(* What a TLS session of the Windows build carries arrives whole and in     *)
(* order both ways, however the peer cuts its records and whatever comes    *)
(* with the last token of the handshake.                                    *)
THEOREM StreamIntactAlways == HostSpec => []StreamIntact
<1>1. StreamInv => StreamIntact
  BY StreamSafe
<1> QED
  BY <1>1, StreamInvariance, PTL
=============================================================================
