---------------------------- MODULE ForeignCalls ----------------------------
(***************************************************************************)
(* A foreign function on its way from its declaration to the C function it  *)
(* names: what the compiler accepts, the one table of the modules of a      *)
(* source, which function a capability stands for, how values become       *)
(* arguments of C and its results values, and what a call does to lists,    *)
(* handles and the last error.  Opcodes of the VM reach the same operations  *)
(* without a declaration.  This is the build for Linux with libffi.  A       *)
(* refused call throws; where it changes nothing it is a stuttering step.    *)
(* Handles are modelled closer to the system in MachineResources.           *)
(***************************************************************************)
EXTENDS Integers, FiniteSetsExt, SequencesExt, Functions, TLC

CONSTANTS MaxI32, MaxU32, MaxI64, MaxU64, \* the widths of C, smaller here
          ExactDouble,                    \* 2^53
          LastToken,                      \* INT32_MAX for tokens
          Errors,                         \* the values of errno a call may leave
          Libraries,                      \* what the system can open or holds already
          Granted                         \* the capabilities of the host

VARIABLES source,    \* the modules of the program, the functions each declares
          linked,    \* foreignDescriptorIds of each module compiled so far
          foreignFunctions, \* foreignFunctions_: the descriptors of the program
          tokens,    \* the next token of each family
          handles,   \* the tables of the VM: what a call reads of each entry
          lists,     \* the lists of the program: length, and whether all are bytes
          lastForeignPosixError,
          latest     \* the latest call that was not refused

compiled == <<source, linked, foreignFunctions>>
vars == <<compiled, tokens, handles, lists, lastForeignPosixError, latest>>

Families == {"opaque", "socket"}
NoHandles == [h \in {} |-> "none"]

Init(p) ==
  /\ source = p /\ linked = <<>> /\ foreignFunctions = <<>>
  /\ tokens = [family \in Families |-> 1] /\ handles = NoHandles /\ lists = p.lists
  /\ lastForeignPosixError = 0 /\ latest = [by |-> "none"]

Absent ==
  /\ source = <<>> /\ linked = <<>> /\ foreignFunctions = <<>> /\ tokens = <<>> /\ handles = <<>>
  /\ lists = <<>> /\ lastForeignPosixError = 0 /\ latest = <<>>

-----------------------------------------------------------------------------
(* Declarations.  A parameter has a name, a type and perhaps an extent.     *)

IntegerTypes == {"i32", "u32", "i64", "u64"}
BufferTypes == {"out", "in"}
ForeignAbiType == IntegerTypes \cup BufferTypes \cup
  {"void", "f64", "cstring", "file", "dir", "entry", "status", "dns", "socket"}
MaxBuffer == 65536

NoExtent == [kind |-> "none"]
Bytes(n) == [kind |-> "bytes", bytes |-> n]
LengthOf(name) == [kind |-> "name", name |-> name]

(* The extent of a buffer: a number of bytes, or the value of one parameter. *)
ExtentOf(parameters, i) ==
  LET extent == parameters[i].extent
      named  == {j \in DOMAIN parameters : extent.kind = "name" /\ parameters[j].name = extent.name}
  IN  CASE extent.kind = "bytes" /\ extent.bytes \in 1 .. MaxBuffer ->
             {[parameter |-> i, length |-> 0, fixed |-> extent.bytes]}
        [] extent.kind = "name" /\ Cardinality(named) = 1 ->
             {[parameter |-> i, length |-> j, fixed |-> 0] :
                j \in {j \in named \ {i} : parameters[j].type \in IntegerTypes}}
        [] OTHER -> {}

Accepted(declaration, libraries) ==
  /\ declaration.library \in DOMAIN libraries
  /\ declaration.abi = "c"
  /\ declaration.result \in ForeignAbiType \ BufferTypes
  /\ \A i \in DOMAIN declaration.parameters :
       LET p == declaration.parameters[i] IN
         /\ p.type \in ForeignAbiType \ {"void"}
         /\ IF p.type \in BufferTypes THEN ExtentOf(declaration.parameters, i) # {}
            ELSE p.extent = NoExtent

Descriptor(declaration, libraries) ==
  LET ps == declaration.parameters IN
  [id |-> 0, library |-> libraries[declaration.library], symbol |-> declaration.symbol,
   abi |-> declaration.abi, capability |-> declaration.capability, result |-> declaration.result,
   parameters |-> [i \in DOMAIN ps |-> ps[i].type],
   extents |-> FlattenSeq([i \in DOMAIN ps |->
                 IF ps[i].type \in BufferTypes THEN SetToSeq(ExtentOf(ps, i)) ELSE <<>>])]

(* Mutant: the place among the functions of the module.                     *)
PlacedInModule(k) == k - 1

(* The functions of a module come after those of the modules before it, and  *)
(* its calls name them by their place among all.                            *)
Placed(k) == Len(foreignFunctions) + k - 1

Compile ==
  /\ Len(linked) < Len(source.modules)
  /\ LET module == source.modules[Len(linked) + 1] IN
     /\ \A k \in DOMAIN module : Accepted(module[k], source.libraries)
     /\ foreignFunctions' = foreignFunctions \o [k \in DOMAIN module |->
          [Descriptor(module[k], source.libraries) EXCEPT !.id = Len(foreignFunctions) + k - 1]]
     /\ linked' = Append(linked, [k \in DOMAIN module |-> Placed(k)])
  /\ UNCHANGED <<source, tokens, handles, lists, lastForeignPosixError, latest>>

(* The function that a call in a module runs.                               *)
Linked(m, k) == foreignFunctions[linked[m][k] + 1]
Running == Len(linked) = Len(source.modules)

-----------------------------------------------------------------------------
(* The verifier, and the same checks before a call.                         *)

ExtentsSound(f) ==
  /\ \A k \in DOMAIN f.extents :
       LET extent == f.extents[k] IN
       /\ extent.parameter \in DOMAIN f.parameters
       /\ \A other \in 1 .. k - 1 : f.extents[other].parameter # extent.parameter
       /\ f.parameters[extent.parameter] \in BufferTypes
       /\ IF extent.length = 0 THEN extent.fixed \in 1 .. MaxBuffer
          ELSE extent.fixed = 0 /\ extent.length \in DOMAIN f.parameters
               /\ f.parameters[extent.length] \in IntegerTypes
  /\ \A i \in DOMAIN f.parameters :
       f.parameters[i] \in BufferTypes => \E k \in DOMAIN f.extents : f.extents[k].parameter = i

VerifyForeignDescriptor(f, index) ==
  /\ f.id = index /\ f.library # "" /\ f.symbol # "" /\ f.capability # "" /\ f.abi = "c"
  /\ f.result \in ForeignAbiType \ BufferTypes
  /\ \A i \in DOMAIN f.parameters : f.parameters[i] \in ForeignAbiType \ {"void"}
  /\ f.extents # <<>> => ExtentsSound(f)

-----------------------------------------------------------------------------
(* Capabilities: each stands for functions of one library and signature.    *)

Binding(library, symbols, parameters, result) ==
  [library |-> library, symbols |-> symbols, parameters |-> parameters, result |-> result]
C(symbol, parameters, result) == Binding("system.c", {symbol}, parameters, result)

IdentityContracts ==
  "system.env.read" :> C("getenv", <<"cstring">>, "cstring")
  @@ "system.process.id" :> C("getpid", <<>>, "i32")
  @@ "system.process.parent_id" :> C("getppid", <<>>, "i32")
  @@ "system.user.id" :> C("getuid", <<>>, "u32")
  @@ "system.user.effective_id" :> C("geteuid", <<>>, "u32")
  @@ "system.group.id" :> C("getgid", <<>>, "u32")
  @@ "system.group.effective_id" :> C("getegid", <<>>, "u32")

FileSystemContracts ==
  "system.time.sleep" :> C("usleep", <<"u32">>, "i32")
  @@ "system.fs.mkdir" :> C("mkdir", <<"cstring", "u32">>, "i32")
  @@ "system.fs.remove" :> C("remove", <<"cstring">>, "i32")
  @@ "system.fs.exists" :> C("access", <<"cstring", "i32">>, "i32")
  @@ "system.fs.stat" :> C("stat", <<"cstring", "out">>, "i32")
  @@ "system.fs.lstat" :> C("lstat", <<"cstring", "out">>, "i32")
  @@ "system.fs.dir.open" :> C("opendir", <<"cstring">>, "dir")
  @@ "system.fs.dir.read" :> C("readdir", <<"dir">>, "entry")
  @@ "system.fs.dir.close" :> C("closedir", <<"dir">>, "i32")

StreamContracts ==
  "system.file.seek" :> Binding("system.file", {"seek"}, <<"file", "i64", "i32">>, "i32")
  @@ "system.file.tell" :> Binding("system.file", {"tell"}, <<"file">>, "i64")
  @@ "system.file.flush" :> Binding("system.file", {"flush"}, <<"file">>, "i32")

FileContracts ==
  "system.file.open" :> C("fopen", <<"cstring", "cstring">>, "file")
  @@ "system.file.read" :> C("fread", <<"out", "u64", "u64", "file">>, "u64")
  @@ "system.file.write" :> C("fwrite", <<"in", "u64", "u64", "file">>, "u64")
  @@ "system.file.close" :> C("fclose", <<"file">>, "i32")
  @@ "system.file.error" :> C("ferror", <<"file">>, "i32")

ResolverContracts ==
  "system.net.resolve.open" :> Binding("system.net", {"resolve_open"}, <<"cstring", "cstring", "i32">>, "dns")
  @@ "system.net.resolve.next" :> Binding("system.net", {"resolve_next"}, <<"dns">>, "cstring")
  @@ "system.net.resolve.close" :> Binding("system.net", {"resolve_close"}, <<"dns">>, "i32")

ProcessContracts ==
  LET P(symbol, parameters, result) == Binding("system.process", {symbol}, parameters, result) IN
  "system.process.new" :> P("new", <<"cstring">>, "i32")
  @@ "system.process.arg" :> P("arg", <<"i32", "cstring">>, "i32")
  @@ "system.process.command_line" :> P("command_line", <<"i32", "cstring">>, "i32")
  @@ "system.process.env" :> P("env", <<"i32", "cstring", "cstring">>, "i32")
  @@ "system.process.start" :> P("start", <<"i32">>, "i32")
  @@ "system.process.poll" :> P("poll", <<"i32", "i32">>, "i32")
  @@ "system.process.read" :> P("read", <<"i32", "i32", "out", "u64">>, "i32")
  @@ "system.process.wait" :> P("wait", <<"i32">>, "i32")
  @@ "system.process.error" :> P("error", <<"i32">>, "cstring")
  @@ "system.process.close" :> P("close", <<"i32">>, "i32")

SocketContracts ==
  LET S(symbol, parameters, result) == Binding("system.net", {symbol}, parameters, result) IN
  "system.net.socket.connect" :> S("socket_connect", <<"cstring", "i32", "i32", "i32">>, "socket")
  @@ "system.net.socket.listen" :> S("socket_listen", <<"i32", "i32">>, "socket")
  @@ "system.net.socket.accept" :> S("socket_accept", <<"socket">>, "socket")
  @@ "system.net.socket.timeout" :> S("socket_timeout", <<"socket", "i32">>, "i32")
  @@ "system.net.socket.kind" :> S("socket_kind", <<"socket">>, "i32")
  @@ "system.net.socket.send" :> C("send", <<"socket", "in", "u64", "i32">>, "i64")
  @@ "system.net.socket.recv" :> C("recv", <<"socket", "out", "u64", "i32">>, "i64")
  @@ "system.net.socket.close" :> C("close", <<"socket">>, "i32")

TlsContracts ==
  "system.net.tls.upgrade" :> Binding("system.net", {"tls_upgrade"}, <<"socket", "cstring">>, "socket")
  @@ "system.net.tls.send" :> Binding("system.net", {"tls_send"}, <<"socket", "in", "u64">>, "i64")
  @@ "system.net.tls.recv" :> Binding("system.net", {"tls_recv"}, <<"socket", "out", "u64">>, "i64")

TimeContracts ==
  "system.time.monotonic" :> C("clock_gettime", <<"i32", "out">>, "i32")
  @@ "system.time.realtime" :> C("clock_gettime", <<"i32", "out">>, "i32")
  @@ "system.time.local" :> C("localtime_r", <<"in", "out">>, "status")
  @@ "system.entropy.read" :> C("getentropy", <<"out", "u64">>, "i32")

QueryContracts ==
  "system.ffi.error" :> Binding("system.ffi", {"last_errno", "eintr", "eexist", "enoent"}, <<>>, "i32")
  @@ "system.ffi.layout" :> Binding("system.ffi", {"stat_mode_offset"}, <<>>, "i32")

AllContracts ==
  IdentityContracts @@ FileSystemContracts @@ StreamContracts @@ FileContracts @@ ResolverContracts
    @@ ProcessContracts @@ SocketContracts @@ TlsContracts @@ TimeContracts @@ QueryContracts

(* Refused: a binding of Windows, and names that begin like a process's.     *)
Reserved == {"system.fs.path.kind", "system.process.other"}

(* A capability of the system is bound to its contract; one of the host's    *)
(* own may name any function of integers, numbers and texts.                *)
Bound(f) ==
  IF f.capability \in DOMAIN AllContracts
  THEN LET c == AllContracts[f.capability] IN
       /\ f.library = c.library /\ f.symbol \in c.symbols
       /\ f.parameters = c.parameters /\ f.result = c.result
       /\ f.capability \in DOMAIN StreamContracts => f.extents = <<>>
  ELSE /\ f.library # "system.process" /\ f.capability \notin Reserved
       /\ \A type \in Range(f.parameters) \cup {f.result} : type \in IntegerTypes \cup {"void", "f64", "cstring"}

-----------------------------------------------------------------------------
(* Values of V++ and numbers of C.  A text of decimal digits has a value.    *)

IntValue(n) == [is |-> "int", n |-> n]
Digits(n) == [is |-> "digits", n |-> n]
AbiInteger(n, signed) == [is |-> "abi", n |-> n, signed |-> signed]
FloatValue(n) == [is |-> "float", n |-> n]
Text(text) == [is |-> "text", text |-> text]
ListValue(l) == [is |-> "list", list |-> l]
Null == [is |-> "null"]
WithNul == Text("a NUL inside")

NumbersOf(type) ==
  CASE type = "i32" -> -MaxI32 - 1 .. MaxI32
    [] type = "u32" -> 0 .. MaxU32
    [] type = "i64" -> -MaxI64 - 1 .. MaxI64
    [] type = "u64" -> 0 .. MaxU64
    [] type = "f64" -> -ExactDouble .. ExactDouble

IsInt(v) == v.is = "int"
IntIn(v, numbers) == IsInt(v) /\ v.n \in numbers
IsText(v) == v.is \in {"text", "digits"}
checkedForeignCString(v) == IsText(v) /\ v # WithNul

NumberOf(v, type) == IF v.n \in NumbersOf(type) THEN {v.n} ELSE {}
ffiSigned64(v) == IF v.is \in {"int", "digits", "abi"} THEN NumberOf(v, "i64") ELSE {}
ffiUnsigned64(v) == IF v.is \in {"int", "digits", "abi"} THEN NumberOf(v, "u64") ELSE {}
ffiUnsigned32(v) == {n \in ffiUnsigned64(v) : n <= MaxU32}
toDouble(v) == CASE v.is \in {"int", "float"} -> {v.n}
                 [] v.is = "abi" -> NumberOf(v, "f64")
                 [] OTHER -> {}

Handle(kind, v) == IsInt(v) /\ <<kind, v.n>> \in DOMAIN handles
ListOf(v) == lists[v.list]
IsBuffer(v, longest) == v.is = "list" /\ ListOf(v).length \in 1 .. longest

(* What is handed to the C function for a value, if it can be.              *)
Marshalled(f, type, v) ==
  CASE type = "i32" -> IF IsInt(v) THEN {v.n} ELSE {}
    [] type = "u32" -> ffiUnsigned32(v)
    [] type = "i64" -> ffiSigned64(v)
    [] type = "u64" -> ffiUnsigned64(v)
    [] type = "f64" -> toDouble(v)
    [] type = "cstring" -> IF checkedForeignCString(v) THEN {v} ELSE {}
    [] type \in BufferTypes ->
         IF IsBuffer(v, MaxBuffer) /\ (type = "in" => ListOf(v).bytes) THEN {ListOf(v).length} ELSE {}
    [] type \in {"file", "dir"} -> IF Handle(type, v) THEN {v.n} ELSE {}
    [] type = "socket" ->
         IF /\ Handle("socket", v)
            /\ f.symbol \in {"send", "recv"} =>
                 ~handles[<<"socket", v.n>>].listener /\ ~handles[<<"socket", v.n>>].tls
         THEN {v.n} ELSE {}
    [] OTHER -> {}

(* The length an extent names is the size of the buffer.                    *)
ExtentsHold(f, native) ==
  \A k \in DOMAIN f.extents :
    LET extent == f.extents[k] IN
      native[extent.parameter] = IF extent.length = 0 THEN extent.fixed ELSE native[extent.length]

ClockRealtime == 0
ClockMonotonic == 1

(* What a contract asks of the arguments themselves.                        *)
Admitted(f, native) ==
  CASE f.capability = "system.time.monotonic" -> native = <<ClockMonotonic, 16>>
    [] f.capability = "system.time.realtime" -> native = <<ClockRealtime, 16>>
    [] f.capability = "system.time.local" -> native = <<8, 64>>
    [] f.capability = "system.entropy.read" -> native[1] <= 256 /\ native[2] = native[1]
    [] f.capability = "system.fs.mkdir" -> native[2] = 511
    [] f.capability = "system.fs.exists" -> native[2] = 0
    [] f.capability \in {"system.fs.stat", "system.fs.lstat"} -> native[2] = 256
    [] OTHER -> TRUE

(* And of the lengths of what is moved.                                     *)
TransferAdmitted(f, native) ==
  CASE f.capability \in {"system.file.read", "system.file.write"} ->
         native[2] = 1 /\ native[3] = native[1]
    [] f.capability \in {"system.net.socket.send", "system.net.socket.recv"} ->
         /\ native[3] = native[2] /\ native[4] = 0
         /\ f.symbol = "send" /\ handles[<<"socket", native[1]>>].datagram => native[2] <= 65507
    [] OTHER -> TRUE

-----------------------------------------------------------------------------
(* What every operation does to the tables.                                 *)

Family(kind) == IF kind = "socket" THEN "socket" ELSE "opaque"
Available(kind) == tokens[Family(kind)] <= LastToken
TokenTaken(kind) == tokens' = [tokens EXCEPT ![Family(kind)] = @ + 1]

Answer(v) == latest' = [by |-> "vm", answer |-> v]

Entered(kind, entry) ==
  /\ Available(kind) /\ TokenTaken(kind)
  /\ handles' = (<<kind, tokens[Family(kind)]>> :> entry) @@ handles
Dropped(kind, id) == handles' = Restrict(handles, DOMAIN handles \ {<<kind, id>>})
Changed(kind, id, entry) == handles' = [handles EXCEPT ![<<kind, id>>] = entry]

Opened(kind, entry) ==
  /\ Entered(kind, entry) /\ Answer(IntValue(tokens[Family(kind)]))
  /\ UNCHANGED <<compiled, lists, lastForeignPosixError>>
Closed(kind, id, answer) ==
  /\ Dropped(kind, id) /\ Answer(answer)
  /\ UNCHANGED <<compiled, tokens, lists, lastForeignPosixError>>
Updated(kind, id, entry, answer) ==
  /\ Changed(kind, id, entry) /\ Answer(answer)
  /\ UNCHANGED <<compiled, tokens, lists, lastForeignPosixError>>
Told(answer) == Answer(answer) /\ UNCHANGED <<compiled, tokens, handles, lists, lastForeignPosixError>>

(* The first n elements of a list become bytes, and no others.              *)
Received(l, n) ==
  \E bytes \in IF n = lists[l].length THEN {TRUE} ELSE IF n = 0 THEN {lists[l].bytes}
               ELSE {lists[l].bytes, TRUE} :
    lists' = [lists EXCEPT ![l].bytes = bytes]
Transferred(length) == {0, 1, length}
ReceivedInto(l, n) ==
  /\ Received(l, n) /\ Answer(IntValue(n))
  /\ UNCHANGED <<compiled, tokens, handles, lastForeignPosixError>>

-----------------------------------------------------------------------------
(* Address lists.  Some addresses cannot be written and are passed over.     *)

OpenResolver(a) ==
  /\ checkedForeignCString(a[1]) /\ a[1] # Text("")
  /\ a[2] = Text("") \/ (a[2].is = "digits" /\ a[2].n \in 1 .. 65535)
  /\ IntIn(a[3], 0 .. 1)
  /\ \E addresses \in 1 .. 2 : Opened("dns", [left |-> addresses])

NextAddress(a) ==
  /\ Handle("dns", a[1])
  /\ LET left == handles[<<"dns", a[1].n>>].left IN
     \/ \E fewer \in 0 .. left - 1 : Updated("dns", a[1].n, [left |-> fewer], Text("address"))
     \/ Updated("dns", a[1].n, [left |-> 0], Null)

ResolverOperation(c, a) ==
  \/ c = "system.net.resolve.open" /\ OpenResolver(a)
  \/ c = "system.net.resolve.next" /\ NextAddress(a)
  \/ c = "system.net.resolve.close" /\ Handle("dns", a[1]) /\ Closed("dns", a[1].n, IntValue(1))

-----------------------------------------------------------------------------
(* Child processes: built, started once, read to the ends of both pipes and  *)
(* waited for.                                                              *)

NewProcess(a) ==
  /\ checkedForeignCString(a[1]) /\ a[1] # Text("")
  /\ Opened("process", [started |-> FALSE, running |-> FALSE, pipes |-> {}])

Process(a) == handles[<<"process", a[1].n>>]

BuildProcess(c, a) ==
  /\ ~Process(a).started /\ checkedForeignCString(a[2])
  /\ c = "system.process.env" => checkedForeignCString(a[3]) /\ a[2] \notin {Text(""), Text("a=b")}
  /\ Told(IntValue(1))

StartProcess(a) ==
  /\ ~Process(a).started
  /\ \/ Updated("process", a[1].n, [started |-> TRUE, running |-> TRUE, pipes |-> {1, 2}], IntValue(1))
     \/ Updated("process", a[1].n, [started |-> TRUE, running |-> FALSE, pipes |-> {}], IntValue(0))

PollProcess(a) ==
  /\ Process(a).running /\ IntIn(a[2], 0 .. 5000)
  /\ IF Process(a).pipes = {} THEN Told(IntValue(4))
     ELSE \E ready \in SUBSET Process(a).pipes : Told(IntValue(SumSet(ready)))

ReadProcess(a) ==
  /\ Process(a).running /\ IntIn(a[2], {1, 2})
  /\ IsBuffer(a[3], 4096) /\ ffiUnsigned64(a[4]) = {ListOf(a[3]).length}
  /\ \/ a[2].n \notin Process(a).pipes /\ Told(IntValue(0))
     \/ /\ a[2].n \in Process(a).pipes
        /\ \/ Updated("process", a[1].n, [Process(a) EXCEPT !.pipes = @ \ {a[2].n}], IntValue(0))
           \/ \E n \in Transferred(ListOf(a[3]).length) \ {0} : ReceivedInto(a[3].list, n)

WaitProcess(a) ==
  /\ Process(a).running /\ Process(a).pipes = {}
  /\ Updated("process", a[1].n, [Process(a) EXCEPT !.running = FALSE], IntValue(0))

ProcessOperation(c, a) ==
  \/ c = "system.process.new" /\ NewProcess(a)
  \/ /\ c \in {"system.process.arg", "system.process.env"}
     /\ Handle("process", a[1]) /\ BuildProcess(c, a)
  \/ c = "system.process.start" /\ Handle("process", a[1]) /\ StartProcess(a)
  \/ c = "system.process.poll" /\ Handle("process", a[1]) /\ PollProcess(a)
  \/ c = "system.process.read" /\ Handle("process", a[1]) /\ ReadProcess(a)
  \/ c = "system.process.wait" /\ Handle("process", a[1]) /\ WaitProcess(a)
  \/ c = "system.process.error" /\ Handle("process", a[1]) /\ Told(Text("error"))
  \/ c = "system.process.close" /\ Handle("process", a[1]) /\ Closed("process", a[1].n, IntValue(1))

-----------------------------------------------------------------------------
(* Sockets and the TLS sessions they become.                                *)

Socket(a) == handles[<<"socket", a[1].n>>]
Stream == [datagram |-> FALSE, listener |-> FALSE, tls |-> FALSE]

(* An address is a text for a foreign call and bytes for the opcode.         *)
ConnectSocket(a) ==
  /\ IntIn(a[2], 1 .. 65535) /\ IntIn(a[3], 0 .. 1) /\ IntIn(a[4], 1 .. 300000)
  /\ Opened("socket", [Stream EXCEPT !.datagram = a[3].n = 1])
NumericHost(v) == checkedForeignCString(v) /\ v # Text("")
AddressBytes(v) == v.is = "list" /\ ListOf(v).length \in {4, 16} /\ ListOf(v).bytes

ListenSocket(a) ==
  /\ IntIn(a[1], 1 .. 65535) /\ IntIn(a[2], 1 .. 1024)
  /\ Opened("socket", [Stream EXCEPT !.listener = TRUE])

AcceptSocket(a) == Handle("socket", a[1]) /\ Socket(a).listener /\ Opened("socket", Stream)

TimeoutSocket(a) == Handle("socket", a[1]) /\ IntIn(a[2], 1 .. 300000) /\ Told(IntValue(1))

KindOfSocket(a) ==
  /\ Handle("socket", a[1])
  /\ Told(IntValue(IF Socket(a).tls THEN 2 ELSE IF Socket(a).datagram THEN 1 ELSE 0))

SocketAdapter(c, a) ==
  \/ c = "system.net.socket.connect" /\ NumericHost(a[1]) /\ ConnectSocket(a)
  \/ c = "system.net.socket.listen" /\ ListenSocket(a)
  \/ c = "system.net.socket.accept" /\ AcceptSocket(a)
  \/ c = "system.net.socket.timeout" /\ TimeoutSocket(a)
  \/ c = "system.net.socket.kind" /\ KindOfSocket(a)

(* Bytes through the opcode; a list is filled as far as bytes came.          *)
MachineTransfer(a) ==
  /\ Handle("socket", a[1]) /\ ~Socket(a).listener /\ ~Socket(a).tls
  /\ IsBuffer(a[2], MaxBuffer) /\ a[3] = IntValue(ListOf(a[2]).length) /\ a[4] = IntValue(0)

MachineSocket(c, a) ==
  \/ c = "machine.net.socket.connect" /\ AddressBytes(a[1]) /\ ConnectSocket(a)
  \/ c = "machine.net.socket.listen" /\ ListenSocket(a)
  \/ c = "machine.net.socket.accept" /\ AcceptSocket(a)
  \/ c = "machine.net.socket.timeout" /\ TimeoutSocket(a)
  \/ c = "machine.net.socket.kind" /\ KindOfSocket(a)
  \/ /\ c = "machine.net.socket.send" /\ MachineTransfer(a) /\ ListOf(a[2]).bytes
     /\ Socket(a).datagram => a[3].n <= 65507
     /\ \E n \in Transferred(a[3].n) : Told(IntValue(n))
  \/ /\ c = "machine.net.socket.recv" /\ MachineTransfer(a)
     /\ \E n \in Transferred(a[3].n) : ReceivedInto(a[2].list, n)
  \/ c = "machine.net.socket.close" /\ Handle("socket", a[1]) /\ Closed("socket", a[1].n, IntValue(0))

Upgradable(a) ==
  /\ ~Socket(a).tls /\ ~Socket(a).listener /\ ~Socket(a).datagram
  /\ IsText(a[2]) /\ a[2] \notin {Text(""), WithNul}

(* A handshake that fails has closed the socket, and the call is refused.    *)
UpgradeTls(a) ==
  /\ Upgradable(a)
  /\ \/ Updated("socket", a[1].n, [Socket(a) EXCEPT !.tls = TRUE], IntValue(a[1].n))
     \/ Dropped("socket", a[1].n) /\ UNCHANGED <<compiled, tokens, lists, lastForeignPosixError, latest>>

TlsTransfer(c, a) ==
  /\ Socket(a).tls /\ ~Socket(a).listener /\ ~Socket(a).datagram
  /\ IsBuffer(a[2], MaxBuffer) /\ ffiUnsigned64(a[3]) = {ListOf(a[2]).length}
  /\ \E n \in Transferred(ListOf(a[2]).length) :
       IF c = "system.net.tls.send" THEN ListOf(a[2]).bytes /\ Told(IntValue(n))
       ELSE ReceivedInto(a[2].list, n)

TlsOperation(c, a) ==
  \/ c = "system.net.tls.upgrade" /\ Handle("socket", a[1]) /\ UpgradeTls(a)
  \/ /\ c \in {"system.net.tls.send", "system.net.tls.recv"}
     /\ Handle("socket", a[1]) /\ TlsTransfer(c, a)

(* A foreign close of a session goes to the provider of TLS, not to C.       *)
ClosesSession(c, a) == c = "system.net.socket.close" /\ Handle("socket", a[1]) /\ Socket(a).tls
CloseSession(c, a) == ClosesSession(c, a) /\ Closed("socket", a[1].n, IntValue(0))

-----------------------------------------------------------------------------
(* Calls of C.                                                              *)

CalledC(f, a, native, result, value) ==
  latest' = [by |-> "C", function |-> f.id, given |-> a, native |-> native, result |-> result,
             answer |-> value]

(* The last error of the VM, and what the system calls some errors.          *)
QueryCall(f) ==
  Told(IntValue(CASE f.symbol = "last_errno" -> lastForeignPosixError [] f.symbol = "eintr" -> 4
                  [] f.symbol = "eexist" -> 17 [] f.symbol = "enoent" -> 2 [] OTHER -> 24))

(* fflush, ftello and fseeko of a file of the VM.                            *)
StreamCall(f, a) ==
  /\ Handle("file", a[1])
  /\ f.symbol = "seek" => IntIn(a[3], 0 .. 2) /\ ffiSigned64(a[2]) # {}
  /\ \E result \in IF f.symbol = "tell" THEN {-1, 0, MaxI64} ELSE {-1, 0} :
       Answer(IF f.symbol = "tell" THEN AbiInteger(result, TRUE) ELSE IntValue(result))
  /\ lastForeignPosixError' \in Errors
  /\ UNCHANGED <<compiled, tokens, handles, lists>>

(* What C may answer: bounds of each type, and 0 or 1 for pointers.          *)
Results(type) ==
  CASE type = "i32" -> {-1, 0, MaxI32}
    [] type = "u32" -> {0, MaxI32, MaxI32 + 1, MaxU32}
    [] type = "i64" -> {-1, 0, MaxI64}
    [] type = "u64" -> {0, MaxU64}
    [] type \in {"void", "f64"} -> {0}
    [] OTHER -> {0, 1}

Converted(type, result, token) ==
  CASE type = "i32" -> IntValue(result)
    [] type = "u32" -> IF result > MaxI32 THEN AbiInteger(result, FALSE) ELSE IntValue(result)
    [] type = "i64" -> AbiInteger(result, TRUE)
    [] type = "u64" -> AbiInteger(result, FALSE)
    [] type = "f64" -> FloatValue(result)
    [] type \in {"cstring", "entry"} -> IF result = 0 THEN Null ELSE Text("text")
    [] type \in {"file", "dir"} -> IF result = 0 THEN Null ELSE IntValue(token)
    [] type = "status" -> IntValue(result)
    [] OTHER -> Null

OutputSucceeded(f, result) ==
  CASE f.capability = "system.time.local" -> result # 0
    [] f.capability = "system.net.socket.recv" -> result >= 0
    [] f.capability \in {"system.entropy.read", "system.fs.stat", "system.fs.lstat"} -> result = 0
    [] OTHER -> TRUE

Closing == {"system.file.close", "system.fs.dir.close", "system.net.socket.close"}
Opening(f) == f.capability \in {"system.file.open", "system.fs.dir.open"}

(* The token of a file is taken before its mode is looked at and before the  *)
(* file is opened; a closed handle leaves its table whatever the answer.     *)
TablesAfter(f, native, result) ==
  CASE Opening(f) ->
         /\ Available(f.result) /\ TokenTaken(f.result)
         /\ IF result = 0 THEN UNCHANGED handles
            ELSE handles' = (<<f.result, tokens[Family(f.result)]>> :> [open |-> TRUE]) @@ handles
    [] f.capability \in Closing -> Dropped(f.parameters[1], native[1]) /\ UNCHANGED tokens
    [] OTHER -> UNCHANGED <<tokens, handles>>

ListsAfter(f, a, result) ==
  LET written == {a[i].list : i \in {i \in DOMAIN a : f.parameters[i] = "out"}} IN
  lists' = IF OutputSucceeded(f, result)
           THEN [l \in DOMAIN lists |-> IF l \in written THEN [lists[l] EXCEPT !.bytes = TRUE] ELSE lists[l]]
           ELSE lists

FileMode(a) == a[2] \in {Text("rb"), Text("wb"), Text("ab")}

NativeCall(f, a) ==
  /\ ~ClosesSession(f.capability, a)
  /\ \A i \in DOMAIN a : Marshalled(f, f.parameters[i], a[i]) # {}
  /\ LET native == [i \in DOMAIN a |-> CHOOSE n \in Marshalled(f, f.parameters[i], a[i]) : TRUE] IN
     /\ ExtentsHold(f, native) /\ Admitted(f, native) /\ TransferAdmitted(f, native)
     /\ \/ /\ f.capability = "system.file.open" /\ ~FileMode(a)
           /\ Available("file") /\ TokenTaken("file")
           /\ UNCHANGED <<compiled, handles, lists, lastForeignPosixError, latest>>
        \/ /\ f.capability = "system.file.open" => FileMode(a)
           /\ \E result \in Results(f.result) :
                /\ TablesAfter(f, native, result) /\ ListsAfter(f, a, result)
                /\ CalledC(f, a, native, result,
                           Converted(f.result, result, tokens["opaque"]))
           /\ lastForeignPosixError' \in Errors
           /\ UNCHANGED compiled

(* A call that a module makes, with one of some arguments.                   *)
Permitted(f) ==
  f.capability \in Granted /\ Bound(f) /\ (f.extents # <<>> => ExtentsSound(f))

ForeignCall(f, choices) ==
  /\ Permitted(f)
  /\ \E a \in choices :
       /\ \A i \in DOMAIN a : f.parameters[i] = "cstring" => checkedForeignCString(a[i])
       /\ \/ f.library = "system.process" /\ ProcessOperation(f.capability, a)
          \/ f.capability \in {"system.ffi.error", "system.ffi.layout"} /\ QueryCall(f)
          \/ f.library = "system.file" /\ StreamCall(f, a)
          \/ /\ f.library = "system.net"
             /\ \/ ResolverOperation(f.capability, a) \/ TlsOperation(f.capability, a)
                \/ SocketAdapter(f.capability, a)
          \/ f.library \in Libraries /\ (CloseSession(f.capability, a) \/ NativeCall(f, a))

(* An opcode needs no declaration, but the same capability.                  *)
MachineCall(c, choices) ==
  /\ c \in Granted
  /\ \E a \in choices :
       ProcessOperation(c, a) \/ ResolverOperation(c, a) \/ TlsOperation(c, a) \/ MachineSocket(c, a)

(* Another run of the program in the same VM: numbers of tokens go on.       *)
ResetExecution ==
  /\ Running
  /\ handles' = NoHandles /\ lastForeignPosixError' = 0
  /\ UNCHANGED <<compiled, tokens, lists, latest>>
-----------------------------------------------------------------------------

(* A call of any module runs the function it declares, with the declared     *)
(* types and extents, and the verifier of the VM agrees.                    *)
CallsAsDeclared ==
  \A m \in DOMAIN linked : \A k \in DOMAIN linked[m] :
    /\ [Linked(m, k) EXCEPT !.id = 0] = Descriptor(source.modules[m][k], source.libraries)
    /\ VerifyForeignDescriptor(Linked(m, k), linked[m][k])

Latest == foreignFunctions[latest.function + 1]

(* A number reaches C as it is or not at all, and comes back as it is: an    *)
(* int never holds more than an int can.                                    *)
NumbersKept ==
  latest.by = "C" =>
    /\ \A i \in DOMAIN latest.given :
         LET type == Latest.parameters[i] IN
         type \in IntegerTypes \cup {"f64"} =>
           latest.native[i] = latest.given[i].n /\ latest.native[i] \in NumbersOf(type)
    /\ Latest.result \in IntegerTypes \cup {"f64"} => latest.answer.n = latest.result
    /\ latest.answer.is = "int" => latest.answer.n \in NumbersOf("i32")
    /\ latest.answer.is = "abi" => latest.answer.n \in NumbersOf(IF latest.answer.signed THEN "i64" ELSE "u64")

(* The bytes C touches behind the i-th argument.                            *)
Touched(f, native, i) ==
  CASE f.symbol \in {"fread", "fwrite"} /\ i = 1 -> native[2] * native[3]
    [] f.symbol \in {"send", "recv"} /\ i = 2 -> native[3]
    [] f.symbol = "getentropy" /\ i = 1 -> native[2]
    [] f.symbol = "clock_gettime" /\ i = 2 -> 16
    [] f.symbol \in {"stat", "lstat"} /\ i = 2 -> 144
    [] f.symbol = "localtime_r" -> IF i = 1 THEN 8 ELSE 56
    [] OTHER -> 0

(* Under a capability of the system, C stays inside the buffers of the call. *)
BuffersFit ==
  (latest.by = "C" /\ Latest.capability \in DOMAIN AllContracts) =>
    \A i \in DOMAIN latest.native :
      LET touched == Touched(Latest, latest.native, i) IN
      touched > 0 => Latest.parameters[i] \in BufferTypes /\ touched <= latest.native[i]

(* No number of an opaque table stands in two, none was not given out; only  *)
(* a connected stream carries TLS; and a pipe is open only of a child that   *)
(* runs.                                                                    *)
HandlesSound ==
  \A h \in DOMAIN handles :
    LET kind == h[1] entry == handles[h] IN
    /\ h[2] \in 1 .. LastToken /\ h[2] < tokens[Family(kind)]
    /\ \A other \in DOMAIN handles : Family(other[1]) = Family(kind) /\ other[2] = h[2] => other = h
    /\ kind = "socket" => ~(entry.tls /\ (entry.listener \/ entry.datagram))
    /\ kind = "process" => (entry.running => entry.started) /\ (entry.pipes # {} => entry.running)
=============================================================================
