# A verification of the V++ toolchain

V++ is a programming language with Vietnamese keywords. The repository holds
its compiler (`src/src/frontend`, `src/src/compiler`), the bytecode and its
verifier (`src/src/bytecode`), a virtual machine with a tracing collector and
OS-thread workers (`src/src/runtime`), JIT and ahead-of-time back ends
(`src/src/native`), a package manager (`src/src/core/package_*.cpp`,
`src/src/cli/main.cpp`), a language server with an editor extension, and a
standard library written in V++ (`src/gói`).

This directory models the parts whose correctness depends on orders, failures
and histories, and those where two pieces of code must agree about an unbounded
set of inputs: TLA+ modules, TLC configurations, and proofs checked by TLAPS.
`PROJECT.json` says for every definition which lines it models, lists the runs,
a mutation of the code that breaks each property, the hazards and the theorems.
Paths below are relative to the root of the repository and leave out the leading
`src/` of `PROJECT.json`: `src/runtime/vm.cpp` is the interpreter.

## 1. Inventory

Each component: the state it keeps, its operations, how it meets the others,
what is hard about it, when it is correct, and what of it is modelled.

### Workers (`src/runtime/vm.cpp` 1480-1880, `gói/lõi/đồng thời.vi`)

*State.* `ThreadRuntimeState`: the task registry, the next id, `stopping`, one
mutex. A `WorkerTask` per id: `status`, `cancelRequested`, `joinClaimed`, a
mutex, a condition variable, a `std::thread`.
*Operations.* SPAWN, PARK, STATUS, CANCEL, WAIT with timeouts 0, n and -1; the
body of a worker thread; `shutdownThreadRuntime` from the destructor of the
owning VM. The library builds `tác vụ`, `tác vụ sau`, `chờ tác vụ`,
`hủy tác vụ` on them.
*Interaction.* Every worker has a VM of its own, whose bytecode is shared and
whose values are deep copies; workers may call all the operations on each other.
*Hard.* Several waiters for one task, cancel against park, spawn against
shutdown, a join of an exited thread, a flag stored without the mutex.
*Correct when* a task ends once with one verdict, each thread is joined once and
before the owner is gone, a cancellation that was acknowledged is final, and
neither a cancellation nor a notification is lost.
Modelled: `WorkerRuntime`, whole.

### Heap (`src/runtime/heap.cpp`, `heap.h`, `vm.cpp` around `gcRoots`)

*State.* `shared_ptr` graphs of maps, lists, tuples, instances, closures and
classes; six registries from the *address* of an object to a `weak_ptr`; an
allocation counter and a budget.
*Operations.* factories, `trackValue` of a foreign graph, stores, `collect`
(mark with a worklist, sweep registry by registry, adjust the budget), the
collection without roots in the destructor.
*Interaction.* A module initialiser runs in a child VM on the parent's heap; the
parent's values are roots of the child (`gcInheritedRoots_`).
*Hard.* An address reused while an expired entry for it stands, cycles across
registries, cascades of reference counts in the middle of a sweep, roots of a VM
that is suspended.
*Correct when* a collection frees exactly what cannot be reached, every object
is registered, the trigger never forgets one, and nothing leaks when the VM
goes. Modelled: `RuntimeHeap`, whole.

### Control (`vm.cpp` 2700-3797, statements of `compiler/codegen.cpp`, `bytecode/verifier.cpp`)

*State.* per active function: `pc`, operand stack, `blockStack`, `blockDepth`,
`switchStack`, `tryStack`; the suspended callers; `callStack`,
`callDepthFromRoot`.
*Operations.* the control opcodes: blocks, `chọn`, `thoát`, `bỏ qua`, `thử`,
`ném`, calls, constructors, returns, runtime errors.
*Interaction.* The emitter decides the operands (`blocksToExit`, tries to leave,
jump targets) from the nesting of statements; the machine undoes at run time
what it did; the verifier stands between.
*Hard.* A jump out of several nested constructs at once, an exception that
unwinds several callers, a `chọn` that skips its arms by executing them with
effects off.
*Correct when* at every instruction a function holds exactly the handlers,
switches and blocks that its text opens around that instruction, and when what
the verifier passed never takes control out of the code of its function.
Modelled: the machine on any bytecode, the emitter of statements, the verifier's
rules about targets. Not: operand kinds, pools, the old switch format.

### Registry (`src/core/package_source.cpp`, `package_installer.cpp`)

*State.* three directories per `name@version`: the inner and the outer staging
directory and the published version.
*Operations.* `publishPackageToRegistry` and the `materializePathPackage` inside
it: clear, copy, fingerprint, rename, compare, rename again, clean up.
*Interaction.* A registry is a directory, on a shared disk if one likes; two
processes meet in it with nothing but `rename` between them.
*Hard.* crashes and I/O errors between any two steps, leftovers, two publishers.
*Correct when* a version is written once, whole, and success is reported only
about the bytes that are there. Modelled: `PackageRegistry`, whole.

### Package project (`cli/main.cpp` 1000-1900, `package_cache.cpp`, `package_manifest.cpp`)

*State.* `vpp.json`, `vpp.lock`, the installed trees `gói/<name>`, the cache
`.vpp/cache`. *Operations.* init, add, sync, remove, lock, restore, and the
verification before a build. *Interaction.* Resolution is the solver's; the
sources are trees somebody else edits. *Hard.* Each command is a sequence of
writes, installed and cache first, manifest next, lock last; the two files are
truncated and rewritten in place; a source may change after it was read.
*Correct when* whatever the lock names can be restored without a network and
byte by byte, success means that the project builds, and after one crash one of
the commands brings the project back. Modelled: `PackageProject`, all commands,
with path sources; Git and registry sources differ in how a tree is found.

### Versions, registry reader, solver (`core/semver.cpp`, `package_source.cpp`, `package_solver.cpp`)

Pure functions and one scan of a directory whose order nothing fixes. *Hard.*
numbers longer than any integer, pre-release precedence, range bounds at the
edge of int, diamonds and cycles met in a depth-first walk with an early exit.
*Correct when* parsing and printing are inverse, precedence is a total order,
ranges admit what Semantic Versioning says, the reader takes the highest version
in the range and passes no broken one, and the solver's verdict is that of the
graph. Modelled whole; a
checkout of a Git source is not.

### Imports and linking (`compiler/package_resolver.cpp`, `module_graph.cpp`, `compileRegistry.cpp`)

*State.* during one compilation: the modules met, their surfaces, one registry
of function ids and names, the initialisers in the order they end. *Hard.* which
of two files of a name is taken, modules reached twice, aliases that rename for
everybody. *Correct when* an import names one file whatever lies elsewhere,
cycles are refused, every accepted name is linked to what it means, nothing
private is forwarded, initialisers follow those they need. Modelled; classes of
other modules and the cache of parsed sources are not.

### Module table and verification (`runtime/module.cpp`, `vm.cpp` 500-662)

*State.* a state per module, the variables taken over, two generation counters
that remember what was verified, the programs the JITs have compiled.
*Hard.* a failing initialiser is rolled back and stays failed; a setter that does
not count, a wrap of the counter; a run that ends in an exception with a JIT
active. *Correct when* each initialiser runs at most once, in order, on verified
code, and nothing half done is visible. Modelled: `ModuleInit`, whole. Objects
an initialiser changed on the shared heap are not rolled back, by the code.

### Machine resources (`file_runtime.cpp`, `file_machine.cpp`, `directory_machine.cpp`, `socket_machine.cpp`, `foreign.cpp`, `resource_token.h`)

*State.* per VM, tables from tokens to handles; two token counters of the
process. *Operations.* opening, accepting, handing to TLS, starting, reaping and
closing, `closeAll` of a VM. *Interaction.* tokens are ints and reach any VM.
*Hard.* failures between the system's answer and the insert into the table,
numbers the system gives out again, a close that fails, a connect with a time
limit and signals. *Correct when* every handle and child has one entry and a
token never means two things. Modelled: what changes tables, on POSIX, in
`MachineResources`; the connection attempt call by call in `SocketConnect`.

### Windows sockets and TLS sessions (`runtime/native/vm_native_m3_helpers.cpp`, `gói/mạng/ổ cắm.vi`)

*State.* one table for the process: ids to shared entries, raw or TLS, the next
id, `socketMutex`; per entry a handle, two flags, an `ioMutex`, and for TLS the
bytes received, the bytes decrypted and the Schannel context. *Operations.*
connect over the addresses of a host, listen, accept, send, receive, time limits,
close, the upgrade of a raw entry to TLS; the handshake, `tlsRead`, `tlsWrite`,
the library loop that sends a whole string. *Interaction.* the workers of all
VMs share the table; a call that blocks holds its entry, not the table. *Hard.*
close against upgrade, accept on a copy of a handle, records cut anywhere, what
comes behind the last token of a handshake. *Correct when* each handle has one
owner and an id one connection, and both sides get the text whole, once and in
order. Modelled: `NativeSockets`, `TlsStream`. The Linux and macOS providers in
the same file hand every call to OpenSSL or SecureTransport and are left out.

### Editor client and language server (`extension.js`, `cli/main.cpp` 2073-2850)

*State.* the extension: `languageServer`, `languageServerStarting`, the server
objects, the requests under way, documents, settings, a file watcher with a
timer. The server: documents by URI, the framing buffer. *Hard.* every await is
a place where another handler may run; offsets are bytes on one side, UTF-16
units on the other. *Correct when* the server in use knows what the editor
shows and runs the settings and the build in force, a restart leads to a server,
and nobody waits for a dead one; and every request is answered about the text it was asked about. Modelled:
`EditorClient`, `LanguageService`. Not: snippets, outline, download of a VM.

### JITs (`native/aarch64_jit.cpp`, `x64_jit.cpp`, `vm.cpp` 761-1480)

Two engines that replace stretches of the interpreter. *Hard.* overflow inside
native code, calls near the depth limit, a value that is a text where an int
was expected. *Correct when* they do what the interpreter does. Modelled over
ints and texts in `MachineJit`; encodings, doubles and page protection are not.

### Classes and objects (`compiler/semantic.cpp`, `codegen.cpp`, `vm.cpp` 2500-2690)

*Hard.* visibility is judged twice, by the analysis of a name and by the VM of
the method found; a class may be named before its parent. *Correct when* an
accepted hierarchy exists at run time and an accepted call runs. Modelled in
`ObjectModel`; fields, `Class.m()` calls and imported classes are not.

### Foreign functions (`runtime/foreign.cpp`, declarations in `semantic.cpp`, `codegen.cpp` 1499, `verifier.cpp` 23-103)

*State.* the descriptors of a program, one table for all its modules; the
capabilities of the host; the tables of the VM and the last error. *Operations.*
a declaration becomes a descriptor, a call converts its arguments, checks them
against the contract of the capability and the extents of its buffers, runs an
adapter or the C function, and converts what comes back. The opcodes of machine
resources reach the same adapters. *Hard.* integers of four widths that may come
as ints, decimal texts or 64-bit numbers; a length that is stated three times;
descriptors numbered per module and again when modules are linked; a token used
up by a call that fails. *Correct when* a call runs the function its module
declared, C gets the numbers it was given and stays inside the buffers of the
call, and what comes back is what C answered. Modelled: `ForeignCalls`, the Linux
build with libffi.

### Parser, semantic pass, code generator, interpreter data operations

*Hard.* delimiters, `hoặc`, `bắt lỗi` and the scanner's own stack decide together
where a statement ends; slots of lexical symbols, of globals and function ids
share one numbering; closures share cells. *Correct when* what is written is
what is read back, and a program prints what its tree means. Modelled:
`SyntaxParser`; `ExpressionCompiler`, `CodeEmitter`, `ExpressionMachine` against
`ProgramMeaning`.

### Not modelled

| part | why |
|---|---|
| lexer | a function from unbounded text to tokens; the test-suite is the better tool |
| Windows adapters of the foreign interface | the same contracts over Win32 calls; the sockets and TLS of that build are in `NativeSockets` |
| ahead-of-time compiler, native code generation, object writers | encodings and layouts for a dozen targets |
| clock, sleep, entropy, environment, paths | one system call each |
| native helpers (strings, collections) | functions of their arguments |
| launcher, formatter, dumps, REPL | text in, text out |
| the rest of the standard library | V++ code above the primitives, with tests in V++ |

## 2. Modules

A component's module has its name; `MC…` holds the instance TLC checks, `…Proofs`
the theorems. The smaller components are composed in umbrella modules
(`MCHost`, `MCResolution`, `MCTranslation`): their parts run in
different processes or answer different questions and share nothing, so a
behaviour moves one part and leaves the others in their initial state.

| module | role |
|---|---|
| `TaskLifecycle` | what a task promises: absent, running, one verdict; no thread outlives the owner |
| `WorkerRuntime`, `WorkerRuntimeProofs` | the worker runtime at the granularity of its mutexes, shown to implement `TaskLifecycle` |
| `RuntimeHeap`, `MCRuntimeHeap`, `RuntimeHeapProofs` | the collector, its soundness and completeness |
| `ControlMachine`, `ControlMachineProofs` | the control opcodes on any bytecode, and the control rules of the verifier |
| `StructuredEmitter` | statements to bytecode, as `BytecodeEmitter` emits them |
| `LexicalScope`, `MCControl` | the two composed: what the text opens around each address, against what the machine holds |
| `VersionStore` | what a registry promises about one version: a write-once cell |
| `PackageRegistry`, `MCPackageRegistry`, `PackageRegistryProofs` | publishing, shown to implement it |
| `PackageProject`, `MCPackageProject`, `PackageProjectProofs` | the commands that write a project |
| `SemanticVersions`, `RegistryReader`, `DependencySolver`, `ImportResolution`, `ModuleGraph`, `ModuleLinker` | how names and versions are resolved |
| `ModuleInit`, `ModuleInitProofs` | module initialisation and the verification cache |
| `MachineResources`, `SocketConnect`, `EditorClient` | handles and tokens, one connection attempt, the editor extension |
| `NativeSockets`, `TlsStream`, `NativeProofs` | the shared socket table of the Windows build, one of its TLS sessions |
| `MCHost`, `HostProofs` | these and `ModuleInit` composed, and the theorems about them |
| `LanguageService`, `MachineJit`, `ObjectModel`, `ForeignCalls` | the server, the engines, classes, calls of C; composed in `MCTranslation` |
| `SyntaxParser`, `ExpressionCompiler`, `CodeEmitter`, `ExpressionMachine`, `ProgramMeaning` | from tokens to output |
| `FrontendQuestions`, `MCResolution` | the questions put to these five, and all that becomes of a text before it runs: the eleven modules of the last two rows composed |

### `WorkerRuntime`

Thread 0 owns the VM, thread *t* runs the task with id *t*. One action per
operation, and one per step inside an operation where the code lets go of a
mutex, blocks, or reads what others write without it:

* `LoopTop`, `Compute`, `Finish` are the interpreter loop: the cancellation check
  at its head, an instruction without a thread intrinsic, the end of the code.
* `Spawn`, `SpawnRefused`, `SpawnFails` are the three ends of SPAWN.
* PARK is `ParkBegins` (lock, test of `cancelRequested`), `ParkSleeps`
  (release and sleep in one step, as `wait_for` does), `ParkWakes`,
  `ParkDeadline`, `SpuriousWakeup`. The gap between the first two is real: the
  destructor stores the flag *without* the mutex.
* `Cancel` and `CancelNotifies`; `ReadStatus`; `InvalidCall` for unknown ids.
* WAIT is `TakesSnapshot`, `WaitBegins`, `WaitSleeps`, `WaitEnds`, `Joins`: a
  waiter claims the join under the mutex and joins outside it.
* `Publishes` and `NotifiesAndExits` end a worker.
* `ShutdownBegins` to `ShutdownClears` are `shutdownThreadRuntime`, loop by loop.

`sleepers[t]` is the wait set of the condition variable of task *t*. Values and
function bodies are abstract: a thread may execute any intrinsic on any id up
to `Calls` times.

### `RuntimeHeap`

`slots[a]` are the handles in an object, `up[a]` its class or superclass,
`registry[k][a]` the state of the weak entry for address *a* (none, live,
expired). Map, list, tuple, instance and closure are one kind, "data", as the
code treats them alike; "class" is the other, as it is swept after them.
`Settle` is reference counting: whatever loses its last owner dies in cascade.
`Mark(a)` is one iteration of the worklist and `Sweep` one registry, so that a
collection takes many steps, but no program step falls between them: the
interpreter collects at the top of its loop only, where no C++ local holds an
object. `EnterInitializer` and `LeaveInitializer` model the child VM and the
values the parent keeps.

### `ControlMachine`, `StructuredEmitter`, `LexicalScope`

Values are abstract: the operand stack is a depth, a condition or case label has
any outcome, a native call may throw. The code is real: sequences of
instructions with the operands of the source. Indirect and method calls act on
the control state like `OP_GOI`. The switch format with end address 0, which the
emitter does not produce, is left out, as are the loops the JIT takes over.
`StructuredEmitter` is the statement part of `BytecodeEmitter`, including the
pending jumps of `thoát` and the operand that counts the blocks to leave.
`LexicalScope` computes from the *statements* what is open at every address.

### `PackageRegistry`

A directory is absent or a tree; a tree maps files to the project revision their
bytes come from, `Torn` if a copy was cut short, and so stands for its own
fingerprint. The name of a staging directory is a function of name and version
alone, as in the code, so all processes share the three directories. One action
per file-system call; `IoError` may end any of them, with half of its effect;
`Crash` ends a process anywhere; `remove_all` with an ignored error code may
leave a rest. Left out: hash collisions and newline normalisation of the
fingerprint, the parsing of the manifest and the registry marker (they count
as calls that may fail), other names and versions, what `fsync` would add. A
fingerprint is read in one step; the project does not change during a run.

### `PackageProject`

A tree is a value that stands for its bytes, hence for its fingerprint; `Torn`
is what a removal cut short leaves. `manifest` and `lock` are whole, torn or
absent. A command begins by reading and resolving (`Reached` is the closure of
the dependencies through the manifests of the trees found, `Sound` the solver's
verdict on it, cycles included) and then takes its writes one by one: `pc` names
the loop it is in, `todo` the packages that loop still has to visit, `moving`
the tree it is replacing. A command may throw where the code does (`Fail`), be
killed or meet an I/O error after any step (`Stop`, with half of the effect of a
write); by `User`, sources are edited at any
time (`raced` remembers that one was, while a command ran), and trees are tampered
with, entries of the cache damaged, or the project cloned afresh between
commands. One command runs at a time. Staging directories are private to a step
here; `PackageRegistry` is about them.

### `SemanticVersions` … `ModuleLinker`

Pure algorithms as recursive operators and functions, next to definitions of
what they should compute: texts of versions over a small alphabet with int cut
to 91, graphs of dependencies over three names, disks of three files, an entry
with up to three modules. `RegistryReader` is a state machine (one directory per
step, any order). `ModuleGraph` is the walk and the surfaces the analysis sees,
one step for the whole index; `ModuleLinker` compiles the same modules into one
registry, with one name for each function and one table of aliases for all, and
takes the order in which an unordered map is walked as an input. `Offered` and
`Environment` say what the analysis means by a name; `EveryNameLinked` compares
the two, aliases and re-exports included, and says of a name that is linked to
nothing what took it away (see 5). A location stands for what materialising it
gives.

### `ModuleInit`

`gen` and `verified` are the two generations, modulo `Width`; the ghost
`accepted` remembers at which edit the last accepted verification was. The
setters, the verification in `Begin` or its refusal, the loop over `order` with the child VM of each
initialiser (`at`, `cursor`, `child`), the start and all ends of the program, and
the caches of compiled programs with the flag that is left set by an exception.
The host resets a VM before it runs it again, as the callers in the code do.

### `MachineResources`, `SocketConnect`

`os[h]` and `children[p]` say which resource owns a handle or process number,
`table[vm]` holds the entries, `nextToken` the counters, `issued` (history) the
resource each token was given out for. The system gives the least free handle.
`Register` is the tail of every open: token, insert, and the failure of each;
`FailingInserts` are the kinds whose insert may throw; `CloseKeepsToken` says
that the close of a socket may fail in a way that keeps the entry: interrupted,
where the system is not Linux, or with any other error, which Linux does not
give for a socket that is open.
Refused capabilities change nothing. `SocketConnect` has one action per system
call of `connect`, with a clock, and signals that interrupt any wait.

### `NativeSockets`, `TlsStream`

`kernel[h]` says what an open handle is, `objects[o]` is an entry (handle,
listener or not, stream or not, holder of its `ioMutex`), `openSockets` and
`openTlsSockets` map ids to entries, as the code's maps of `shared_ptr`. What
happens under `socketMutex` is one step; a send, a receive, a connect, an accept
and a handshake are several, and every other thread may come between them. A
caller keeps the id, the entry and the handle it looked up. `MaxAddresses` bounds
the addresses tried for a host.

`TlsStream` cuts what travels into pieces, of which the last lets a record be
decrypted; numbers stand for the bytes of the peer's text, so that order and loss
show. The peer sends tokens, text, session tickets and its goodbye, cut anywhere,
or goes; a read gets any prefix of what has arrived. `Gives` is the part of
`tlsRead` that answers at most `Maximum` bytes and keeps the rest; writes send
records of at most `cbMaximumMessage` bytes and may break off. Cryptography is
Schannel's: a record is decrypted or an error.

### `EditorClient`

JavaScript runs one handler at a time until it awaits: an action is a handler or
the part of an async function between two awaits. `Settled` says that resumed
waiters go before the next event (microtasks). `server[s]` is a server object
(`phase`, the state of its `process`, the file and build it was started from,
the versions of the documents it was `told`); `restart[r]` and `ask[a]` are the
calls under way. Crashes, rebuilds, commands and settings come at any time.
Diagnostics, and an executable that appears after activation where no watcher
was set up, are outside the properties.

### `LanguageService`, `MachineJit`, `ObjectModel`

Well-formed frames only; a byte is its class (ASCII, line feed, lead of 2, 3 or
4, continuation). The engines run the same programs over ints of `IntBits` bits
and texts: regions, branches, leaf functions and call bundles, with the marking
of entry points as conservative as the code's. `ObjectModel` is what the
analysis accepts, what is emitted, and what the VM then does.

### `ForeignCalls`

`Compile` takes the modules of a program one after the other: it accepts each
declaration and appends its descriptors to `foreignFunctions`, as the emitter
does, and `linked` remembers the numbers its calls use. `ForeignCall` is a call
through a descriptor, `MachineCall` an opcode; both end in the same operations.
`AllContracts` lists what a capability of the system stands for; a capability of
the host's own may name any function of integers, numbers and texts. A value is
what the conversions tell apart: an int, a text that is a decimal number, a
64-bit number with its sign, a float, a text with or without a NUL, a list of
which only the length and "all bytes" matter. Widths are constants, with the
order of the real ones. `Marshalled` is the set of numbers handed over, empty
where the code throws. `handles[<<kind, token>>]` holds what a call reads of an
entry; what the entries own in the system is `MachineResources`. C answers
anything its type can hold. `latest` (history) is the last call, what it was
given, what C got and answered, and what the program saw. A refused call changes
nothing, except an opening that has taken its token before it finds the mode
wrong, and a handshake that fails and has closed its socket; `ResetExecution` is
another run in the same VM.

### `SyntaxParser`, `ExpressionCompiler` … `ProgramMeaning`

A token is its lexeme (keywords without accents), an arena a tree. The parser is
the Pratt parser inside the scanner of statements, mutual recursion written
through one operator `Reading`. The compiler is the declarations and captures of
the semantic pass, the lowering, the analysis of what has bytecode, and the
emitter; the machine runs the code; `ProgramMeaning` reads the meaning off the
tree, following `docs/semantics.md`. Programs are generated so that they keep to
what that document fixes (see 5). `&&` and `||` are strict, as in the code.

## 3. Runs

| run | instance | what it shows |
|---|---|---|
| `worker` | owner, 2 workers, 2 intrinsics each, one delayed task, fair | joins are unique and only block on threads that run no V++ code, CANCEL always reaches a parked worker, an acknowledged cancellation is final, `LifecycleSpec`; a waiter is released once its task has a verdict, the destructor returns |
| `runtime_heap` | 3 addresses, 2 allocations to a budget of 1, 4 handles | soundness and completeness of a collection, no object unregistered, none leaked, none that the trigger forgets |
| `control` | all nestings of two statements around every leaf, of three for those that own a stack, called with and without a handler, recursion to depth 2 | `ScopesKept`, throws reach the nearest `bắt lỗi`, breaks leave the nearest construct, callers are frozen, verified code keeps its targets (`TargetsKept`) |
| `registry` | 1 publisher at a time, 2 revisions with different files | whole artifacts only, leftovers never make a run fail, `VersionWrittenOnce` |
| `registry_two` | 2 publishers at once | a published version stays put |
| `project` | packages A and B, A of three revisions of which two need B | every sequence of commands under any two mishaps: what the lock names can be restored, success means it builds, a restore is exact |
| `resolution` | see 2; token lists of length 4 over some words, chains of 3 operators, written trees of two levels, statements one edit away from well-formed ones; four families of programs | versions, registry listings, dependency graphs, imports, linked programs; the parser reads what is written; a program prints what its tree means |
| `host` | 2 modules, generations modulo 3, 5 edits; 2 VMs, 3 handles, 1 process number, tokens to 2; a limit of 6 ticks; 2 threads, 2 handles, 3 entries; 2 bytes in 3 records of at most 2 pieces; 1 document, 2 restarts, 1 request, 3 servers, 2 events | initialisation, ownership of handles, connection attempts, sockets shared by threads, TLS text, the life of the language server |
| `translation` | texts of 4 bytes, 3 frames, sessions of 3 messages; code of 4 instructions on 4-bit ints; hierarchies of 3 classes; foreign programs of one or two modules, tokens to 2 | positions, framing, answers, scopes; the engines agree; classes and calls; foreign calls |
| `worker_lost_wakeup` | owner, 1 worker | violation: finding 1 |
| `control_continue_try` | one program | violation: finding 2 |
| `reexport_order` | the programs of `resolution` without aliases | violation: finding 3 |

*Bounds.* Two workers and the owner are the least that has two waiters for one
task while a third thread ends it or tears it down, and a worker that spawns a
worker; with two intrinsics a thread can claim a join and then be in a second
call. Three addresses allow a cycle over two objects next to one that is reused
in the meantime, and a data object with a class with a superclass; `FewHandles`
stops exploring graphs with more than four edges. In `control` a nesting of depth
two puts every construct directly inside every other, three covers the
constructs with a stack of their own; two true conditions let a loop go round
and be left. `bỏ qua` inside `thử` or `chọn` is excluded from `control`, and only
there (finding 2). Two revisions in which one file disappears and one appears
are what tells a mixture from an artifact; with two publishers one file is
enough, as the property compares whole trees. In `project`, `TwoMishaps` stops
exploring where edits, tamperings and stops together exceed two: two stops tear
both files, an edit and a stop mix revisions, and the theorems of section 4 hold
for any number. In `host`, width 3 is the least in which a counter wraps while
0 stays reserved, tokens run out within four resources, a pipe pair and a socket
fill the three handles so that numbers are reused, `MaxServers` is one more than
the restarts that can be pending. Two threads and two handles let a close meet an
upgrade and a handle be given out again while the other thread keeps a copy of
it, with a third entry for the session that an upgrade makes; one address, as the
library connects to one. Two bytes read one at a time leave a rest; three records
are the last token of the handshake, a text behind it and a goodbye or a ticket. Foreign programs declare the functions of one
subject together, every other function alone, each declaration with one thing
about it changed, and functions of the host's own for each pair of types, which
are called with the values at and beside the bounds of every width; two modules
of up to two functions tell a number of a module from one of the program. Two
tokens of each family suffice for two entries of one table, or one each of two,
and for running out. The registry and the heap need no bound on the
length of a run: their state spaces are finite. Addresses and publishers are
symmetric in runs that check no liveness.

*Deadlock* is checked in `worker`, `control`, `registry`, `registry_two`,
`project` and the violations. The others may stop: a destroyed heap, an answered
question, a host whose parts have used up their bounds.

*Fairness.* `FairSpec` has weak fairness on the steps of every running thread and
of the destructor (the operating system schedules runnable threads), on
deadlines of PARK and on waits with a timeout (clocks go on). It has none on
spurious wakeups. The program decides when a thread ends, which `Calls` bounds.
`ShutdownReturns` allows one way out: a ring of tasks that wait for each other, or
one that waits for itself, without a timeout (`CyclicWait`). WAIT does not look at
the cancellation of the waiter (`vm.cpp:1855`), so the destructor then stays in its
join; the run has such rings in it and shows that nothing else keeps the
destructor. `HostSpec` has weak fairness on the calls of a connection attempt and
strong fairness on the clock, which signals cannot stop.

## 4. Proofs

The theorems hold for every value of the constants that satisfies the named
assumptions of the modules, which TLC evaluates in the runs; where a theorem has
a hypothesis of its own this is said. Eight modules hold proofs.

*Workers* (`WorkerRuntimeProofs`). Any number of tasks and
calls. The safety properties are not inductive. `IInv` adds: which program
counters go with which state of the OS thread and of the status (`LiveInv`); a
sleeper holds no mutex and a thread in PARK sits on its own task (`ParkInv`);
`joinClaimed` names exactly one thread on its way through a join, or the thread
has been joined (`JoinInv`); what the destructor has done to the tasks it no
longer has on its list (`ShutdownInv`). `CancelsAreSeen` and `JoinsAreSafe`
follow. `Implements` maps a task to its verdict, or to absent while its id
is not handed out, and each step to a step of `TaskLifecycle` or a stutter; it is
the property `LifecycleSpec`.

*Heap* (`RuntimeHeapProofs`). Any finite heap and any budgets. `Weak`: an entry is
live exactly for an object that exists. `Marks`: between marking steps the roots
are marked or pending and no marked object refers to one that is neither, the
tri-colour invariant, which at the end of marking makes everything reachable
marked. `Swept`: after the data registry no unreachable data object is left,
whichever order the cascade took. With lemmas that reachability is the least
closed set and that `Settle` keeps what still has an owner, these give
`CollectsExactlyAlways` and `AccountedAlways`. `TriggerSeesGrowthAlways` counts:
an action of the program adds at most as many objects as it adds to the
allocation counter (`GrowsAsCounted`), and when a collection finishes `Weak`
makes the tracked entries the live objects.

*Control* (`ControlMachineProofs`). Any bytecode, verified or not, that calls
functions that exist. The depths recorded in switch and try frames are tied to
the current depths so that no break, return or exception drives one below zero;
the three counts of active calls agree; suspended callers do not change.
`TargetsKeptAlways` is about programs that pass the verifier's rules on jumps,
emitted or not: `AInv` says that every function, running or suspended, is at an
instruction of its own code (a suspended one at its call, hence not past the
end), that its open handlers are addresses of `bắt lỗi` and its open switches end
at a `KET_THUC_CHUYEN` of the same code. The rules look at one instruction at a
time, so the steps that need them are few: opening a `thử` or a `chọn`, skipping an
arm, leaving a `thử`, a branch. All others keep, cut or drop frames, and a call starts
with none. It follows that the checks of targets which the machine repeats at run
time never fail. The old switch format is outside the theorem, as it is outside
the model: `ProgramsAssumption` says that a `chọn` knows its end, which the emitter
fills in (`codegen.cpp` 2157-2215).

*Registry* (`PackageRegistryProofs`). For any number of publishers a version
directory with a file in it is never touched. With one publisher at a time
(`OnePublisher`), any files, revisions, crashes and errors: `IInv` says where the
bytes of the candidate are at each step, that without a swallowed error the
staging directory holds exactly the files copied so far, and which exception can
be under way. From it: published versions are artifacts, failures have a cause
of their own, and `PackageRegistry` implements `VersionStore`. `OnePublisher`
cannot be dropped: two publishers share staging directories (5).

*Project* (`PackageProjectProofs`). Any packages, trees and dependencies, any
number of commands, edits, tamperings and stops. `IInv` ties `pc` to what the
command was asked (`Phases`), says what the loop that runs has left is part of
what it was given and that a restore handles locked trees only (`Targets`), that
what a restore no longer visits is back (`Restored`), that what was verified is
installed, cached and, if nobody edited, still what its source has (`Verified`),
that the resolved graph answers the manifest and is closed (`Planned`), and that
the promises of success hold from the last write on (`Succeeded`).
`OfflineRestorable` is inductive with these because the cache is written before
the lock. `StopsPaid` charges every file left torn to a stop of its own, so that one
stop leaves the manifest or the lock readable. `RestoresExactlyHolds` is the action
property, step by step.

*Initialisation* (`ModuleInitProofs`). Any modules, width above 2 and number of
edits. `Generations`: the two counters agree exactly when nothing was set since
the last accepted verification, and the verified one is never ahead, so that
counting on cannot make them agree and a wrap resets it. `Listed`, `Passed` and
`InChild` place every module before, at or after the cursor.

*Host* (`HostProofs`, `NativeProofs`). A step of `HostSpec` is a step of each
part or a stutter (`ResourceSteps`, `SocketSteps`, `NativeSteps`, `StreamSteps`,
`EditorSteps`), so each part has an invariant of its own.

* Resources, `RInv`: every entry has a number of its own in one table (`Apart`)
  and names exactly the handles and the child it owns (`Owned`); whatever is
  taken from the system is owned by an entry (`Accounted`); tokens given out lie
  below the counter (`TokensBelow`). `HandlesOwnedAlways` has two hypotheses,
  `"stream" ∉ FailingInserts` and `~CloseKeepsToken`. Both are needed and
  neither is guaranteed by the code: without them it leaks or keeps an entry for
  a handle somebody else may get (5). Part of it needs neither:
  `TokensNameOneResourceAlways` holds whatever fails.
* Connection, `SInv`: the clock stands until there is a deadline, a poll never
  waits past it, and what has been done to the descriptor is where the caller
  is. `ConnectsSafely` is the safety part of `ConnectsInTime`.
* Shared sockets, `NInv`: beside `HandlesOwnedOnce` and `Exclusive`, an entry with
  a handle has one id, in the tables and in every call under way (`Agree`); the two
  tables name different ids, and entries that have a handle, and an entry that is
  upgraded is in the raw table only (`TablesRight`); an entry with a handle is
  named, or a close waits for it (`Reached`). `Agree` is what a close during an
  upgrade needs: the upgrade holds the entry, not the table.
  `SocketsSharedAlways` follows.
* TLS session, `StreamInv`: what has arrived and what will is a chain of records,
  each beginning where the one before ended, that goes with what the peer said
  last (`ComingFits`); the text given and kept ends where that chain begins
  (`TextGiven`); only tokens are before the handshake is complete and only text
  after it (`StagesFit`); the end was told only at the end (`EndTold`). The first
  record of a buffer is a least index: `LeastOf` gets it from well-founded
  induction on the naturals, and chains are cut and joined by lemmas about any
  sequences. `StreamIntactAlways` follows.
* Editor, `EInv`: an object is starting exactly if it is the one the running
  start makes, and up exactly if it is in use or being stopped, and only these
  may have a process that answers (`Lives`); a server is stopped by one restart
  and is then not in use (`StoppedOnce`); whoever waits, waits for something
  under way (`Awaited`); unless a restart is still owed, by an unseen change, a
  timer or a waiting call, the server in use and the one being started run the
  settings and the build in force (`UpToDateAtRest`); the server in use was told
  the versions that are open (`ToldAll`). The action part of
  `ServersFollowEditorAlways`, `RestartsServe`, looks at each way a call of
  `restartLanguageServer` ends.
* `TypesOKAlways` joins the five type invariants; `RBounded`, which gives it for
  the resources, does not use ownership and so holds whatever fails.

`Reached` in `PackageProject` is the least closed set, not a recursion, and the
umbrella modules keep recursive operators out of the parts that are proved
about, so that the prover can reason about them.

*Model-checked only.*

| property | why |
|---|---|
| `WaiterReleased`, `ShutdownReturns`, `Returns` (in `ConnectsInTime`) | liveness under fairness: the prover does not treat `ENABLED` |
| `ScopesKept`, `UnwindsToNearest` | about emitted code, and the emitter is recursive over statements |
| `HighestInRange`, `GraphSolved`, `ImportsResolved` | what recursive operators over texts, graphs and programs compute |
| `EditorAnswered`, `EnginesAgree`, `ObjectsBehave`, `SyntaxRight`, `OutputAsWritten` | the same |
| `ForeignCallsRight` | descriptors are folded from declarations, which is induction over data; what it says of handles and numbers is within reach and not proved |

What a recursive definition computes for every input needs induction over data,
whose rules take a formula as a parameter; the installed provers cannot
instantiate them. A least counterexample, a set, can be had (`LeastOf`).

## 5. Findings

Three are runs that end in a violation:

1. `vm.cpp:1534` — the destructor stores `cancelRequested` and notifies without
   the mutex of the task; a worker between its test and its sleep misses both
   and parks until its own deadline, with the destructor in its join.
2. `vm.cpp:3099` — `bỏ qua` out of a `thử` leaves the handler open; a later
   `ném` lands in it.
3. `module_graph.cpp:491` — surfaces are completed in the reverse of the order in
   which modules were entered. That is not an order of dependencies: an entry
   imports 1 and 2, 1 re-exports 3 and 2 re-exports 1; 2 copies the surface of 1
   before 1 has the names of 3. `SurfacesInOrder` says what the order does give.

Others were met while modelling; the runs exclude or allow for them as said.

*Concurrency and failures.*
* `vm.cpp:1814` — CANCEL answers 1 while the worker is past its last check and
  about to publish Done; the library promises the status "cancelled".
* `vm.cpp:3099` — `bỏ qua` out of a `chọn` leaves its frame; the `thoát` of an
  outer `chọn` then fails.
* `package_source.cpp:464` — two publishers share staging directories; both
  report success, for different bytes, one of which is stored nowhere.
* `package_installer.cpp:109` — a staging directory that cannot be removed is
  copied over; an old file is published with the new version.
* `cli/main.cpp:1653` — a package that an in-place package still needs is removed
  although resolution of the rest passed; its only copy goes. A damaged cache
  entry makes every command throw that would refresh it (`package_cache.cpp:81`).
* `foreign.cpp:463` — the insert of a stream that throws leaves its handle open
  (`FailingInserts`); where the system is not Linux an interrupted `close`
  releases the descriptor and keeps the token (`CloseKeepsToken`).
* `vm.cpp:1855` — tasks that wait for each other without a timeout keep the
  destructor, cancelled or not.
* `cli/main.cpp:1155` — a source edited while a command runs is copied and locked
  under the old resolution: the lock may lack what its new bytes need.
* `vm_native_m3_helpers.cpp:1322` — a close that comes during the TLS upgrade of
  its id answers that the connection is closed; the upgraded session then stands
  under the id. `:1070` — accept uses a copy of the handle without a lock; after
  a close it may accept on another listener that was given the number. `:270` —
  the text of a failed address stays set while the next one is tried; a
  connection made then is answered as an error and its entry stays.
* `extension.js:748`, `:792` — a server that dies while `stop()` awaits its shutdown
  answer: the close handler has set `child` to null when the `catch` calls
  `this.child.kill()`, so the restart ends in an exception and starts nothing.
  `INSTALL_EDITOR_HIGHLIGHT.md:56` says that the server is restarted when the
  compiler is built; `RestartsServe` holds with this exception
  (`DiedMeanwhile`). And an extension that is deactivated while a start or a stop
  is pending leaves a server behind.

*Names and versions.*
* A function has one name in the registry, the last alias it was given
  (`compileRegistry.cpp:391`). A re-export is looked up by that name: if the module
  was imported under another alias elsewhere, the forwarded name is linked to
  nothing although the analysis accepts it (against `docs/semantics.md:112-114`;
  `TwoAliases` in `EveryNameLinked`).
* One table of aliases serves the whole compilation (`compileRegistry.cpp:252`):
  two modules that each import a function of one name from different modules are
  refused, though no module sees both (against `docs/semantics.md:110-111`), and a
  function whose name another module exports calls that one when it means itself
  (`:185`). `EveryNameLinked` is about programs without two functions of one name.
* `package_source.cpp:385` — versions that differ in their build part compare
  equal, and the first one listed stays. A lock on 1.0.0 may so be answered with
  1.0.0+a; the fingerprint then fails and the restore with it, though the locked
  version is there (`docs/package-system.md:215-217`).

*Parser.* `trả về 1 2;` is accepted and returns 0 or null (`ir.cpp:92-94`, against
`docs/grammar.bnf:94`); tokens between `)` and `{` of a function header are
ignored; a function without a header list takes its parameters from the first
call of its body; the grammar gives `==` a lower precedence than `<`, the code
the same; a missing `;` glues words to a name; `nếu (x;) {}` passes; the empty
parts of a loop header that `docs/grammar.bnf:73-82` allows are refused (and are
not in `language-reference.md`).

*Meaning.* (1) A name read or stepped before its first assignment becomes a
global and survives the call (`vm.cpp:2686-2760`, against `docs/semantics.md:10`).
(2) A function before a global closure calls it by name and does not find it
(`codegen.cpp:1955-1975`, against `docs/semantics.md:13-14`). (3) A top-level
lambda takes a snapshot of a catch variable (`vm.cpp:1137-1174`, against
`docs/semantics.md:17-18`). (4) `biến x;` executed again after a capture keeps the
old value. (5) An int literal beyond 32 bits in a constant list fails at run
time. The programs of `resolution` avoid these.

*Classes.* Private methods of a base are dispatched virtually although
`semantic.cpp:928-930` says not; overriding compares the total of parameters; a
private constructor is found out at run time only. The static check is stricter
than the machine for protected hooks. The inferred class of a variable is taken at
its word where it should not be: a first value of no known class followed by a
conditional `A()` makes the variable an `A` (`semantic.cpp:1496`), and a call in a
function that runs after a later assignment is judged by the class of before; both
raise errors about valid programs, against `semantic.cpp:1502-1504`.
`AlarmsAreReal` leaves these two out and is about the rest.

*Foreign functions.* The comment at `foreign.cpp:1692-1694` is out of date: values
beyond int32 are handed over as 64-bit numbers, as the documentation says.

## 6. Plan

Done in the order first planned: workers, heap, control, registry, project,
initialisation, resources, resolution, translation, front end, foreign calls; and the proofs
above. What is left, most valuable first:

1. The refinement of the connection attempt and of the resource tables by an
   abstract store of handles, so that callers can rely on that alone.
2. Theorems about `ForeignCalls`: that tokens name one entry and that numbers are
   kept need no fold.
3. Lexer and formatter: that formatting changes no token.
4. Fields and imported classes in `ObjectModel`; operand kinds and pools in the
   verifier's rules.
