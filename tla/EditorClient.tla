---------------------------- MODULE EditorClient ----------------------------
(***************************************************************************)
(* The language client of the VS Code extension (extension.js): the two    *)
(* module variables languageServer and languageServerStarting, the server  *)
(* objects they name, and the asynchronous functions that change them.     *)
(*                                                                         *)
(* JavaScript runs one handler at a time, and a handler runs until it      *)
(* awaits: an action is a handler or the part of an async function between *)
(* two awaits.  A settled promise resumes its waiters before the next      *)
(* event is taken (microtasks), which Settled says of the events.  A       *)
(* server process is external: it starts or not, answers or not, dies at   *)
(* any moment, and the close event of its object comes some time after.    *)
(*                                                                         *)
(* Abstracted: texts (a document is its version), diagnostics (a document  *)
(* has some or none), the protocol's messages other than initialize,       *)
(* shutdown, the three document notifications and one kind of request.     *)
(***************************************************************************)
EXTENDS Naturals, FiniteSets

CONSTANTS
    Documents,    \* the V++ documents a user may open
    Restarters,   \* calls of restartLanguageServer that may be in flight together
    Askers,       \* providers that send a request, one at a time each
    MaxServers,   \* bound: server objects made
    MaxVersion,   \* bound: versions of a document
    MaxEvents,    \* bound: crashes, rebuilds, commands and settings changes together
    LateFiles     \* whether an executable may appear after activation

VARIABLES
    languageServer,          \* the server in use, or None
    languageServerStarting,  \* the server the running start makes, or None
    server,                  \* every server object made so far
    restart,                 \* where each call of restartLanguageServer is
    ask,                     \* where each provider's request is
    open,                    \* the version of each document, 0 when closed
    build,                   \* the build of each executable file, 0 when absent
    setting,                 \* vpp.lsp.enabled and vpp.lsp.executable
    watch,                   \* the watched executable, its unseen change, the timer
    active,                  \* the extension is not deactivated
    events                   \* crashes, rebuilds, commands, settings so far (bound)

vars == <<languageServer, languageServerStarting, server, restart, ask,
          open, build, setting, watch, active, events>>

None == 0
Servers == 1..MaxServers
Files == {"workspace", "managed"}
Idle == [at |-> "idle", on |-> None]

Unused == [phase |-> "unused", process |-> "none", child |-> FALSE, file |-> "workspace",
           build |-> 0, told |-> [d \in Documents |-> 0]]

(* languageServerExecutable: the setting, else the checkout's compiler,    *)
(* else the managed VM (also the answer, absent, when there is neither:    *)
(* a vpp on the PATH is not modelled, its start fails).                    *)
LanguageServerExecutable(executable, present) ==
    IF executable # "" THEN executable
    ELSE IF present["workspace"] > 0 THEN "workspace" ELSE "managed"

WatchPath(executable, present) ==
    LET file == LanguageServerExecutable(executable, present)
    IN  IF present[file] > 0 THEN file ELSE ""

(***************************************************************************)
(* Starting.                                                               *)
(***************************************************************************)
Unmade == {s \in Servers : server[s] = Unused}
Least(s) == \A t \in Unmade : s <= t

(* Broken variant: a start that ignores the one under way. *)
MustStartAgain(chosen) == chosen.enabled /\ languageServer = None

MustStart(chosen) ==
    chosen.enabled /\ languageServer = None /\ languageServerStarting = None

(* startLanguageServer up to its first await, with languageServer = None:  *)
(* it joins a running start, or makes a server and spawns its process.     *)
StartLanguageServer(table, chosen, present) ==
    IF MustStart(chosen)
    THEN \E s \in Unmade :
           LET file == LanguageServerExecutable(chosen.executable, present)
           IN  /\ Least(s)
               /\ server' = [table EXCEPT ![s] = [Unused EXCEPT !.phase = "starting",
                                 !.process = "spawning", !.child = TRUE, !.file = file,
                                 !.build = present[file]]]
               /\ languageServerStarting' = s
    ELSE server' = table /\ UNCHANGED languageServerStarting

(* What the started server is told of: the documents open once it is up. *)
DocumentsToOpen(s) == open

(***************************************************************************)
(* A call that awaits the running start is resumed when the start ends,    *)
(* and before the next event.                                              *)
(***************************************************************************)
Resume == [at |-> "resume", on |-> None]

Settled == (\A r \in Restarters : restart[r] # Resume) /\ (\A a \in Askers : ask[a] # Resume)

(* The start has come to an end, one way or the other. *)
StartEnds ==
    /\ languageServerStarting' = None
    /\ restart' = [r \in Restarters |-> IF restart[r].at = "await" THEN Resume ELSE restart[r]]
    /\ ask' = [a \in Askers |-> IF ask[a].at = "await" THEN Resume ELSE ask[a]]

(* dispose kills the process.  The events of an object that is disposed of *)
(* change nothing: its number is free again when the process is gone.      *)
Disposed(s) == IF server[s].process = "alive" THEN [Unused EXCEPT !.process = "leaving"]
               ELSE Unused

(* The catch of startLanguageServer: dispose, and nothing in use. *)
StartFails(s) ==
    /\ server' = [server EXCEPT ![s] = Disposed(s)]
    /\ languageServer' = None
    /\ StartEnds

(***************************************************************************)
(* Stopping and restarting.                                                *)
(***************************************************************************)
StopPending(s) == \E r \in Restarters : restart[r].at \in {"stop", "quit"} /\ restart[r].on = s

(* restartLanguageServer after it has awaited a running start, if any.     *)
RestartBody(r, chosen, present) ==
    IF languageServer # None
    THEN /\ restart' = [restart EXCEPT ![r] = [at |-> "stop", on |-> languageServer]]
         /\ languageServer' = None
         /\ UNCHANGED <<server, languageServerStarting>>
    ELSE /\ restart' = [restart EXCEPT ![r] = Idle]
         /\ StartLanguageServer(server, chosen, present)
         /\ UNCHANGED languageServer

MustAwaitStart == languageServerStarting # None

RestartLanguageServer(chosen, present) ==
    \E r \in Restarters :
        /\ restart[r] = Idle
        /\ IF MustAwaitStart
           THEN /\ restart' = [restart EXCEPT ![r] = [at |-> "await", on |-> None]]
                /\ UNCHANGED <<server, languageServer, languageServerStarting>>
           ELSE RestartBody(r, chosen, present)

(* rejectPending of a server: the requests sent to it come to an end.      *)
Rejected(s) == [a \in Askers |-> IF ask[a] = [at |-> "wait", on |-> s] THEN Idle ELSE ask[a]]

(* stop() is over: after the exit notification or the kill the process     *)
(* leaves, and dispose ends the object.                                    *)
StopReturns(r) ==
    LET s == restart[r].on
    IN  /\ Settled
        /\ restart[r].at \in {"stop", "quit"}
        /\ server[s].process \in {"alive", "exited"}
        /\ restart' = [restart EXCEPT ![r] = Idle]
        /\ IF restart[r].at = "stop"
           THEN StartLanguageServer([server EXCEPT ![s] = Disposed(s)], setting, build)
           ELSE server' = [server EXCEPT ![s] = Disposed(s)] /\ UNCHANGED languageServerStarting
        /\ ask' = Rejected(s)
        /\ UNCHANGED <<languageServer, open, build, setting, watch, active, events>>

Happens == events < MaxEvents /\ events' = events + 1

(***************************************************************************)
(* The life of a server.                                                   *)
(***************************************************************************)
RestartResumes(r) ==
    /\ restart[r] = Resume
    /\ RestartBody(r, setting, build)
    /\ UNCHANGED <<ask, open, build, setting, watch, active, events>>

(* The process is there (or not), the listeners are set, initialize sent. *)
Spawned(s) ==
    /\ Settled
    /\ server[s].process = "spawning" /\ server[s].build > 0
    /\ server' = [server EXCEPT ![s].process = "alive"]
    /\ UNCHANGED <<languageServer, languageServerStarting, restart, ask, open, build, setting,
                   watch, active, events>>

SpawnFails(s) ==
    /\ Settled
    /\ server[s].process = "spawning"
    /\ StartFails(s)
    /\ UNCHANGED <<open, build, setting, watch, active, events>>

InitializeAnswered(s) ==
    /\ Settled
    /\ server[s].phase = "starting" /\ server[s].process = "alive"
    /\ server' = [server EXCEPT ![s].phase = "up", ![s].told = DocumentsToOpen(s)]
    /\ languageServer' = s
    /\ StartEnds
    /\ UNCHANGED <<open, build, setting, watch, active, events>>

InitializeTimesOut(s) ==
    /\ Settled
    /\ server[s].phase = "starting" /\ server[s].process \in {"alive", "exited"}
    /\ StartFails(s)
    /\ UNCHANGED <<open, build, setting, watch, active, events>>

Crashes(s) ==
    /\ server[s].process = "alive" /\ Happens
    /\ server' = [server EXCEPT ![s].process = "exited"]
    /\ UNCHANGED <<languageServer, languageServerStarting, restart, ask, open, build, setting,
                   watch, active>>

Leaves(s) ==
    /\ server[s].process = "leaving"
    /\ server' = [server EXCEPT ![s] = Unused]
    /\ UNCHANGED <<languageServer, languageServerStarting, restart, ask, open, build, setting,
                   watch, active, events>>

AfterClose(s) == IF languageServer = s THEN None ELSE languageServer

(* The close event: every pending request is rejected, then the fields are *)
(* cleared.  A rejected initialize runs the catch of the start; a rejected *)
(* shutdown runs the catch of stop, whose this.child.kill() throws on the  *)
(* null the handler has just stored, so that restart ends without a start  *)
(* and without dispose.                                                    *)
Closes(s) ==
    /\ Settled
    /\ server[s].process = "exited"
    /\ IF server[s].phase = "starting"
       THEN StartFails(s)
       ELSE /\ server' = [server EXCEPT ![s] = Unused]
            /\ languageServer' = AfterClose(s)
            /\ ask' = Rejected(s)
            /\ restart' = [r \in Restarters |->
                   IF restart[r].at \in {"stop", "quit"} /\ restart[r].on = s THEN Idle
                   ELSE restart[r]]
            /\ UNCHANGED languageServerStarting
    /\ UNCHANGED <<open, build, setting, watch, active, events>>

(***************************************************************************)
(* Documents: the three handlers of registerLanguageFeatures.              *)
(***************************************************************************)
Edits(d, version) ==
    /\ Settled /\ active
    /\ open' = [open EXCEPT ![d] = version]
    /\ UNCHANGED <<languageServer, restart, ask, build, setting, watch, active, events>>

(* notify on the server in use; a dead process loses it. *)
Told(d, version) ==
    IF languageServer = None THEN server
    ELSE [server EXCEPT ![languageServer].told[d] = version]

OpenDocument(d) ==
    /\ open[d] = 0
    /\ Edits(d, 1)
    /\ IF languageServer = None
       THEN StartLanguageServer(server, setting, build)
       ELSE server' = Told(d, 1) /\ UNCHANGED languageServerStarting

ChangeDocument(d) ==
    /\ open[d] \in 1..(MaxVersion - 1)
    /\ Edits(d, open[d] + 1)
    /\ server' = Told(d, open[d] + 1)
    /\ UNCHANGED languageServerStarting

CloseDocument(d) ==
    /\ open[d] > 0
    /\ Edits(d, 0)
    /\ server' = Told(d, 0)
    /\ UNCHANGED languageServerStarting

(***************************************************************************)
(* Requests: a provider ensures a server, sends, and awaits the answer.    *)
(***************************************************************************)

Sends(a) == ask' = [ask EXCEPT ![a] = IF languageServer = None THEN Idle
                                      ELSE [at |-> "wait", on |-> languageServer]]

(* ensureLanguageServer; with the server disabled it answers null at once. *)
Asks(a) ==
    /\ Settled /\ active
    /\ ask[a] = Idle
    /\ StartLanguageServer(server, setting, build)
    /\ IF languageServer = None /\ setting.enabled
       THEN ask' = [ask EXCEPT ![a] = [at |-> "await", on |-> None]]
       ELSE Sends(a)
    /\ UNCHANGED <<languageServer, restart, open, build, setting, watch, active, events>>

AskResumes(a) ==
    /\ ask[a] = Resume
    /\ Sends(a)
    /\ UNCHANGED <<languageServer, languageServerStarting, server, restart, open, build, setting,
                   watch, active, events>>

(* An answer, or the timer of the request: the entry goes either way. *)
AskSettles(a) ==
    /\ Settled
    /\ ask[a].at = "wait"
    /\ ask' = [ask EXCEPT ![a] = Idle]
    /\ UNCHANGED <<languageServer, languageServerStarting, server, restart, open, build, setting,
                   watch, active, events>>

(***************************************************************************)
(* The watched executable, the settings, the commands, deactivation.       *)
(***************************************************************************)
Rebuilds(file) ==
    /\ active
    /\ Happens /\ (build[file] = 0 => LateFiles)
    /\ build' = [build EXCEPT ![file] = @ + 1]
    /\ watch' = [watch EXCEPT !.changed = @ \/ watch.path = file]
    /\ UNCHANGED <<languageServer, languageServerStarting, server, restart, ask, open, setting,
                   active>>

(* watchFile sees the new stat: the 300 ms timer starts over. *)
WatchSees ==
    /\ Settled /\ watch.changed
    /\ watch' = [watch EXCEPT !.changed = FALSE, !.timer = TRUE]
    /\ UNCHANGED <<languageServer, languageServerStarting, server, restart, ask, open, build,
                   setting, active, events>>

TimerFires ==
    /\ Settled /\ watch.timer
    /\ watch' = [watch EXCEPT !.timer = FALSE]
    /\ RestartLanguageServer(setting, build)
    /\ UNCHANGED <<ask, open, build, setting, active, events>>

RestartCommand ==
    /\ Settled /\ active
    /\ Happens
    /\ RestartLanguageServer(setting, build)
    /\ UNCHANGED <<ask, open, build, setting, watch, active>>

(* watchLanguageServerExecutable drops the old watch and its timer, then   *)
(* the server is restarted.                                                *)
SettingsChange ==
    /\ Settled /\ active
    /\ Happens
    /\ \E new \in [enabled : BOOLEAN, executable : {"", "managed"}] :
           /\ new # setting
           /\ setting' = new
           /\ watch' = [path |-> WatchPath(new.executable, build), changed |-> FALSE,
                        timer |-> FALSE]
           /\ RestartLanguageServer(new, build)
    /\ UNCHANGED <<ask, open, build, active>>

(* The last step of installVm: the managed VM is replaced and the server   *)
(* restarted; the watch is left as it is.                                  *)
InstallVm ==
    /\ Settled /\ active
    /\ Happens /\ (build["managed"] = 0 => LateFiles)
    /\ build' = [build EXCEPT !["managed"] = @ + 1]
    /\ watch' = [watch EXCEPT !.changed = @ \/ watch.path = "managed"]
    /\ RestartLanguageServer(setting, build')
    /\ UNCHANGED <<ask, open, setting, active>>

Deactivate ==
    /\ Settled /\ active
    /\ active' = FALSE
    /\ watch' = [path |-> "", changed |-> FALSE, timer |-> FALSE]
    /\ IF languageServer = None
       THEN UNCHANGED <<restart, languageServer>>
       ELSE \E r \in Restarters :
                /\ restart[r] = Idle
                /\ restart' = [restart EXCEPT ![r] = [at |-> "quit", on |-> languageServer]]
                /\ languageServer' = None
    /\ UNCHANGED <<languageServerStarting, server, ask, open, build, setting, events>>

(***************************************************************************)
(* activate: no V++ document is open yet, or the first ones are and a      *)
(* start is under way, which OpenDocument leads to.                        *)
(***************************************************************************)
Init ==
    /\ languageServer = None /\ languageServerStarting = None
    /\ server = [s \in Servers |-> Unused]
    /\ restart = [r \in Restarters |-> Idle]
    /\ ask = [a \in Askers |-> Idle]
    /\ open = [d \in Documents |-> 0]
    /\ build = [f \in Files |-> IF f = "workspace" /\ LateFiles THEN 0 ELSE 1]
    /\ setting = [enabled |-> TRUE, executable |-> ""]
    /\ watch = [path |-> WatchPath("", build), changed |-> FALSE, timer |-> FALSE]
    /\ active = TRUE
    /\ events = 0

ServerSteps(s) == \/ Spawned(s) \/ SpawnFails(s) \/ InitializeAnswered(s)
                  \/ InitializeTimesOut(s) \/ Crashes(s) \/ Leaves(s) \/ Closes(s)

Next == \/ \E s \in Servers : ServerSteps(s)
        \/ \E r \in Restarters : RestartResumes(r) \/ StopReturns(r)
        \/ \E a \in Askers : Asks(a) \/ AskResumes(a) \/ AskSettles(a)
        \/ \E d \in Documents : OpenDocument(d) \/ ChangeDocument(d) \/ CloseDocument(d)
        \/ \E file \in Files : Rebuilds(file)
        \/ WatchSees \/ TimerFires \/ RestartCommand \/ SettingsChange \/ InstallVm
        \/ Deactivate

Spec == Init /\ [][Next]_vars

(***************************************************************************)
(* Properties.                                                             *)
(***************************************************************************)

(* Every variable keeps its type. *)
TypeOK ==
    /\ languageServer \in Servers \cup {None}
    /\ languageServerStarting \in Servers \cup {None}
    /\ \A s \in Servers :
           /\ server[s].phase \in {"unused", "starting", "up"}
           /\ server[s].process \in {"none", "spawning", "alive", "leaving", "exited"}
    /\ \A r \in Restarters : restart[r].at \in {"idle", "await", "resume", "stop", "quit"}
    /\ \A a \in Askers : /\ ask[a].at \in {"idle", "await", "resume", "wait"}
                         /\ ask[a].at = "wait" => ask[a].on \in Servers

(* The server in use knows every open document at its present version, and *)
(* no closed one: documents opened, changed and closed while it was        *)
(* starting, or while its predecessor was stopping, included.              *)
InSync ==
    languageServer # None /\ server[languageServer].process = "alive"
        => server[languageServer].told = open

(* send never throws on the server in use, and the running start is not of *)
(* the server in use: a notification, a request or a restart always finds  *)
(* an object that was initialised and has not been disposed.               *)
Addressable ==
    /\ languageServer # None => /\ server[languageServer].phase = "up"
                                /\ server[languageServer].child
    /\ languageServerStarting # None => /\ languageServer = None
                                        /\ server[languageServerStarting].phase = "starting"

(* A server process that runs is in use, being started or being stopped,   *)
(* however starts, restarts and crashes meet.  (A deactivation stops only  *)
(* the server in use: one that starts then comes into use and stays.)      *)
NoOrphan ==
    \A s \in Servers : server[s].process \in {"spawning", "alive"} =>
        \/ s \in {languageServer, languageServerStarting}
        \/ StopPending(s)

(* When no restart is owed (nothing to see, no timer, no call under way),  *)
(* the server in use was made under the settings in force, and runs the    *)
(* build that is on disk of the watched executable.                        *)
AtRest == /\ ~watch.changed /\ ~watch.timer
          /\ \A r \in Restarters : restart[r] = Idle

CurrentAtRest ==
    AtRest /\ active /\ languageServer # None =>
        /\ setting.enabled
        /\ setting.executable # "" => server[languageServer].file = setting.executable
        /\ server[languageServer].file = watch.path
               => server[languageServer].build = build[watch.path]

(* No request waits on a server that is gone: the close event and dispose  *)
(* reject what is pending instead of leaving it to the timers.             *)
NoRequestOnDeadServer ==
    \A a \in Askers : ask[a].at = "wait" => server[ask[a].on].child

(* No call waits for ever: whoever awaits a start awaits one that is under *)
(* way, and the start, the shutdown and the request it all comes down to   *)
(* have a process that can still be spawned, answer, close or time out.    *)
WaitsEnd ==
    /\ \A c \in {restart[r] : r \in Restarters} \cup {ask[a] : a \in Askers} :
           /\ c.at = "await" => languageServerStarting # None
           /\ c.at \in {"stop", "quit"} => server[c.on].process \in {"alive", "exited"}
    /\ languageServerStarting # None =>
           server[languageServerStarting].process \in {"spawning", "alive", "exited"}

(* A restart that comes to its end leaves a server in use or one starting, *)
(* as long as servers are enabled: the call that stopped the old one, and  *)
(* the call that found none in use once the start it awaited was over.     *)
(* The one exception is a process that died while its shutdown was waited  *)
(* for, of which Closes tells.                                             *)
Ends(r) == restart[r].at \in {"stop", "resume"} /\ restart'[r] = Idle

DiedMeanwhile(r) == restart[r].at = "stop" /\ server[restart[r].on].process = "exited"

RestartsServe ==
    [][\A r \in Restarters :
           Ends(r) /\ setting.enabled =>
               \/ languageServer' # None \/ languageServerStarting' # None
               \/ DiedMeanwhile(r)]_vars
=============================================================================
