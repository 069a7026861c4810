---------------------------------- MODULE Node ---------------------------------
(***************************************************************************)
(* The life of a node's process: what main starts and releases and in      *)
(* which order (node.cpp, MetaChain.cpp), the scheduler's thread           *)
(* (scheduler.cpp), the network's threads as far as they take the locks of *)
(* the two peer lists and end when they are told to (network/              *)
(* NetworkManager.cpp), and the automatic update, which one of these       *)
(* threads runs while the others go on (MetaChain.cpp, doAutoUpdate).      *)
(***************************************************************************)
EXTENDS Integers, FiniteSets

CONSTANTS
    Files,           \* the files of a release
    Exe,             \* the one that is the executable
    Old, New,        \* the version that was installed, the one on the server
    None,
    AutoUpdate,      \* autoupdate/enable
    UpdateOnStart,   \* autoupdate/autoupdate_on_start
    TicksTillUpdate, \* autoupdate/ticks_until_update_triggered
    MaxTicks,        \* bound of the model: messages about newer versions in a process
    MaxStarts        \* bound of the model: processes

ASSUME NodeAssumption ==
    /\ Exe \in Files /\ IsFiniteSet(Files)
    /\ Old # New /\ None \notin {Old, New, "main", "msghand", "in", "out"}
    /\ AutoUpdate \in BOOLEAN /\ UpdateOnStart \in BOOLEAN
    /\ TicksTillUpdate \in Nat /\ MaxTicks \in Nat /\ MaxStarts \in Nat

Lists == {"in", "out"}
Tasks == {"DumpData", "Maintainer"}
Workers == {"net", "opencon"}

VARIABLES
    main,            \* what main does next
    shutdown,        \* sabShutdown
    reboot,          \* sabReboot
    storage,         \* m_pStorageManager points to a storage manager
    network,         \* m_pNetworkManager points to a network manager
    rest,            \* the REST server: "none", "open" or "broken"
    request,         \* a REST request is being answered
    active,          \* m_bActiveNetwork
    interrupted,     \* m_interruptNet and m_abflagInterruptMsgProc
    worker,          \* what net and opencon do
    msghand,         \* what msghand does: the list whose lock it has, the one it wants
    sched,           \* what the scheduler's thread does
    queue,           \* the scheduler's task queue
    ticker,          \* m_usNewerVersionTicker
    update,          \* who runs doAutoUpdate, and what comes next there
    installed,       \* history: doAutoUpdate of this process replaced all files
    version,         \* g_cuint32tVersion
    disk,            \* the executable, its backup, the files in the tmp directory
    starts           \* processes started

threads == <<worker, msghand, sched, queue>>
objects == <<storage, network, rest, request, active, interrupted>>
flags == <<shutdown, reboot, ticker, installed>>
files == <<update, disk>>
vars == <<main, objects, threads, flags, files, version, starts>>

-----------------------------------------------------------------------------
(* Starting and ending *)

NoUpdate == [by |-> None, at |-> "off"]

Init ==
    /\ shutdown = FALSE /\ reboot = FALSE
    /\ storage = FALSE /\ network = FALSE
    /\ rest = "none" /\ request = FALSE
    /\ active = FALSE /\ interrupted = FALSE
    /\ worker = [w \in Workers |-> "none"]
    /\ msghand = [state |-> "none", has |-> None, wants |-> None]
    /\ sched = "none" /\ queue = {}
    /\ ticker = 0 /\ installed = FALSE
    /\ update = NoUpdate
    /\ main = "off"
    /\ version = Old
    /\ disk = [exe |-> Old, backup |-> None, tmp |-> {}]
    /\ starts = 0

\* Nothing of the process is left.
NoProcess ==
    /\ shutdown' = FALSE /\ reboot' = FALSE
    /\ storage' = FALSE /\ network' = FALSE
    /\ rest' = "none" /\ request' = FALSE
    /\ active' = FALSE /\ interrupted' = FALSE
    /\ worker' = [w \in Workers |-> "none"]
    /\ msghand' = [state |-> "none", has |-> None, wants |-> None]
    /\ sched' = "none" /\ queue' = {}
    /\ ticker' = 0 /\ installed' = FALSE
    /\ update' = NoUpdate

\* The process is gone: main returned, or it was terminated.
Gone(how) ==
    /\ main' = how
    /\ NoProcess
    /\ UNCHANGED <<version, disk, starts>>

IsGone == main \in {"off", "exited", "died"}

\* Somebody starts the executable, or spawn does.
Starts ==
    /\ starts < MaxStarts
    /\ starts' = starts + 1
    /\ main' = IF AutoUpdate /\ UpdateOnStart THEN "update" ELSE "storage"
    /\ version' = disk.exe
    /\ UNCHANGED disk
    /\ NoProcess

Start ==
    /\ IsGone
    /\ disk.exe # None
    /\ Starts

\* MetaChain::initialize, from the update on, and then main.
Goes(from, to) == main = from /\ main' = to

UpdateFirst ==
    /\ main = "update"
    /\ UNCHANGED main
    /\ update = NoUpdate
    /\ update' = [by |-> "main", at |-> "ask"]
    /\ UNCHANGED <<objects, threads, flags, disk, version, starts>>

\* The storage manager is there; when its initialization fails, main returns 1.
StorageUp ==
    /\ Goes("storage", "scheduler")
    /\ storage' = TRUE
    /\ UNCHANGED <<network, rest, request, active, interrupted, threads, flags, files,
                   version, starts>>
StorageFails == main = "storage" /\ Gone("exited")

SchedulerUp ==
    /\ Goes("scheduler", "network")
    /\ sched' = "idle"
    /\ UNCHANGED <<objects, worker, msghand, queue, flags, files, version, starts>>

\* startThreads. The two tasks are scheduled last.
StartThreads ==
    /\ Goes("network", "activate")
    /\ network' = TRUE
    /\ worker' = [w \in Workers |-> "loop"]
    /\ msghand' = [msghand EXCEPT !.state = "loop"]
    /\ queue' = Tasks
    /\ UNCHANGED <<storage, rest, request, active, interrupted, sched, flags, files,
                   version, starts>>

\* The listening socket cannot be bound: main returns while the scheduler's thread
\* waits for its queue (the destructor's assertion, or its mutex gone).
NetworkFails == main = "network" /\ \E how \in {"exited", "died"} : Gone(how)

Activate ==
    /\ Goes("activate", "rest")
    /\ active' = TRUE
    /\ UNCHANGED <<storage, network, rest, request, interrupted, threads, flags, files,
                   version, starts>>

\* The result of restManager::init is not looked at; opening the socket may throw.
RestUp ==
    /\ Goes("rest", "wait")
    /\ rest' \in {"open", "broken", "none"}
    /\ UNCHANGED <<storage, network, request, active, interrupted, threads, flags, files,
                   version, starts>>
RestThrows == main = "rest" /\ Gone("died")

\* SIGINT, at any time: the catcher only sets the flag.
Signal ==
    /\ ~IsGone /\ ~shutdown
    /\ shutdown' = TRUE
    /\ UNCHANGED <<main, objects, threads, reboot, ticker, installed, files, version, starts>>

\* WaitForShutdown sees the flag and interrupts the scheduler's thread, then joins it.
SeeShutdown ==
    /\ shutdown
    /\ Goes("wait", "join")
    /\ UNCHANGED <<objects, threads, flags, files, version, starts>>

Joined ==
    /\ sched = "ended"
    /\ Goes("join", "release")
    /\ UNCHANGED <<objects, threads, flags, files, version, starts>>

\* MetaChain::shutdown: storage first, then the network, then the REST server.
ReleaseStorage ==
    /\ Goes("release", "interrupt")
    /\ storage' = FALSE
    /\ UNCHANGED <<network, rest, request, active, interrupted, threads, flags, files,
                   version, starts>>

InterruptNetwork ==
    /\ Goes("interrupt", "stop")
    /\ interrupted' = TRUE
    /\ UNCHANGED <<storage, network, rest, request, active, threads, flags, files,
                   version, starts>>

\* Mutant: Stop does not wait for msghand.
WorkersEnded == \A w \in Workers : worker[w] = "ended"
\* NetworkManager::Stop joins all three.
ThreadsEnded == msghand.state = "ended" /\ \A w \in Workers : worker[w] = "ended"

\* The destructor writes the lists a last time and is done with them.
ReleaseNetwork ==
    /\ ThreadsEnded
    /\ Goes("stop", "closing")
    /\ network' = FALSE
    /\ UNCHANGED <<storage, rest, request, active, interrupted, threads, flags, files,
                   version, starts>>

\* The REST server waits for its requests; one whose init failed has no socket.
ReleaseRest ==
    /\ main = "closing"
    /\ \/ /\ rest \in {"none", "open"} /\ ~request
          /\ main' = "return"
          /\ rest' = "none"
          /\ UNCHANGED <<storage, network, request, active, interrupted, threads, flags,
                         files, version, starts>>
       \/ rest = "broken" /\ Gone("died")

\* main returns, but for a reboot, which starts the executable as it is now.
Return ==
    /\ main = "return"
    /\ \/ ~reboot /\ Gone("exited")
       \/ reboot /\ disk.exe = None /\ Gone("died")
       \/ reboot /\ disk.exe # None /\ Starts

-----------------------------------------------------------------------------
(* The threads *)

\* The lock of a list is held by msghand for a pass, by DumpData, or by nobody for
\* longer than a step.
Holders(l) ==
    {t \in {"msghand", "scheduler"} :
        \/ t = "msghand" /\ msghand.has = l
        \/ t = "scheduler" /\ l = "out" /\ sched = "DumpData2"}
Free(l) == Holders(l) = {}

\* net and opencon go round after round and need one lock at a time, which they give
\* back before they wait for anything else: their rounds are steps without effect here.
\* Each ends when it sees the interrupt, opencon also when it sees no active network.
WorkerEnds(w) ==
    /\ worker[w] = "loop"
    /\ interrupted \/ (w = "opencon" /\ ~active)
    /\ worker' = [worker EXCEPT ![w] = "ended"]
    /\ UNCHANGED <<main, objects, msghand, sched, queue, flags, files, version, starts>>

\* msghand: a pass over a list, in which it may handle a request for the peer list,
\* or one that tells of new peers, and then needs the other list's lock as well.
MsgBegin(l) ==
    /\ msghand.state = "loop"
    /\ ~interrupted
    /\ Free(l)
    /\ msghand' = [msghand EXCEPT !.state = "pass", !.has = l]
    /\ UNCHANGED <<main, objects, worker, sched, queue, flags, files, version, starts>>

OtherList(l) == CHOOSE k \in Lists : k # l

MsgWantsBoth ==
    /\ msghand.state = "pass"
    /\ msghand.wants = None
    /\ msghand' = [msghand EXCEPT !.wants = OtherList(msghand.has)]
    /\ UNCHANGED <<main, objects, worker, sched, queue, flags, files, version, starts>>

MsgGetsBoth ==
    /\ msghand.wants # None
    /\ Free(msghand.wants)
    /\ msghand' = [msghand EXCEPT !.wants = None]
    /\ UNCHANGED <<main, objects, worker, sched, queue, flags, files, version, starts>>

\* A peer's version is newer: incrementNewerVersionTicker.
MsgNewer ==
    /\ msghand.state = "pass"
    /\ msghand.wants = None
    /\ ticker < MaxTicks
    /\ ticker' = ticker + 1
    /\ IF ticker' < TicksTillUpdate THEN UNCHANGED <<msghand, update, shutdown>>
       ELSE IF AutoUpdate
       THEN /\ msghand' = [msghand EXCEPT !.state = "update"]
            /\ update' = [by |-> "msghand", at |-> "ask"]
            /\ UNCHANGED shutdown
       ELSE /\ shutdown' = TRUE
            /\ UNCHANGED <<msghand, update>>
    /\ UNCHANGED <<main, objects, worker, sched, queue, reboot, installed, disk,
                   version, starts>>

MsgEnd ==
    /\ msghand.state = "pass"
    /\ msghand.wants = None
    /\ msghand' = [msghand EXCEPT !.state = "loop", !.has = None]
    /\ UNCHANGED <<main, objects, worker, sched, queue, flags, files, version, starts>>

MsgReturns ==
    /\ msghand.state = "loop"
    /\ interrupted
    /\ msghand' = [msghand EXCEPT !.state = "ended"]
    /\ UNCHANGED <<main, objects, worker, sched, queue, flags, files, version, starts>>

\* Mutant: the thread is joined without being interrupted, and ends with its queue.
Drained == main = "join" /\ queue = {}
\* interrupt_all was called: the wait for the next task throws.
SchedInterrupted == main = "join"

\* serviceQueue takes a task that is due, and Repeat runs it.
RunTask(t) ==
    /\ sched = "idle"
    /\ t \in queue
    /\ ~SchedInterrupted
    /\ sched' = t
    /\ queue' = queue \ {t}
    /\ UNCHANGED <<main, objects, worker, msghand, flags, files, version, starts>>

\* Mutant: the task is not scheduled again.
Forgotten(t) == queue
\* Repeat schedules the task again when it has run.
Rescheduled(t) == queue \cup {t}

TaskEnds(t) ==
    /\ sched' = "idle"
    /\ queue' = Rescheduled(t)
    /\ UNCHANGED <<main, objects, worker, msghand, flags, files, version, starts>>

\* Maintainer needs the outbound list at its end; DumpData holds it for the inbound.
MaintainerEnds == sched = "Maintainer" /\ Free("out") /\ TaskEnds("Maintainer")

DumpHoldsOut ==
    /\ sched = "DumpData"
    /\ Free("out")
    /\ sched' = "DumpData2"
    /\ UNCHANGED <<main, objects, worker, msghand, queue, flags, files, version, starts>>

DumpEnds == sched = "DumpData2" /\ Free("in") /\ TaskEnds("DumpData")

SchedEnds ==
    /\ sched = "idle"
    /\ SchedInterrupted
    /\ sched' = "ended"
    /\ UNCHANGED <<main, objects, worker, msghand, queue, flags, files, version, starts>>

\* A thread of the HTTP library answers a request with the storage manager's data.
RequestBegins ==
    /\ rest = "open" /\ ~request
    /\ main # "closing"
    /\ request' = TRUE
    /\ UNCHANGED <<main, storage, network, rest, active, interrupted, threads, flags,
                   files, version, starts>>

\* If the storage manager is gone, the pointer is null or dangling.
RequestEnds ==
    /\ request
    /\ \/ /\ request' = FALSE
          /\ UNCHANGED <<main, storage, network, rest, active, interrupted, threads, flags,
                         files, version, starts>>
       \/ ~storage /\ Gone("died")

-----------------------------------------------------------------------------
(* doAutoUpdate *)

UpdateAt(at) == update.at = at
UpdateGoes(from, to) == UpdateAt(from) /\ update' = [update EXCEPT !.at = to]

\* Mutant: it begins again instead of returning.
StartsOver(u) == [u EXCEPT !.at = "ask"]
Returned(u) == NoUpdate

\* It returns to initialize, which returns false if all was replaced, or to msghand.
UpdateReturns(done) ==
    /\ update' = Returned(update)
    /\ IF update.by = "main"
       THEN /\ main' = IF done THEN "return" ELSE "storage"
            /\ UNCHANGED msghand
       ELSE /\ msghand' = [msghand EXCEPT !.state = "pass"]
            /\ UNCHANGED main
    /\ UNCHANGED <<objects, worker, sched, queue, version, starts>>

StaysAsItIs == UNCHANGED <<main, objects, threads, flags, version, starts>>

\* The server's answer: no newer version or none that can be read.
AskInVain ==
    /\ UpdateAt("ask")
    /\ UpdateReturns(FALSE)
    /\ UNCHANGED <<flags, disk>>

AskNewer ==
    /\ version # New
    /\ UpdateGoes("ask", "clean")
    /\ UNCHANGED disk
    /\ StaysAsItIs

\* Mutant: the backup is removed together with the files of the last update.
CleanBackup == [disk EXCEPT !.tmp = {}, !.backup = None]
CleanTmp == [disk EXCEPT !.tmp = {}]

Clean ==
    /\ UpdateGoes("clean", "fetch")
    /\ disk' = CleanTmp
    /\ StaysAsItIs

\* A download fails, or the checksum is not the one announced.
FetchFails ==
    /\ UpdateAt("fetch")
    /\ UpdateReturns(FALSE)
    /\ UNCHANGED <<flags, disk>>

Fetch ==
    /\ UpdateGoes("fetch", "backup")
    /\ disk' = [disk EXCEPT !.tmp = Files]
    /\ StaysAsItIs

RemoveBackup ==
    /\ UpdateGoes("backup", "rename")
    /\ disk' = [disk EXCEPT !.backup = None]
    /\ StaysAsItIs

Rename ==
    /\ disk.exe # None
    /\ UpdateGoes("rename", "move")
    /\ disk' = [disk EXCEPT !.backup = disk.exe, !.exe = None]
    /\ StaysAsItIs

\* The executable is not there, or cannot be renamed: nobody catches the exception.
RenameThrows == UpdateAt("rename") /\ Gone("died")

Move ==
    /\ UpdateAt("move")
    /\ \E f \in disk.tmp :
         disk' = [disk EXCEPT !.tmp = @ \ {f}, !.exe = IF f = Exe THEN New ELSE @]
    /\ UNCHANGED update
    /\ StaysAsItIs

MoveFails ==
    /\ UpdateAt("move")
    /\ disk.tmp # {}
    /\ UpdateReturns(FALSE)
    /\ UNCHANGED <<flags, disk>>

\* Everything is in its place: first the one flag, then the other.
SetShutdown ==
    /\ disk.tmp = {}
    /\ UpdateGoes("move", "flags")
    /\ shutdown' = TRUE
    /\ installed' = TRUE
    /\ UNCHANGED <<main, objects, threads, reboot, ticker, disk, version, starts>>

SetReboot ==
    /\ UpdateAt("flags")
    /\ reboot' = TRUE
    /\ UpdateReturns(TRUE)
    /\ UNCHANGED <<shutdown, installed, ticker, disk>>

-----------------------------------------------------------------------------

Main ==
    \/ Start \/ UpdateFirst \/ StorageUp \/ StorageFails \/ SchedulerUp
    \/ StartThreads \/ NetworkFails \/ Activate \/ RestUp \/ RestThrows
    \/ SeeShutdown \/ Joined \/ ReleaseStorage \/ InterruptNetwork \/ ReleaseNetwork
    \/ ReleaseRest \/ Return

MsgThread ==
    \/ \E l \in Lists : MsgBegin(l)
    \/ MsgWantsBoth \/ MsgGetsBoth \/ MsgNewer \/ MsgEnd \/ MsgReturns

Scheduler ==
    \/ \E t \in Tasks : RunTask(t)
    \/ MaintainerEnds \/ DumpHoldsOut \/ DumpEnds \/ SchedEnds

Update ==
    \/ AskInVain \/ AskNewer \/ Clean \/ FetchFails \/ Fetch \/ RemoveBackup
    \/ Rename \/ RenameThrows \/ Move \/ MoveFails \/ SetShutdown \/ SetReboot

Next ==
    \/ Main \/ Signal
    \/ \E w \in Workers : WorkerEnds(w)
    \/ MsgThread \/ Scheduler
    \/ RequestBegins \/ RequestEnds
    \/ Update

Spec == Init /\ [][Next]_vars

\* The operating system schedules every thread, and hands out a lock that is free
\* again and again. A pass ends: the messages it finds are all there will be while it
\* has the list. Requests are answered, and each step of an update comes to an end.
\* Nobody needs to start the node, and peers need not send anything.
Fairness ==
    /\ WF_vars(Main /\ ~IsGone)
    /\ \A w \in Workers : WF_vars(WorkerEnds(w))
    /\ WF_vars(MsgGetsBoth) /\ SF_vars(MsgEnd) /\ WF_vars(MsgReturns)
    /\ \A t \in Tasks : SF_vars(RunTask(t))
    /\ SF_vars(MaintainerEnds \/ DumpHoldsOut \/ DumpEnds) /\ WF_vars(SchedEnds)
    /\ WF_vars(RequestEnds) /\ WF_vars(Update)

FairSpec == Spec /\ Fairness

-----------------------------------------------------------------------------
(* Properties *)

Versions == {Old, New}
Steps == {"update", "storage", "scheduler", "network", "activate", "rest", "wait", "join",
          "release", "interrupt", "stop", "closing", "return"}

\* Types; there is an update going on exactly while msghand or main is in one.
TypeOK ==
    /\ main \in Steps \cup {"off", "exited", "died"}
    /\ shutdown \in BOOLEAN /\ reboot \in BOOLEAN /\ installed \in BOOLEAN
    /\ storage \in BOOLEAN /\ network \in BOOLEAN /\ request \in BOOLEAN
    /\ active \in BOOLEAN /\ interrupted \in BOOLEAN
    /\ rest \in {"none", "open", "broken"}
    /\ worker \in [Workers -> {"none", "loop", "ended"}]
    /\ msghand \in [state : {"none", "loop", "pass", "update", "ended"},
                    has : Lists \cup {None}, wants : Lists \cup {None}]
    /\ sched \in {"none", "idle", "DumpData2", "ended"} \cup Tasks
    /\ queue \subseteq Tasks
    /\ ticker \in 0..MaxTicks
    /\ update = NoUpdate \/ update \in
         [by : {"main", "msghand"},
          at : {"ask", "clean", "fetch", "backup", "rename", "move", "flags"}]
    /\ msghand.state = "update" <=> update.by = "msghand"
    /\ version \in Versions
    /\ disk \in [exe : Versions \cup {None}, backup : Versions \cup {None},
                 tmp : SUBSET Files]
    /\ starts \in 0..MaxStarts

\* Nobody runs in the network manager, or has one of its locks, once it is deleted
\* (tasks are bound to it, and threads work on its lists).
NetworkOutlivesItsUsers ==
    ~network =>
        /\ sched \notin Tasks \cup {"DumpData2"}
        /\ \A w \in Workers : worker[w] \in {"none", "ended"}
        /\ msghand.state \in {"none", "ended"}

\* Whatever fails in whichever update, and however often: the executable is there, or
\* its backup, or the new one among the extracted files (doAutoUpdate).
VersionOnDisk == disk.exe # None \/ disk.backup # None \/ Exe \in disk.tmp

\* When main looks whether to reboot, an update that replaced everything has said so,
\* although it asks for the shutdown before it asks for the reboot.
UpdateRestarts == main = "return" /\ installed => reboot

\* msghand has the inbound list and wants the outbound one; DumpData the other way.
Crossed == msghand.has = "in" /\ msghand.wants = "out" /\ sched = "DumpData2"

\* A node that waits for its end and is told to shut down gets to its end, unless the
\* two locks are crossed (WaitForShutdown, MetaChain::shutdown).
ShutdownEnds == (shutdown /\ main = "wait") ~> (main = "return" \/ IsGone \/ Crossed)

\* As long as a node runs, both tasks run again and again, unless the locks are
\* crossed (Repeat).
TasksRepeat ==
    \A t \in Tasks : main = "wait" ~> (sched = t \/ main # "wait" \/ Crossed)
================================================================================
