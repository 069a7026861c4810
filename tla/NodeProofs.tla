------------------------------- MODULE NodeProofs ------------------------------
(***************************************************************************)
(* Proofs of the safety properties of Node, for any release, any settings  *)
(* of the update and any number of processes.  IndInv is the inductive     *)
(* invariant: PhaseInv says who runs in which phase of main, FlagInv where *)
(* the update's two flags stand, and DiskInv where the last executable is  *)
(* at each step of an update.                                              *)
(***************************************************************************)
EXTENDS Node, TLAPS

Off == {"off", "exited", "died"}
Early == {"update", "storage", "scheduler", "network"}
Up == {"activate", "rest", "wait", "join", "release", "interrupt", "stop"}
Late == {"closing", "return"}

\* What runs in which phase of main.
PhaseInv ==
    /\ network <=> main \in Up
    /\ main \in Off \cup Early =>
         /\ \A w \in Workers : worker[w] = "none"
         /\ msghand.state = "none"
         /\ queue = {}
    /\ main \in Off \cup {"update", "storage", "scheduler"} => sched = "none"
    /\ main = "network" => sched = "idle"
    /\ main \in {"release", "interrupt", "stop"} => sched = "ended"
    /\ main \in Late =>
         /\ sched \in {"none", "ended"}
         /\ \A w \in Workers : worker[w] \in {"none", "ended"}
         /\ msghand.state \in {"none", "ended"}
    /\ update.by = "main" => main = "update"

\* The second flag is set, or it is what the update does next.
FlagInv == installed => reboot \/ update.at = "flags"

\* Only between the removal of the backup and the renaming may neither the executable
\* nor its backup be there; the files of the release are, then.
DiskInv ==
    /\ VersionOnDisk
    /\ main \notin Off /\ update.at # "rename" => disk.exe # None \/ disk.backup # None
    /\ update.at \in {"backup", "rename"} => disk.tmp = Files
    /\ update.at = "move" => disk.backup # None

IndInv == TypeOK /\ PhaseInv /\ FlagInv /\ DiskInv

-----------------------------------------------------------------------------

LEMMA InitIndInv == Init => IndInv
  <1> SUFFICES ASSUME Init PROVE IndInv
    OBVIOUS
  <1> USE NodeAssumption DEF Init, NoUpdate, Workers, Tasks, Lists
  <1>1. TypeOK
    <2>1. worker \in [Workers -> {"none", "loop", "ended"}]
      OBVIOUS
    <2>2. /\ msghand \in [state : {"none", "loop", "pass", "update", "ended"},
                          has : Lists \cup {None}, wants : Lists \cup {None}]
          /\ msghand.state # "update" /\ update.by # "msghand"
      OBVIOUS
    <2>3. /\ disk \in [exe : Versions \cup {None}, backup : Versions \cup {None},
                       tmp : SUBSET Files]
          /\ version \in Versions /\ ticker \in 0..MaxTicks /\ starts \in 0..MaxStarts
      BY DEF Versions
    <2>4. QED
      BY <2>1, <2>2, <2>3 DEF TypeOK
  <1>2. PhaseInv
    BY DEF PhaseInv, Off, Early, Up, Late
  <1>3. FlagInv /\ DiskInv
    BY DEF FlagInv, DiskInv, VersionOnDisk, Off
  <1>4. QED
    BY <1>1, <1>2, <1>3 DEF IndInv

\* A process that is gone, or was just started, has blank variables.
LEMMA NoProcessTypes ==
  ASSUME NoProcess, main' \in Steps \cup Off, version' \in Versions,
         disk' \in [exe : Versions \cup {None}, backup : Versions \cup {None},
                    tmp : SUBSET Files],
         starts' \in 0..MaxStarts
  PROVE  TypeOK'
  <1> USE NodeAssumption DEF NoProcess, NoUpdate, Workers, Lists, Tasks, Steps, Off
  <1>1. worker' \in [Workers -> {"none", "loop", "ended"}]
    OBVIOUS
  <1>2. msghand' \in [state : {"none", "loop", "pass", "update", "ended"},
                      has : Lists \cup {None}, wants : Lists \cup {None}]
    OBVIOUS
  <1>3. ticker' \in 0..MaxTicks /\ queue' \subseteq Tasks
    OBVIOUS
  <1>4. update' = NoUpdate /\ ~(update'.by = "msghand") /\ msghand'.state = "none"
    OBVIOUS
  <1>5. QED
    BY <1>1, <1>2, <1>3, <1>4 DEF TypeOK

LEMMA TypeStep ==
  ASSUME IndInv, [Next]_vars
  PROVE  TypeOK'
  <1> USE NodeAssumption DEF IndInv, TypeOK, PhaseInv, Off, Early, Up, Late, NoUpdate, Versions,
      Steps, Lists, Tasks, Workers, vars, objects, threads, flags, files
  <1>1. CASE Start
    BY <1>1, NoProcessTypes DEF Start, Starts
  <1>2. CASE UpdateFirst
    BY <1>2 DEF UpdateFirst
  <1>3. CASE StorageUp
    BY <1>3 DEF StorageUp, Goes
  <1>4. CASE StorageFails
    BY <1>4, NoProcessTypes DEF StorageFails, Gone
  <1>5. CASE SchedulerUp
    BY <1>5 DEF SchedulerUp, Goes
  <1>6. CASE StartThreads
    BY <1>6 DEF StartThreads, Goes
  <1>7. CASE NetworkFails
    BY <1>7, NoProcessTypes DEF NetworkFails, Gone
  <1>8. CASE Activate
    BY <1>8 DEF Activate, Goes
  <1>9. CASE RestUp
    BY <1>9 DEF RestUp, Goes
  <1>10. CASE RestThrows
    BY <1>10, NoProcessTypes DEF RestThrows, Gone
  <1>11. CASE SeeShutdown
    BY <1>11 DEF SeeShutdown, Goes
  <1>12. CASE Joined
    BY <1>12 DEF Joined, Goes
  <1>13. CASE ReleaseStorage
    <2>1. main' \in Steps /\ storage' \in BOOLEAN
      BY <1>13 DEF ReleaseStorage, Goes
    <2>2. UNCHANGED <<network, rest, request, active, interrupted, threads, flags, files,
                      version, starts>>
      BY <1>13 DEF ReleaseStorage
    <2>3. QED
      BY <2>1, <2>2
  <1>14. CASE InterruptNetwork
    BY <1>14 DEF InterruptNetwork, Goes
  <1>15. CASE ReleaseNetwork
    <2>1. main' \in Steps /\ network' \in BOOLEAN
      BY <1>15 DEF ReleaseNetwork, Goes
    <2>2. UNCHANGED <<storage, rest, request, active, interrupted, threads, flags, files,
                      version, starts>>
      BY <1>15 DEF ReleaseNetwork
    <2>3. QED
      BY <2>1, <2>2
  <1>16. CASE ReleaseRest
    <2>1. CASE rest = "broken" /\ Gone("died")
      BY <2>1, NoProcessTypes DEF Gone
    <2>2. CASE ~(rest = "broken" /\ Gone("died"))
      <3>1. main' \in Steps /\ rest' = "none"
        BY <1>16, <2>2 DEF ReleaseRest
      <3>2. UNCHANGED <<storage, network, request, active, interrupted, threads, flags,
                        files, version, starts>>
        BY <1>16, <2>2 DEF ReleaseRest
      <3>3. QED
        BY <3>1, <3>2
    <2>3. QED
      BY <2>1, <2>2
  <1>17. CASE Return
    <2>1. CASE Gone("exited") \/ Gone("died")
      BY <2>1, NoProcessTypes DEF Gone
    <2>2. CASE disk.exe # None /\ Starts
      BY <2>2, NoProcessTypes DEF Starts
    <2>3. QED
      BY <1>17, <2>1, <2>2 DEF Return
  <1>18. CASE Signal
    BY <1>18 DEF Signal
  <1>19. ASSUME NEW w \in Workers, WorkerEnds(w) PROVE TypeOK'
    BY <1>19 DEF WorkerEnds
  <1>20. ASSUME NEW l \in Lists, MsgBegin(l) PROVE TypeOK'
    <2>1. /\ msghand' \in [state : {"none", "loop", "pass", "update", "ended"},
                           has : Lists \cup {None}, wants : Lists \cup {None}]
          /\ msghand'.state # "update" /\ update.by # "msghand"
      BY <1>20 DEF MsgBegin
    <2>2. UNCHANGED <<main, objects, worker, sched, queue, flags, files, version, starts>>
      BY <1>20 DEF MsgBegin
    <2>3. QED
      BY <2>1, <2>2
  <1>21. CASE MsgWantsBoth
    BY <1>21 DEF MsgWantsBoth, OtherList
  <1>22. CASE MsgGetsBoth
    BY <1>22 DEF MsgGetsBoth
  <1>23. CASE MsgNewer
    <2>1. ticker' \in 0..MaxTicks
      BY <1>23 DEF MsgNewer
    <2>2. UNCHANGED <<main, objects, worker, sched, queue, reboot, installed, disk, version,
                      starts>>
      BY <1>23 DEF MsgNewer
    <2>3. CASE UNCHANGED <<msghand, update>> /\ shutdown' \in BOOLEAN
      BY <2>1, <2>2, <2>3
    <2>4. CASE /\ msghand' = [msghand EXCEPT !.state = "update"]
               /\ update' = [by |-> "msghand", at |-> "ask"]
               /\ UNCHANGED shutdown
      <3>1. /\ msghand' \in [state : {"none", "loop", "pass", "update", "ended"},
                             has : Lists \cup {None}, wants : Lists \cup {None}]
            /\ msghand'.state = "update" /\ update'.by = "msghand"
        BY <2>4
      <3>2. update' \in
              [by : {"main", "msghand"},
               at : {"ask", "clean", "fetch", "backup", "rename", "move", "flags"}]
        BY <2>4
      <3>3. QED
        BY <2>1, <2>2, <2>4, <3>1, <3>2
    <2>5. QED
      BY <1>23, <2>3, <2>4 DEF MsgNewer
  <1>24. CASE MsgEnd
    <2>1. /\ msghand' \in [state : {"none", "loop", "pass", "update", "ended"},
                           has : Lists \cup {None}, wants : Lists \cup {None}]
          /\ msghand'.state # "update" /\ update.by # "msghand"
      BY <1>24 DEF MsgEnd
    <2>2. UNCHANGED <<main, objects, worker, sched, queue, flags, files, version, starts>>
      BY <1>24 DEF MsgEnd
    <2>3. QED
      BY <2>1, <2>2
  <1>25. CASE MsgReturns
    BY <1>25 DEF MsgReturns
  <1>26. ASSUME NEW t \in Tasks, RunTask(t) PROVE TypeOK'
    BY <1>26 DEF RunTask, SchedInterrupted
  <1>27. CASE MaintainerEnds
    BY <1>27 DEF MaintainerEnds, TaskEnds, Rescheduled
  <1>28. CASE DumpHoldsOut
    BY <1>28 DEF DumpHoldsOut
  <1>29. CASE DumpEnds
    BY <1>29 DEF DumpEnds, TaskEnds, Rescheduled
  <1>30. CASE SchedEnds
    BY <1>30 DEF SchedEnds, SchedInterrupted
  <1>31. CASE RequestBegins
    BY <1>31 DEF RequestBegins
  <1>32. CASE RequestEnds
    <2>1. CASE Gone("died")
      BY <2>1, NoProcessTypes DEF Gone
    <2>2. CASE /\ request' = FALSE
               /\ UNCHANGED <<main, storage, network, rest, active, interrupted, threads,
                              flags, files, version, starts>>
      <3>1. request' \in BOOLEAN
        BY <2>2
      <3>2. QED
        BY <2>2, <3>1
    <2>3. QED
      BY <1>32, <2>1, <2>2 DEF RequestEnds
  <1>33. CASE AskInVain
    BY <1>33 DEF AskInVain, UpdateAt, UpdateReturns, Returned
  <1>34. CASE AskNewer
    BY <1>34 DEF AskNewer, UpdateAt, UpdateGoes, StaysAsItIs
  <1>35. CASE Clean
    BY <1>35 DEF Clean, UpdateAt, UpdateGoes, StaysAsItIs, CleanTmp
  <1>36. CASE FetchFails
    BY <1>36 DEF FetchFails, UpdateAt, UpdateReturns, Returned
  <1>37. CASE Fetch
    BY <1>37 DEF Fetch, UpdateAt, UpdateGoes, StaysAsItIs
  <1>38. CASE RemoveBackup
    BY <1>38 DEF RemoveBackup, UpdateAt, UpdateGoes, StaysAsItIs
  <1>39. CASE Rename
    <2>1. disk' \in [exe : Versions \cup {None}, backup : Versions \cup {None},
                     tmp : SUBSET Files]
      BY <1>39 DEF Rename
    <2>2. /\ update' \in
               [by : {"main", "msghand"},
                at : {"ask", "clean", "fetch", "backup", "rename", "move", "flags"}]
          /\ update'.by = update.by
      BY <1>39 DEF Rename, UpdateAt, UpdateGoes
    <2>3. UNCHANGED <<main, objects, threads, flags, version, starts>>
      BY <1>39 DEF Rename, StaysAsItIs
    <2>4. QED
      BY <2>1, <2>2, <2>3
  <1>40. CASE RenameThrows
    BY <1>40, NoProcessTypes DEF RenameThrows, Gone, UpdateAt
  <1>41. CASE Move
    <2>1. disk' \in [exe : Versions \cup {None}, backup : Versions \cup {None},
                     tmp : SUBSET Files]
      <3>1. PICK f \in disk.tmp :
              disk' = [disk EXCEPT !.tmp = @ \ {f}, !.exe = IF f = Exe THEN New ELSE @]
        BY <1>41 DEF Move
      <3>2. disk.tmp \ {f} \in SUBSET Files
        OBVIOUS
      <3>3. QED
        BY <3>1, <3>2
    <2>2. UNCHANGED <<main, objects, threads, flags, version, starts, update>>
      BY <1>41 DEF Move, StaysAsItIs
    <2>3. QED
      BY <2>1, <2>2
  <1>42. CASE MoveFails
    BY <1>42 DEF MoveFails, UpdateAt, UpdateReturns, Returned
  <1>43. CASE SetShutdown
    BY <1>43 DEF SetShutdown, UpdateAt, UpdateGoes
  <1>44. CASE SetReboot
    BY <1>44 DEF SetReboot, UpdateAt, UpdateReturns, Returned
  <1>45. CASE UNCHANGED vars
    BY <1>45
  <1>46. QED
    BY <1>1, <1>2, <1>3, <1>4, <1>5, <1>6, <1>7, <1>8, <1>9, <1>10, <1>11,
       <1>12, <1>13, <1>14, <1>15, <1>16, <1>17, <1>18, <1>19, <1>20, <1>21,
       <1>22, <1>23, <1>24, <1>25, <1>26, <1>27, <1>28, <1>29, <1>30, <1>31,
       <1>32, <1>33, <1>34, <1>35, <1>36, <1>37, <1>38, <1>39, <1>40, <1>41,
       <1>42, <1>43, <1>44, <1>45
    DEF Next, Main, MsgThread, Scheduler, Update

LEMMA PhaseStep ==
  ASSUME IndInv, [Next]_vars
  PROVE  PhaseInv'
  <1> USE NodeAssumption DEF IndInv, TypeOK, PhaseInv, Off, Early, Up, Late, IsGone, NoUpdate,
      Lists, Tasks, Workers, vars, objects, threads, flags, files
  <1>1. CASE Start
    BY <1>1 DEF Start, Starts, NoProcess
  <1>2. CASE UpdateFirst
    BY <1>2 DEF UpdateFirst
  <1>3. CASE StorageUp
    BY <1>3 DEF StorageUp, Goes
  <1>4. CASE StorageFails
    BY <1>4 DEF StorageFails, Gone, NoProcess
  <1>5. CASE SchedulerUp
    BY <1>5 DEF SchedulerUp, Goes
  <1>6. CASE StartThreads
    BY <1>6 DEF StartThreads, Goes
  <1>7. CASE NetworkFails
    BY <1>7 DEF NetworkFails, Gone, NoProcess
  <1>8. CASE Activate
    BY <1>8 DEF Activate, Goes
  <1>9. CASE RestUp
    BY <1>9 DEF RestUp, Goes
  <1>10. CASE RestThrows
    BY <1>10 DEF RestThrows, Gone, NoProcess
  <1>11. CASE SeeShutdown
    BY <1>11 DEF SeeShutdown, Goes
  <1>12. CASE Joined
    BY <1>12 DEF Joined, Goes
  <1>13. CASE ReleaseStorage
    BY <1>13 DEF ReleaseStorage, Goes
  <1>14. CASE InterruptNetwork
    BY <1>14 DEF InterruptNetwork, Goes
  <1>15. CASE ReleaseNetwork
    BY <1>15 DEF ReleaseNetwork, Goes, ThreadsEnded
  <1>16. CASE ReleaseRest
    BY <1>16 DEF ReleaseRest, Gone, NoProcess
  <1>17. CASE Return
    BY <1>17 DEF Return, Gone, Starts, NoProcess
  <1>18. CASE Signal
    BY <1>18 DEF Signal
  <1>19. ASSUME NEW w \in Workers, WorkerEnds(w) PROVE PhaseInv'
    BY <1>19 DEF WorkerEnds
  <1>20. ASSUME NEW l \in Lists, MsgBegin(l) PROVE PhaseInv'
    BY <1>20 DEF MsgBegin
  <1>21. CASE MsgWantsBoth
    BY <1>21 DEF MsgWantsBoth, OtherList
  <1>22. CASE MsgGetsBoth
    BY <1>22 DEF MsgGetsBoth
  <1>23. CASE MsgNewer
    BY <1>23 DEF MsgNewer
  <1>24. CASE MsgEnd
    BY <1>24 DEF MsgEnd
  <1>25. CASE MsgReturns
    BY <1>25 DEF MsgReturns
  <1>26. ASSUME NEW t \in Tasks, RunTask(t) PROVE PhaseInv'
    BY <1>26 DEF RunTask, SchedInterrupted
  <1>27. CASE MaintainerEnds
    BY <1>27 DEF MaintainerEnds, TaskEnds, Rescheduled
  <1>28. CASE DumpHoldsOut
    BY <1>28 DEF DumpHoldsOut
  <1>29. CASE DumpEnds
    BY <1>29 DEF DumpEnds, TaskEnds, Rescheduled
  <1>30. CASE SchedEnds
    BY <1>30 DEF SchedEnds, SchedInterrupted
  <1>31. CASE RequestBegins
    BY <1>31 DEF RequestBegins
  <1>32. CASE RequestEnds
    <2>1. CASE Gone("died")
      BY <2>1 DEF Gone, NoProcess
    <2>2. CASE /\ request' = FALSE
               /\ UNCHANGED <<main, storage, network, rest, active, interrupted, threads,
                              flags, files, version, starts>>
      BY <2>2
    <2>3. QED
      BY <1>32, <2>1, <2>2 DEF RequestEnds
  <1>33. CASE AskInVain
    BY <1>33 DEF AskInVain, UpdateAt, UpdateReturns, Returned
  <1>34. CASE AskNewer
    BY <1>34 DEF AskNewer, UpdateAt, UpdateGoes, StaysAsItIs
  <1>35. CASE Clean
    BY <1>35 DEF Clean, UpdateAt, UpdateGoes, StaysAsItIs, CleanTmp
  <1>36. CASE FetchFails
    BY <1>36 DEF FetchFails, UpdateAt, UpdateReturns, Returned
  <1>37. CASE Fetch
    BY <1>37 DEF Fetch, UpdateAt, UpdateGoes, StaysAsItIs
  <1>38. CASE RemoveBackup
    BY <1>38 DEF RemoveBackup, UpdateAt, UpdateGoes, StaysAsItIs
  <1>39. CASE Rename
    BY <1>39 DEF Rename, UpdateAt, UpdateGoes, StaysAsItIs
  <1>40. CASE RenameThrows
    BY <1>40 DEF RenameThrows, Gone, NoProcess, UpdateAt
  <1>41. CASE Move
    BY <1>41 DEF Move, UpdateAt, StaysAsItIs
  <1>42. CASE MoveFails
    BY <1>42 DEF MoveFails, UpdateAt, UpdateReturns, Returned
  <1>43. CASE SetShutdown
    BY <1>43 DEF SetShutdown, UpdateAt, UpdateGoes
  <1>44. CASE SetReboot
    BY <1>44 DEF SetReboot, UpdateAt, UpdateReturns, Returned
  <1>45. CASE UNCHANGED vars
    BY <1>45
  <1>46. QED
    BY <1>1, <1>2, <1>3, <1>4, <1>5, <1>6, <1>7, <1>8, <1>9, <1>10, <1>11,
       <1>12, <1>13, <1>14, <1>15, <1>16, <1>17, <1>18, <1>19, <1>20, <1>21,
       <1>22, <1>23, <1>24, <1>25, <1>26, <1>27, <1>28, <1>29, <1>30, <1>31,
       <1>32, <1>33, <1>34, <1>35, <1>36, <1>37, <1>38, <1>39, <1>40, <1>41,
       <1>42, <1>43, <1>44, <1>45
    DEF Next, Main, MsgThread, Scheduler, Update

LEMMA FlagStep ==
  ASSUME IndInv, [Next]_vars
  PROVE  FlagInv'
  <1> USE NodeAssumption DEF IndInv, TypeOK, FlagInv, NoUpdate, vars, objects, threads, flags, files
  <1>1. CASE Start
    BY <1>1 DEF Start, Starts, NoProcess
  <1>2. CASE UpdateFirst
    BY <1>2 DEF UpdateFirst
  <1>3. CASE StorageUp
    BY <1>3 DEF StorageUp, Goes
  <1>4. CASE StorageFails
    BY <1>4 DEF StorageFails, Gone, NoProcess
  <1>5. CASE SchedulerUp
    BY <1>5 DEF SchedulerUp, Goes
  <1>6. CASE StartThreads
    BY <1>6 DEF StartThreads, Goes
  <1>7. CASE NetworkFails
    BY <1>7 DEF NetworkFails, Gone, NoProcess
  <1>8. CASE Activate
    BY <1>8 DEF Activate, Goes
  <1>9. CASE RestUp
    BY <1>9 DEF RestUp, Goes
  <1>10. CASE RestThrows
    BY <1>10 DEF RestThrows, Gone, NoProcess
  <1>11. CASE SeeShutdown
    BY <1>11 DEF SeeShutdown, Goes
  <1>12. CASE Joined
    BY <1>12 DEF Joined, Goes
  <1>13. CASE ReleaseStorage
    BY <1>13 DEF ReleaseStorage, Goes
  <1>14. CASE InterruptNetwork
    BY <1>14 DEF InterruptNetwork, Goes
  <1>15. CASE ReleaseNetwork
    BY <1>15 DEF ReleaseNetwork, Goes, ThreadsEnded
  <1>16. CASE ReleaseRest
    BY <1>16 DEF ReleaseRest, Gone, NoProcess
  <1>17. CASE Return
    BY <1>17 DEF Return, Gone, Starts, NoProcess
  <1>18. CASE Signal
    BY <1>18 DEF Signal
  <1>19. ASSUME NEW w \in Workers, WorkerEnds(w) PROVE FlagInv'
    BY <1>19 DEF WorkerEnds
  <1>20. ASSUME NEW l \in Lists, MsgBegin(l) PROVE FlagInv'
    BY <1>20 DEF MsgBegin
  <1>21. CASE MsgWantsBoth
    BY <1>21 DEF MsgWantsBoth, OtherList
  <1>22. CASE MsgGetsBoth
    BY <1>22 DEF MsgGetsBoth
  <1>23. CASE MsgNewer
    <2>1. update = NoUpdate
      BY <1>23 DEF MsgNewer, PhaseInv, Early, Off
    <2>2. UNCHANGED <<installed, reboot>> /\ (installed => reboot)
      BY <1>23, <2>1 DEF MsgNewer
    <2>3. QED
      BY <2>2
  <1>24. CASE MsgEnd
    BY <1>24 DEF MsgEnd
  <1>25. CASE MsgReturns
    BY <1>25 DEF MsgReturns
  <1>26. ASSUME NEW t \in Tasks, RunTask(t) PROVE FlagInv'
    BY <1>26 DEF RunTask, SchedInterrupted
  <1>27. CASE MaintainerEnds
    BY <1>27 DEF MaintainerEnds, TaskEnds, Rescheduled
  <1>28. CASE DumpHoldsOut
    BY <1>28 DEF DumpHoldsOut
  <1>29. CASE DumpEnds
    BY <1>29 DEF DumpEnds, TaskEnds, Rescheduled
  <1>30. CASE SchedEnds
    BY <1>30 DEF SchedEnds, SchedInterrupted
  <1>31. CASE RequestBegins
    BY <1>31 DEF RequestBegins
  <1>32. CASE RequestEnds
    <2>1. CASE Gone("died")
      BY <2>1 DEF Gone, NoProcess
    <2>2. CASE /\ request' = FALSE
               /\ UNCHANGED <<main, storage, network, rest, active, interrupted, threads,
                              flags, files, version, starts>>
      BY <2>2
    <2>3. QED
      BY <1>32, <2>1, <2>2 DEF RequestEnds
  <1>33. CASE AskInVain
    BY <1>33 DEF AskInVain, UpdateAt, UpdateReturns, Returned
  <1>34. CASE AskNewer
    BY <1>34 DEF AskNewer, UpdateAt, UpdateGoes, StaysAsItIs
  <1>35. CASE Clean
    BY <1>35 DEF Clean, UpdateAt, UpdateGoes, StaysAsItIs, CleanTmp
  <1>36. CASE FetchFails
    BY <1>36 DEF FetchFails, UpdateAt, UpdateReturns, Returned
  <1>37. CASE Fetch
    BY <1>37 DEF Fetch, UpdateAt, UpdateGoes, StaysAsItIs
  <1>38. CASE RemoveBackup
    BY <1>38 DEF RemoveBackup, UpdateAt, UpdateGoes, StaysAsItIs
  <1>39. CASE Rename
    BY <1>39 DEF Rename, UpdateAt, UpdateGoes, StaysAsItIs
  <1>40. CASE RenameThrows
    BY <1>40 DEF RenameThrows, Gone, NoProcess, UpdateAt
  <1>41. CASE Move
    BY <1>41 DEF Move, UpdateAt, StaysAsItIs
  <1>42. CASE MoveFails
    BY <1>42 DEF MoveFails, UpdateAt, UpdateReturns, Returned
  <1>43. CASE SetShutdown
    BY <1>43 DEF SetShutdown, UpdateAt, UpdateGoes
  <1>44. CASE SetReboot
    BY <1>44 DEF SetReboot, UpdateAt, UpdateReturns, Returned
  <1>45. CASE UNCHANGED vars
    BY <1>45
  <1>46. QED
    BY <1>1, <1>2, <1>3, <1>4, <1>5, <1>6, <1>7, <1>8, <1>9, <1>10, <1>11,
       <1>12, <1>13, <1>14, <1>15, <1>16, <1>17, <1>18, <1>19, <1>20, <1>21,
       <1>22, <1>23, <1>24, <1>25, <1>26, <1>27, <1>28, <1>29, <1>30, <1>31,
       <1>32, <1>33, <1>34, <1>35, <1>36, <1>37, <1>38, <1>39, <1>40, <1>41,
       <1>42, <1>43, <1>44, <1>45
    DEF Next, Main, MsgThread, Scheduler, Update

LEMMA DiskStep ==
  ASSUME IndInv, [Next]_vars
  PROVE  DiskInv'
  <1> USE NodeAssumption DEF IndInv, TypeOK, PhaseInv, DiskInv, VersionOnDisk, Off, Early, IsGone,
      NoUpdate, Versions, vars, objects, threads, flags, files
  <1>1. CASE Start
    BY <1>1 DEF Start, Starts, NoProcess
  <1>2. CASE UpdateFirst
    BY <1>2 DEF UpdateFirst
  <1>3. CASE StorageUp
    BY <1>3 DEF StorageUp, Goes
  <1>4. CASE StorageFails
    BY <1>4 DEF StorageFails, Gone, NoProcess
  <1>5. CASE SchedulerUp
    BY <1>5 DEF SchedulerUp, Goes
  <1>6. CASE StartThreads
    BY <1>6 DEF StartThreads, Goes
  <1>7. CASE NetworkFails
    BY <1>7 DEF NetworkFails, Gone, NoProcess
  <1>8. CASE Activate
    BY <1>8 DEF Activate, Goes
  <1>9. CASE RestUp
    BY <1>9 DEF RestUp, Goes
  <1>10. CASE RestThrows
    BY <1>10 DEF RestThrows, Gone, NoProcess
  <1>11. CASE SeeShutdown
    BY <1>11 DEF SeeShutdown, Goes
  <1>12. CASE Joined
    BY <1>12 DEF Joined, Goes
  <1>13. CASE ReleaseStorage
    BY <1>13 DEF ReleaseStorage, Goes
  <1>14. CASE InterruptNetwork
    BY <1>14 DEF InterruptNetwork, Goes
  <1>15. CASE ReleaseNetwork
    BY <1>15 DEF ReleaseNetwork, Goes, ThreadsEnded
  <1>16. CASE ReleaseRest
    BY <1>16 DEF ReleaseRest, Gone, NoProcess
  <1>17. CASE Return
    BY <1>17 DEF Return, Gone, Starts, NoProcess
  <1>18. CASE Signal
    BY <1>18 DEF Signal
  <1>19. ASSUME NEW w \in Workers, WorkerEnds(w) PROVE DiskInv'
    BY <1>19 DEF WorkerEnds
  <1>20. ASSUME NEW l \in Lists, MsgBegin(l) PROVE DiskInv'
    BY <1>20 DEF MsgBegin
  <1>21. CASE MsgWantsBoth
    BY <1>21 DEF MsgWantsBoth, OtherList
  <1>22. CASE MsgGetsBoth
    BY <1>22 DEF MsgGetsBoth
  <1>23. CASE MsgNewer
    BY <1>23 DEF MsgNewer
  <1>24. CASE MsgEnd
    BY <1>24 DEF MsgEnd
  <1>25. CASE MsgReturns
    BY <1>25 DEF MsgReturns
  <1>26. ASSUME NEW t \in Tasks, RunTask(t) PROVE DiskInv'
    BY <1>26 DEF RunTask, SchedInterrupted
  <1>27. CASE MaintainerEnds
    BY <1>27 DEF MaintainerEnds, TaskEnds, Rescheduled
  <1>28. CASE DumpHoldsOut
    BY <1>28 DEF DumpHoldsOut
  <1>29. CASE DumpEnds
    BY <1>29 DEF DumpEnds, TaskEnds, Rescheduled
  <1>30. CASE SchedEnds
    BY <1>30 DEF SchedEnds, SchedInterrupted
  <1>31. CASE RequestBegins
    BY <1>31 DEF RequestBegins
  <1>32. CASE RequestEnds
    BY <1>32 DEF RequestEnds, Gone, NoProcess
  <1>33. CASE AskInVain
    BY <1>33 DEF AskInVain, UpdateAt, UpdateReturns, Returned
  <1>34. CASE AskNewer
    BY <1>34 DEF AskNewer, UpdateAt, UpdateGoes, StaysAsItIs
  <1>35. CASE Clean
    BY <1>35 DEF Clean, UpdateAt, UpdateGoes, StaysAsItIs, CleanTmp
  <1>36. CASE FetchFails
    BY <1>36 DEF FetchFails, UpdateAt, UpdateReturns, Returned
  <1>37. CASE Fetch
    BY <1>37 DEF Fetch, UpdateAt, UpdateGoes, StaysAsItIs
  <1>38. CASE RemoveBackup
    BY <1>38 DEF RemoveBackup, UpdateAt, UpdateGoes, StaysAsItIs
  <1>39. CASE Rename
    BY <1>39 DEF Rename, UpdateAt, UpdateGoes, StaysAsItIs
  <1>40. CASE RenameThrows
    BY <1>40 DEF RenameThrows, Gone, NoProcess, UpdateAt
  <1>41. CASE Move
    BY <1>41 DEF Move, UpdateAt, StaysAsItIs
  <1>42. CASE MoveFails
    BY <1>42 DEF MoveFails, UpdateAt, UpdateReturns, Returned
  <1>43. CASE SetShutdown
    BY <1>43 DEF SetShutdown, UpdateAt, UpdateGoes
  <1>44. CASE SetReboot
    BY <1>44 DEF SetReboot, UpdateAt, UpdateReturns, Returned
  <1>45. CASE UNCHANGED vars
    BY <1>45
  <1>46. QED
    BY <1>1, <1>2, <1>3, <1>4, <1>5, <1>6, <1>7, <1>8, <1>9, <1>10, <1>11,
       <1>12, <1>13, <1>14, <1>15, <1>16, <1>17, <1>18, <1>19, <1>20, <1>21,
       <1>22, <1>23, <1>24, <1>25, <1>26, <1>27, <1>28, <1>29, <1>30, <1>31,
       <1>32, <1>33, <1>34, <1>35, <1>36, <1>37, <1>38, <1>39, <1>40, <1>41,
       <1>42, <1>43, <1>44, <1>45
    DEF Next, Main, MsgThread, Scheduler, Update

-----------------------------------------------------------------------------

\* Every state a node can reach satisfies the invariant.
THEOREM IndInvTheorem == Spec => []IndInv
  <1>1. IndInv /\ [Next]_vars => IndInv'
    BY TypeStep, PhaseStep, FlagStep, DiskStep DEF IndInv
  <1>2. QED
    BY InitIndInv, <1>1, PTL DEF Spec

\* The variables stay in their types, and an update is going on exactly while msghand
\* or main is in doAutoUpdate.
THEOREM TypeTheorem == Spec => []TypeOK
  <1>1. IndInv => TypeOK
    BY DEF IndInv
  <1>2. QED
    BY IndInvTheorem, <1>1, PTL

\* Nobody runs in the network manager once MetaChain::shutdown has deleted it.
THEOREM NetworkOutlivesTheorem == Spec => []NetworkOutlivesItsUsers
  <1>1. IndInv => NetworkOutlivesItsUsers
    BY DEF IndInv, TypeOK, PhaseInv, NetworkOutlivesItsUsers, Steps, Off, Early, Up, Late,
           Tasks
  <1>2. QED
    BY IndInvTheorem, <1>1, PTL

\* However many updates fail and wherever: the executable, its backup or the new one
\* is somewhere on disk (doAutoUpdate).
THEOREM VersionOnDiskTheorem == Spec => []VersionOnDisk
  <1>1. IndInv => VersionOnDisk
    BY DEF IndInv, DiskInv
  <1>2. QED
    BY IndInvTheorem, <1>1, PTL

\* main sees sabReboot after every update that replaced all files.
THEOREM UpdateRestartsTheorem == Spec => []UpdateRestarts
  <1>1. IndInv => UpdateRestarts
    BY NodeAssumption
    DEF IndInv, TypeOK, PhaseInv, FlagInv, UpdateRestarts, NoUpdate, Late, Steps
  <1>2. QED
    BY IndInvTheorem, <1>1, PTL
================================================================================
