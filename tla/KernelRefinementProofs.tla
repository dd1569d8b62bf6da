------------------------ MODULE KernelRefinementProofs ------------------------
(***************************************************************************)
(* Kernel implements ProcessStacks under the refinement mapping of         *)
(* KernelRefinement, for every value of the constants, when user code      *)
(* makes system calls only once every slot runs its shell (~StartupRace). *)
(* The argument rests on the inductive invariant IInv of KernelInvProofs:  *)
(* it says which PIDs execute can hand out (a free one, never a live one), *)
(* that a root shell's PID is below NUM_TERMINALS and that every lower PID *)
(* is taken, so halt of a root shell brings back the same PID.             *)
(***************************************************************************)
EXTENDS KernelInvProofs, KernelRefinement

USE NumTasksAssumption, NumProcessesAssumption, FdArraySizeAssumption,
    StartupRaceAssumption

-----------------------------------------------------------------------------
(* start_scheduler's state is an initial state of the process stacks: slot *)
(* 0 runs its root shell, PID 0, the only live process.                    *)
LEMMA InitRefines == Init => AS!Init
<1> SUFFICES ASSUME Init PROVE AS!Init
  OBVIOUS
<1>1. PICK oob \in BOOLEAN, inode0 \in Inodes :
        /\ pidUsed = [p \in PidCells |-> IF p = NumProcesses THEN oob ELSE p = 0]
        /\ pcb = [p \in PidCells |->
                    [parent |-> IF p = 0 THEN NoPid ELSE 0, task |-> 0,
                     fds |-> IF p = 0
                             THEN StdFds(BlankFds(inode0))
                             ELSE BlankFds(inode0)]]
        /\ tasks = [t \in Tasks |-> [pid |-> 0, started |-> t = 0]]
        /\ current = 0
  BY DEF Init
<1>2. \A p \in PidCells : IsLive(p) <=> p = 0
  <2> SUFFICES ASSUME NEW p \in PidCells PROVE IsLive(p) <=> p = 0
    OBVIOUS
  <2>0. BlankFds(inode0) \in [FdIdx -> FdEntry] /\ 0 \in FdIdx
    BY DEF BlankFds, FdEntry, FdKinds, FdIdx
  <2>1. StdFds(BlankFds(inode0))[0].kind = "stdin"
    BY <2>0, StdFdsFacts
  <2>2. p # 0 => pcb[p].fds[0].kind = "closed"
    BY <1>1, <2>0 DEF BlankFds
  <2>3. pidUsed[p] = IF p = NumProcesses THEN oob ELSE p = 0
    BY <1>1
  <2>6. NumProcesses # 0
    OBVIOUS
  <2>4. p = 0 => pcb[p].fds = StdFds(BlankFds(inode0))
    BY <1>1
  <2>5. QED
    BY <2>1, <2>2, <2>3, <2>4, <2>6 DEF IsLive
<1>3. 0 \in Tasks /\ 0 \in PidCells
  BY DEF Tasks, PidCells
<1>4. runningBar \in [AS!Slots -> PidCells] /\ runningBar[0] = 0
  BY <1>1, <1>3 DEF runningBar, AS!Slots, Tasks, PidCells
<1>5. parentBar \in [PidCells -> PidCells \cup {NoPid}] /\ parentBar[0] = NoPid
  BY <1>1, <1>3 DEF parentBar
<1>6. startedBar = {0}
  BY <1>1, <1>3 DEF startedBar
<1>7. liveBar = {0}
  BY <1>2, <1>3 DEF liveBar
<1>8. QED
  BY <1>1, <1>4, <1>5, <1>6, <1>7 DEF AS!Init

(* A step that changes only descriptors from FIRST_FD up, in one PCB     *)
(* (sys_open, sys_close, an execute that fails on the ELF check), changes *)
(* no process.                                                             *)
LEMMA FdsOnlyStutter ==
    ASSUME TypeOK, NEW gp \in PidCells,
           NEW F \in [FdIdx -> FdEntry], F[0] = pcb[gp].fds[0],
           pcb' = [pcb EXCEPT ![gp].fds = F],
           UNCHANGED <<pidUsed, tasks, current>>
    PROVE  UNCHANGED AS!vars
<1>1. \A p \in PidCells : pcb'[p].parent = pcb[p].parent /\ pcb'[p].fds[0] = pcb[p].fds[0]
  BY DEF TypeOK, PcbRec
<1>2. liveBar' = liveBar
  BY <1>1 DEF liveBar, IsLive
<1>3. parentBar' = parentBar
  BY <1>1 DEF parentBar
<1>4. QED
  BY <1>2, <1>3 DEF AS!vars, runningBar, startedBar

(* A successful execute, from the caller gp's slot, of a process that     *)
(* takes the free PID np: np becomes live with the parent execute gives    *)
(* it, and no other process changes (the caller keeps its stdin and its    *)
(* parent; exec_fd, closed again, is above stdout).                        *)
LEMMA LoadedBars ==
    ASSUME TypeOK, NEW gp \in PidCells, NEW np \in PidCells, np # gp, ~pidUsed[np],
           NEW opened \in [FdIdx -> FdEntry], opened[0] = pcb[gp].fds[0],
           NEW fd \in FirstFd .. FdArraySize - 1, NEW t \in Tasks,
           pidUsed' = [pidUsed EXCEPT ![np] = TRUE],
           pcb' = LoadedPcbs(pcb, gp, opened, fd, np, t)
    PROVE  /\ np \in PidCells \ liveBar
           /\ liveBar' = liveBar \cup {np}
           /\ parentBar' = [parentBar EXCEPT ![np] = ParentPid(np, gp)]
<1>1. /\ \A p \in PidCells \ {gp, np} : pcb'[p] = pcb[p]
      /\ pcb'[np].parent = ParentPid(np, gp)
      /\ pcb'[np].fds[0].kind = "stdin"
      /\ pcb'[gp].parent = pcb[gp].parent
      /\ pcb'[gp].fds[0] = pcb[gp].fds[0]
  <2> DEFINE L == LoadedPcbs(pcb, gp, opened, fd, np, t)
  <2>1. pcb \in [PidCells -> PcbRec]
    BY DEF TypeOK
  <2>2. /\ \A p \in PidCells \ {gp, np} : L[p] = pcb[p]
        /\ L[np].parent = ParentPid(np, gp)
        /\ L[np].fds[0].kind = "stdin"
        /\ np # gp => /\ L[gp].parent = pcb[gp].parent
                      /\ L[gp].fds[0] = opened[0]
    BY <2>1, LoadedPcbsFacts
  <2>3. QED
    BY <2>2
<1>2. \A p \in PidCells : pidUsed'[p] = (p = np \/ pidUsed[p])
  BY DEF TypeOK
<1>3. \A p \in PidCells : IsLive(p)' <=> (IsLive(p) \/ p = np)
  BY <1>1, <1>2 DEF IsLive
<1>4. \A p \in PidCells \ {np} : pcb'[p].parent = pcb[p].parent
  BY <1>1
<1>5. QED
  BY <1>1, <1>3, <1>4 DEF liveBar, parentBar, IsLive

(* sys_execute by the running process is a stutter of the process stacks *)
(* when it fails, and pushes the new process onto the current slot, with  *)
(* the caller as its parent, when it succeeds.                             *)
LEMMA ExecuteRefines ==
    ASSUME IInv, AllStarted, NEW c \in Commands, Execute(c)
    PROVE  [AS!Next]_AS!vars
<1> DEFINE gp == globalPid
           np == FirstAvailablePid(pidUsed)
           fd == FreeFd(pcb[gp].fds)
           opened == ExecOpened(pcb, gp, c)
<1>1. /\ gp \in PidCells /\ pidUsed \in [PidCells -> BOOLEAN]
      /\ pcb \in [PidCells -> PcbRec]
      /\ tasks \in [Tasks -> [pid : PidCells, started : BOOLEAN]]
      /\ current \in Tasks
  BY DEF IInv, TypeOK
<1>2. /\ ExecuteFrom(c, pidUsed, pcb, tasks, gp, current,
                     UNCHANGED <<tasks, globalPid, userPage, crashed>>)
      /\ UNCHANGED current
  BY DEF Execute
<1>3. \/ /\ pidUsed' = pidUsed /\ pcb' = pcb
         /\ UNCHANGED <<tasks, globalPid, userPage, crashed>>
      \/ /\ pidUsed' = pidUsed /\ UNCHANGED <<tasks, globalPid, userPage, crashed>>
         /\ c \in FileNames \ {"missing", "prog"}
         /\ fd \in FirstFd .. FdArraySize - 1
         /\ pcb' = [pcb EXCEPT ![gp].fds = opened]
      \/ /\ np \in PidCells /\ ~pidUsed[np]
         /\ c \in FileNames \ {"missing"}
         /\ fd \in FirstFd .. FdArraySize - 1
         /\ pidUsed' = [pidUsed EXCEPT ![np] = TRUE]
         /\ pcb' = LoadedPcbs(pcb, gp, opened, fd, np, current)
         /\ tasks' = [tasks EXCEPT ![current].pid = np]
         /\ globalPid' = np /\ userPage' = np /\ crashed' = crashed
  BY <1>1, <1>2, ExecuteFromOutcome
<1>4. ASSUME c \in FileNames \ {"missing"}, fd \in FirstFd .. FdArraySize - 1
      PROVE  opened \in [FdIdx -> FdEntry] /\ opened[0] = pcb[gp].fds[0]
  <2>1. 0 \in FdIdx \ {fd}
    BY <1>4 DEF FdIdx, FirstFd
  <2>2. QED
    BY <1>1, <1>4, <2>1, ExecOpenedFacts
<1>5. CASE pidUsed' = pidUsed /\ pcb' = pcb /\ UNCHANGED tasks
  BY <1>2, <1>5 DEF AS!vars, liveBar, IsLive, parentBar, runningBar, startedBar
<1>6. CASE /\ pidUsed' = pidUsed /\ UNCHANGED tasks
           /\ c \in FileNames \ {"missing", "prog"}
           /\ fd \in FirstFd .. FdArraySize - 1
           /\ pcb' = [pcb EXCEPT ![gp].fds = opened]
  BY <1>1, <1>2, <1>4, <1>6, FdsOnlyStutter DEF IInv
<1>7. CASE /\ np \in PidCells /\ ~pidUsed[np]
           /\ c \in FileNames \ {"missing"}
           /\ fd \in FirstFd .. FdArraySize - 1
           /\ pidUsed' = [pidUsed EXCEPT ![np] = TRUE]
           /\ pcb' = LoadedPcbs(pcb, gp, opened, fd, np, current)
           /\ tasks' = [tasks EXCEPT ![current].pid = np]
  <2>1. Proc(gp) /\ gp = tasks[current].pid /\ np # gp
    BY <1>7, RunningLive DEF IInv, Proc
  <2>2. np \notin Tasks
    BY <1>7 DEF IInv, AllStarted, Proc
  <2>3. ParentPid(np, gp) = gp
    BY <1>7, <2>2 DEF ParentPid, Tasks, PidCells
  <2>4. /\ np \in PidCells \ liveBar
        /\ liveBar' = liveBar \cup {np}
        /\ parentBar' = [parentBar EXCEPT ![np] = gp]
    <3>1. TypeOK /\ opened \in [FdIdx -> FdEntry] /\ opened[0] = pcb[gp].fds[0]
      BY <1>4, <1>7 DEF IInv
    <3>2. /\ np \in PidCells \ liveBar
          /\ liveBar' = liveBar \cup {np}
          /\ parentBar' = [parentBar EXCEPT ![np] = ParentPid(np, gp)]
      BY <1>1, <1>7, <2>1, <3>1, LoadedBars
    <3>3. QED
      BY <2>3, <3>2
  <2>5. runningBar' = [runningBar EXCEPT ![current] = np] /\ runningBar[current] = gp
    BY <1>1, <1>7, <2>1 DEF runningBar
  <2>6. startedBar' = startedBar
    BY <1>1, <1>7 DEF startedBar
  <2>7. AS!Spawn(np)
    BY <1>2, <2>4, <2>5, <2>6 DEF AS!Spawn
  <2>8. QED
    BY <1>7, <2>7 DEF AS!Next
<1>8. QED
  BY <1>3, <1>5, <1>6, <1>7

(* sys_open and sys_close fill or clear a descriptor at FIRST_FD or above: *)
(* no process changes.                                                     *)
LEMMA OpenCloseStutter ==
    ASSUME IInv,
           \/ \E n \in FileNames : Open(n)
           \/ \E fd \in FirstFd .. FdArraySize - 1 : Close(fd)
    PROVE  UNCHANGED AS!vars
<1>1. globalPid \in PidCells /\ pcb[globalPid].fds \in [FdIdx -> FdEntry] /\ TypeOK
  BY DEF IInv, TypeOK, PcbRec
<1>2. CASE \E n \in FileNames : Open(n)
  <2>1. PICK n \in FileNames : Open(n)
    BY <1>2
  <2> DEFINE fds == pcb[globalPid].fds
             fd == FreeFd(fds)
             F == [fds EXCEPT ![fd] = OpenedEntry(fds, fd, n)]
  <2>2. fd \in FirstFd .. FdArraySize - 1 /\ n # "missing"
    BY <1>1, <2>1, FreeFdType DEF Open
  <2>3. fd \in FdIdx /\ fd # 0
    BY <2>2 DEF FdIdx, FirstFd
  <2>4. OpenedEntry(fds, fd, n) \in FdEntry
    BY <1>1, <2>2, <2>3, OpenedEntryType
  <2>5. F \in [FdIdx -> FdEntry] /\ F[0] = fds[0]
    BY <1>1, <2>3, <2>4 DEF FdIdx
  <2>6. QED
    BY <1>1, <2>1, <2>5, FdsOnlyStutter DEF Open
<1>3. CASE \E fd \in FirstFd .. FdArraySize - 1 : Close(fd)
  <2>1. PICK fd \in FirstFd .. FdArraySize - 1 : Close(fd)
    BY <1>3
  <2> DEFINE F == ClosedFd(pcb[globalPid].fds, fd)
  <2>2. fd \in FdIdx /\ fd # 0
    BY DEF FdIdx, FirstFd
  <2>3. F \in [FdIdx -> FdEntry] /\ F[0] = pcb[globalPid].fds[0]
    BY <1>1, <2>2, ClosedFdType DEF ClosedFd
  <2>4. QED
    BY <1>1, <2>1, <2>3, FdsOnlyStutter DEF Close
<1>4. QED
  BY <1>2, <1>3

(* sys_halt of a process with a parent pops it off the current slot's     *)
(* stack; a root shell's halt reruns the shell in the same PID, which the  *)
(* process stacks see as the root replaced by a root with that PID.        *)
LEMMA HaltRefines ==
    ASSUME IInv, AllStarted, Halt
    PROVE  [AS!Next]_AS!vars
<1> DEFINE gp == globalPid
           par == pcb[gp].parent
<1>1. /\ Proc(gp) /\ gp \in PidCells /\ gp = tasks[current].pid
      /\ current \in Tasks /\ TypeOK
  BY RunningLive DEF IInv, TypeOK
<1>2. runningBar[current] = gp /\ parentBar[gp] = par /\ gp \in liveBar
  BY <1>1 DEF runningBar, parentBar, liveBar, IsLive, Proc
<1>3. CASE par = NoPid
  <2>1. /\ UNCHANGED <<pidUsed, tasks, current>>
        /\ \A p \in PidCells \ {gp} : pcb'[p] = pcb[p]
        /\ pcb'[gp].parent = par
        /\ pcb'[gp].fds[0].kind = "stdin"
    BY <1>3, HaltRootEffect
  <2>2. liveBar' = liveBar /\ parentBar' = parentBar
    BY <1>1, <2>1 DEF liveBar, IsLive, Proc, parentBar
  <2>3. UNCHANGED <<runningBar, startedBar>>
    BY <2>1 DEF runningBar, startedBar
  <2>4. /\ gp \in PidCells \ (liveBar \ {gp})
        /\ liveBar' = (liveBar \ {gp}) \cup {gp}
        /\ parentBar' = [parentBar EXCEPT ![gp] = NoPid]
        /\ runningBar' = [runningBar EXCEPT ![current] = gp]
    BY <1>1, <1>2, <1>3, <2>2, <2>3 DEF parentBar, runningBar
  <2>5. AS!Respawn(gp)
    BY <1>2, <1>3, <2>1, <2>3, <2>4 DEF AS!Respawn
  <2>6. QED
    BY <1>1, <2>5 DEF AS!Next
<1>4. CASE par # NoPid
  <2>1. /\ pidUsed' = [pidUsed EXCEPT ![gp] = FALSE]
        /\ pcb' = [pcb EXCEPT ![gp].fds = CloseAll(pcb[gp].fds)]
        /\ tasks' = [tasks EXCEPT ![current].pid = par]
        /\ UNCHANGED current
    BY <1>4 DEF Halt, RestoreParent
  <2>2. \A p \in PidCells : /\ pcb'[p].parent = pcb[p].parent
                            /\ pcb'[p].fds[0] = pcb[p].fds[0]
    <3>1. pcb[gp].fds \in [FdIdx -> FdEntry]
      BY <1>1 DEF TypeOK, PcbRec
    <3>2. CloseAll(pcb[gp].fds)[0] = pcb[gp].fds[0]
      BY <3>1 DEF CloseAll, FdIdx, FirstFd
    <3>3. QED
      BY <1>1, <2>1, <3>2 DEF TypeOK
  <2>3. \A p \in PidCells : pidUsed'[p] = (pidUsed[p] /\ p # gp)
    BY <1>1, <2>1 DEF TypeOK
  <2>4. liveBar' = liveBar \ {gp}
    BY <2>2, <2>3 DEF liveBar, IsLive
  <2>5. parentBar' = parentBar
    BY <2>2 DEF parentBar
  <2>6. runningBar' = [runningBar EXCEPT ![current] = par] /\ startedBar' = startedBar
    BY <1>1, <2>1 DEF runningBar, startedBar, TypeOK
  <2>7. AS!Exit
    BY <1>2, <1>4, <2>1, <2>4, <2>5, <2>6 DEF AS!Exit
  <2>8. QED
    BY <2>7 DEF AS!Next
<1>5. QED
  BY <1>3, <1>4

(* schedule() resumes a started slot (Switch) or gives the next slot its  *)
(* first shell (StartSlot).  In the second case the execute cannot fail in *)
(* a run that goes on (IInv' rules out the NULL-PCB fallthrough), and the  *)
(* PID it takes is the slot's own number, below NUM_TERMINALS, so the new  *)
(* shell has no parent.                                                    *)
LEMMA ScheduleRefines ==
    ASSUME IInv, IInv', Schedule
    PROVE  [AS!Next]_AS!vars
<1> DEFINE nt == NextTask(current)
           gp == globalPid
<1>1. TypeOK /\ current \in Tasks /\ gp \in PidCells
  BY DEF IInv, TypeOK
<1>2. nt \in Tasks /\ current' = nt /\ nt = (current + 1) % NumTasks
  BY <1>1 DEF Schedule, NextTask, Tasks
<1>3. CASE tasks[nt].started
  <2>1. UNCHANGED <<pidUsed, pcb, tasks>>
    BY <1>3 DEF Schedule
  <2>2. nt \in startedBar
    BY <1>2, <1>3 DEF startedBar
  <2>3. AS!Switch
    BY <1>2, <2>1, <2>2 DEF AS!Switch, liveBar, IsLive, parentBar, runningBar, startedBar
  <2>4. QED
    BY <2>3 DEF AS!Next
<1>4. CASE ~tasks[nt].started
  <2> DEFINE tk == [tasks EXCEPT ![nt].started = TRUE]
             np == FirstAvailablePid(pidUsed)
             fd == FreeFd(pcb[gp].fds)
             opened == ExecOpened(pcb, gp, "prog")
  <2>1. ~AllStarted
    BY <1>2, <1>4 DEF AllStarted
  <2>2. nt = current + 1 /\ gp = current
    <3>1. current + 1 \in Tasks /\ NextTask(current) = current + 1
      BY <2>1, PrefixNext
    <3>2. current \in Tasks /\ current <= current
      BY <1>1 DEF Tasks
    <3>3. QED
      BY <2>1, <3>1, <3>2 DEF IInv
  <2>3. /\ nt \in PidCells /\ ~pidUsed[nt] /\ \A m \in 0 .. nt - 1 : pidUsed[m]
        /\ nt # gp
    <3>1. \A q \in 0 .. NumProcesses - 1 : pidUsed[q] <=> q <= current
      BY <2>1 DEF IInv
    <3>2. nt \in 0 .. NumProcesses - 1 /\ \A m \in 0 .. nt - 1 : m \in 0 .. NumProcesses - 1
      BY <1>2, <2>2 DEF Tasks
    <3>3. QED
      BY <1>1, <2>2, <3>1, <3>2 DEF PidCells, Tasks
  <2>4. np = nt
    BY <1>1, <2>3, FirstAvailablePidIs DEF TypeOK
  <2>5. tk \in [Tasks -> [pid : PidCells, started : BOOLEAN]]
    BY <1>1, <1>2 DEF TypeOK
  <2>6. ExecuteFrom("prog", pidUsed, pcb, tk, gp, nt,
                    /\ tasks' = tk
                    /\ globalPid' = tasks[nt].pid
                    /\ userPage' = tasks[nt].pid
                    /\ crashed' = TRUE)
    BY <1>4 DEF Schedule
  <2>7. /\ fd \in FirstFd .. FdArraySize - 1
        /\ pidUsed' = [pidUsed EXCEPT ![np] = TRUE]
        /\ pcb' = LoadedPcbs(pcb, gp, opened, fd, np, nt)
        /\ tasks' = [tk EXCEPT ![nt].pid = np]
    <3>1. ~crashed'
      BY DEF IInv
    <3> HIDE DEF tk
    <3>2. \/ crashed' = TRUE
          \/ /\ fd \in FirstFd .. FdArraySize - 1
             /\ pidUsed' = [pidUsed EXCEPT ![np] = TRUE]
             /\ pcb' = LoadedPcbs(pcb, gp, opened, fd, np, nt)
             /\ tasks' = [tk EXCEPT ![nt].pid = np]
      BY <1>1, <1>2, <2>5, <2>6, ExecuteFromOutcome DEF TypeOK, Commands, FileNames
    <3>3. QED
      BY <3>1, <3>2
  <2>8. opened \in [FdIdx -> FdEntry] /\ opened[0] = pcb[gp].fds[0]
    <3>1. 0 \in FdIdx \ {fd} /\ "prog" \in FileNames \ {"missing"}
      BY <2>7 DEF FdIdx, FirstFd, FileNames
    <3>2. QED
      BY <1>1, <2>7, <3>1, ExecOpenedFacts DEF TypeOK
  <2>9. /\ nt \in PidCells \ liveBar
        /\ liveBar' = liveBar \cup {nt}
        /\ parentBar' = [parentBar EXCEPT ![nt] = ParentPid(nt, gp)]
    BY <1>1, <1>2, <2>3, <2>4, <2>7, <2>8, LoadedBars
  <2>10. ParentPid(nt, gp) = NoPid
    BY <1>2 DEF ParentPid, Tasks
  <2>11. /\ startedBar' = startedBar \cup {nt}
         /\ runningBar' = [runningBar EXCEPT ![nt] = nt]
    BY <1>1, <1>2, <2>4, <2>7 DEF TypeOK, startedBar, runningBar
  <2>12. nt \notin startedBar
    BY <1>4 DEF startedBar
  <2>13. AS!StartSlot(nt)
    BY <1>2, <2>9, <2>10, <2>11, <2>12 DEF AS!StartSlot
  <2>14. QED
    BY <2>3, <2>13 DEF AS!Next
<1>5. QED
  BY <1>3, <1>4

(* Every kernel step between two states of the invariant is a step of the *)
(* process stacks or leaves them as they are.                              *)
LEMMA NextRefines ==
    ASSUME ~StartupRace, IInv, IInv', [Next]_vars
    PROVE  [AS!Next]_AS!vars
<1>1. UserMayCall => AllStarted
  BY DEF UserMayCall, AllStarted
<1>2. CASE \E c \in Commands : Execute(c)
  <2>1. PICK c \in Commands : Execute(c)
    BY <1>2
  <2>2. QED
    BY <1>1, <2>1, ExecuteRefines DEF Execute
<1>3. CASE Halt
  BY <1>1, <1>3, HaltRefines DEF Halt
<1>4. CASE \/ \E n \in FileNames : Open(n)
           \/ \E fd \in FirstFd .. FdArraySize - 1 : Close(fd)
  BY <1>4, OpenCloseStutter
<1>5. CASE Schedule
  BY <1>5, ScheduleRefines
<1>6. CASE UNCHANGED vars
  BY <1>6 DEF vars, AS!vars, liveBar, IsLive, parentBar, runningBar, startedBar
<1>7. QED
  BY <1>2, <1>3, <1>4, <1>5, <1>6 DEF Next

(* Refinement: when user code waits for the scheduler to start every     *)
(* slot, every behaviour of execute, halt, open, close and schedule is a   *)
(* behaviour of per-slot process stacks: a new process always takes a PID  *)
(* no live process holds, halt resumes the parent in the same slot, and    *)
(* the tick starts the slots in order.                                     *)
THEOREM KernelRefines ==
    ASSUME ~StartupRace
    PROVE  Spec => Refinement
<1>1. Init => AS!Init
  BY InitRefines
<1>2. IInv /\ IInv' /\ [Next]_vars => [AS!Next]_AS!vars
  BY NextRefines
<1>3. Spec => []IInv
  BY IInvHolds
<1>4. QED
  BY <1>1, <1>2, <1>3, PTL DEF Spec, Refinement, AS!Spec
====
