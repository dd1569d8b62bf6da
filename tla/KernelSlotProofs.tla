--------------------------- MODULE KernelSlotProofs ---------------------------
(***************************************************************************)
(* Every process stays with its slot's terminal: the PCB of each slot's    *)
(* running process names that slot's terminal (SlotTerminal), and a        *)
(* process and its parent name the same one (ParentInSameSlot), for every *)
(* value of the constants, when user code waits for the scheduler.  The    *)
(* startup_race run shows that ParentInSameSlot fails without that timing. *)
(***************************************************************************)
EXTENDS KernelInvProofs

USE NumTasksAssumption, NumProcessesAssumption, FdArraySizeAssumption,
    StartupRaceAssumption

(* A root PID (below NUM_TERMINALS) in use names its own terminal.         *)
RootTerminal == \A p \in Tasks : pidUsed[p] => pcb[p].task = p

(* A cell taken without a process (the word past pid_availability) keeps  *)
(* the PCB area boot left: parent_pid 0, terminal 0.                       *)
IdleCell == \A p \in PidCells : pidUsed[p] /\ ~Proc(p) => pcb[p].parent = 0 /\ pcb[p].task = 0

Extra == SlotTerminal /\ ParentInSameSlot /\ RootTerminal /\ IdleCell

(* The inductive invariant.                                                *)
SInv == IInv /\ Extra

(* A step leaves cell p's use, process, parent and terminal alone.         *)
Keeps(p) ==
    /\ pidUsed'[p] = pidUsed[p]
    /\ Proc(p)' <=> Proc(p)
    /\ pcb'[p].parent = pcb[p].parent
    /\ pcb'[p].task = pcb[p].task

-----------------------------------------------------------------------------
(* PID 0, slot 0's root shell, is always a live process.                    *)
LEMMA ProcZero ==
    ASSUME IInv
    PROVE  Proc(0)
<1>1. 0 \in Tasks /\ current \in Tasks
  BY DEF IInv, TypeOK, Tasks
<1>2. CASE AllStarted
  BY <1>1, <1>2 DEF IInv
<1>3. CASE ~AllStarted
  <2>1. tasks[0].started /\ tasks[0].pid = 0
    BY <1>1, <1>3 DEF IInv, Tasks
  <2>2. 0 \in Started
    BY <1>1, <2>1 DEF Started
  <2>3. QED
    BY <2>1, <2>2 DEF IInv
<1>4. QED
  BY <1>2, <1>3

(* The parent of a cell in use is a cell in use.                            *)
LEMMA UsedParentUsed ==
    ASSUME SInv, NEW p \in PidCells, pidUsed[p], pcb[p].parent # NoPid
    PROVE  pcb[p].parent \in PidCells /\ pidUsed[pcb[p].parent]
<1>1. CASE Proc(p)
  <2>1. pcb[p].parent \in PidCells \cup {NoPid}
    BY DEF SInv, IInv, TypeOK, PcbRec
  <2>2. Proc(pcb[p].parent)
    BY <1>1 DEF SInv, IInv
  <2>3. QED
    BY <2>1, <2>2 DEF Proc
<1>2. CASE ~Proc(p)
  <2>1. pcb[p].parent = 0
    BY <1>2 DEF SInv, Extra, IdleCell
  <2>2. Proc(0)
    BY ProcZero DEF SInv
  <2>3. QED
    BY <2>1, <2>2 DEF Proc, PidCells
<1>3. QED
  BY <1>1, <1>2

(* A step that keeps every cell and the task table keeps the invariant's  *)
(* extra conjuncts.                                                        *)
LEMMA ShapeStep ==
    ASSUME TypeOK, Extra, \A p \in PidCells : Keeps(p), tasks' = tasks
    PROVE  Extra'
<1>1. Tasks \subseteq PidCells
  BY DEF Tasks, PidCells
<1>2. SlotTerminal'
  BY <1>1 DEF Extra, SlotTerminal, Keeps, Started, TypeOK
<1>3. ParentInSameSlot'
  BY DEF Extra, ParentInSameSlot, Keeps, TypeOK, PcbRec
<1>4. RootTerminal'
  BY <1>1 DEF Extra, RootTerminal, Keeps
<1>5. IdleCell'
  BY DEF Extra, IdleCell, Keeps
<1>6. QED
  BY <1>2, <1>3, <1>4, <1>5 DEF Extra

(* Rewriting one PCB's descriptors above stdin keeps every cell.           *)
LEMMA FdsOnlyKeeps ==
    ASSUME TypeOK, NEW gp \in PidCells, NEW F \in [FdIdx -> FdEntry],
           F[0] = pcb[gp].fds[0], pcb' = [pcb EXCEPT ![gp].fds = F],
           pidUsed' = pidUsed
    PROVE  \A p \in PidCells : Keeps(p)
BY DEF TypeOK, PcbRec, Keeps, Proc

(* A step that gives the free cell np a process in slot s, whose parent   *)
(* is none or a process of slot s, and puts it on top of slot s.           *)
LEMMA NewCellStep ==
    ASSUME SInv, TypeOK', NEW np \in PidCells, ~pidUsed[np], NEW s \in Tasks,
           \A p \in PidCells \ {np} : Keeps(p),
           pidUsed'[np], Proc(np)', pcb'[np].task = s,
           \/ pcb'[np].parent = NoPid
           \/ /\ pcb'[np].parent \in PidCells /\ pidUsed[pcb'[np].parent]
              /\ pcb[pcb'[np].parent].task = s,
           np \in Tasks => np = s,
           \A t \in Tasks \ {s} : tasks'[t] = tasks[t],
           tasks'[s].pid = np, tasks'[s].started
    PROVE  Extra'
<1>1. TypeOK /\ Tasks \subseteq PidCells
  BY DEF SInv, IInv, Tasks, PidCells
<1>2. SlotTerminal'
  <2> SUFFICES ASSUME NEW t \in Tasks, tasks'[t].started
               PROVE  pcb'[tasks'[t].pid].task = t
    BY DEF SlotTerminal, Started
  <2>1. CASE t = s
    BY <2>1
  <2>2. CASE t # s
    <3>1. tasks'[t] = tasks[t] /\ t \in Started
      BY <2>2 DEF Started
    <3>2. Proc(tasks[t].pid) /\ pcb[tasks[t].pid].task = t
      BY <3>1 DEF SInv, IInv, Extra, SlotTerminal
    <3>3. tasks[t].pid \in PidCells /\ tasks[t].pid # np
      BY <1>1, <3>2 DEF TypeOK, Proc
    <3>4. QED
      BY <3>1, <3>2, <3>3 DEF Keeps
  <2>3. QED
    BY <2>1, <2>2
<1>3. ParentInSameSlot'
  <2> SUFFICES ASSUME NEW p \in PidCells, pidUsed'[p], pcb'[p].parent # NoPid
               PROVE  pcb'[pcb'[p].parent].task = pcb'[p].task
    BY DEF ParentInSameSlot
  <2>1. CASE p = np
    <3>1. pcb'[np].parent \in PidCells /\ pidUsed[pcb'[np].parent]
          /\ pcb[pcb'[np].parent].task = s
      BY <2>1
    <3>2. pcb'[np].parent # np
      BY <3>1
    <3>3. QED
      BY <2>1, <3>1, <3>2 DEF Keeps
  <2>2. CASE p # np
    <3>1. pidUsed[p] /\ pcb[p].parent # NoPid /\ pcb'[p].parent = pcb[p].parent
          /\ pcb'[p].task = pcb[p].task
      BY <2>2 DEF Keeps
    <3>2. pcb[p].parent \in PidCells /\ pidUsed[pcb[p].parent]
      BY <3>1, UsedParentUsed
    <3>3. pcb[p].parent # np
      BY <3>2
    <3>4. pcb[pcb[p].parent].task = pcb[p].task
      BY <3>1 DEF SInv, Extra, ParentInSameSlot
    <3>5. QED
      BY <3>1, <3>2, <3>3, <3>4 DEF Keeps
  <2>3. QED
    BY <2>1, <2>2
<1>4. RootTerminal'
  <2> SUFFICES ASSUME NEW p \in Tasks, pidUsed'[p]
               PROVE  pcb'[p].task = p
    BY DEF RootTerminal
  <2>1. CASE p = np
    BY <2>1
  <2>2. CASE p # np
    BY <1>1, <2>2 DEF Keeps, SInv, Extra, RootTerminal
  <2>3. QED
    BY <2>1, <2>2
<1>5. IdleCell'
  <2> SUFFICES ASSUME NEW p \in PidCells, pidUsed'[p], ~Proc(p)'
               PROVE  pcb'[p].parent = 0 /\ pcb'[p].task = 0
    BY DEF IdleCell
  <2>1. p # np
    OBVIOUS
  <2>2. QED
    BY <2>1 DEF Keeps, SInv, Extra, IdleCell
<1>6. QED
  BY <1>2, <1>3, <1>4, <1>5 DEF Extra
-----------------------------------------------------------------------------
(* sys_execute's success: the new PID np runs in the caller's slot, with  *)
(* the caller as parent and the caller's terminal.                         *)
LEMMA ExecSuccessExtra ==
    ASSUME SInv, AllStarted, TypeOK',
           NEW np \in PidCells, ~pidUsed[np],
           NEW opened \in [FdIdx -> FdEntry], opened[0] = pcb[globalPid].fds[0],
           NEW fd \in FirstFd .. FdArraySize - 1,
           pidUsed' = [pidUsed EXCEPT ![np] = TRUE],
           pcb' = LoadedPcbs(pcb, globalPid, opened, fd, np, current),
           tasks' = [tasks EXCEPT ![current].pid = np]
    PROVE  Extra'
<1> DEFINE gp == globalPid
<1>1. /\ Proc(gp) /\ pidUsed[gp] /\ current \in Started
      /\ gp \in PidCells /\ gp = tasks[current].pid /\ np # gp
      /\ current \in Tasks /\ pcb \in [PidCells -> PcbRec]
  BY RunningLive DEF SInv, IInv, TypeOK
<1>2. np \notin Tasks
  BY DEF SInv, IInv, AllStarted, Proc
<1>3. ParentPid(np, gp) = gp
  BY <1>2 DEF ParentPid, Tasks, PidCells
<1>4. /\ \A p \in PidCells \ {gp, np} : pcb'[p] = pcb[p]
      /\ pcb'[np].parent = gp
      /\ pcb'[np].fds[0].kind = "stdin"
      /\ pcb'[np].task = current
      /\ pcb'[gp].parent = pcb[gp].parent
      /\ pcb'[gp].fds[0] = pcb[gp].fds[0]
      /\ pcb'[gp].task = pcb[gp].task
  <2> DEFINE L == LoadedPcbs(pcb, gp, opened, fd, np, current)
  <2>1. /\ \A p \in PidCells \ {gp, np} : L[p] = pcb[p]
        /\ L[np].parent = ParentPid(np, gp)
        /\ L[np].fds[0].kind = "stdin"
        /\ np # gp => /\ L[gp].parent = pcb[gp].parent
                      /\ L[gp].fds[0] = opened[0]
    BY <1>1, LoadedPcbsFacts
  <2>2. L[np].task = current /\ L[gp].task = pcb[gp].task
    BY <1>1, LoadedPcbsTask
  <2>3. QED
    BY <1>1, <1>3, <2>1, <2>2
<1>5. \A p \in PidCells \ {np} : Keeps(p)
  BY <1>1, <1>4 DEF Keeps, Proc, SInv, IInv, TypeOK
<1>6. pidUsed'[np] /\ Proc(np)'
  BY <1>4 DEF Proc, SInv, IInv, TypeOK
<1>7. /\ pcb'[np].parent \in PidCells /\ pidUsed[pcb'[np].parent]
      /\ pcb[pcb'[np].parent].task = current
  BY <1>1, <1>4 DEF SInv, Extra, SlotTerminal
<1>8. /\ tasks'[current].pid = np /\ tasks'[current].started
      /\ \A t \in Tasks \ {current} : tasks'[t] = tasks[t]
  BY <1>1 DEF SInv, IInv, TypeOK, Started
<1>9. QED
  BY <1>1, <1>2, <1>4, <1>5, <1>6, <1>7, <1>8, NewCellStep

(* sys_halt of a process with a parent: its PID is freed and the parent,  *)
(* a process of the same slot that nothing else names as parent, runs on. *)
LEMMA HaltChildExtra ==
    ASSUME SInv, AllStarted,
           pcb[globalPid].parent # NoPid,
           pidUsed' = [pidUsed EXCEPT ![globalPid] = FALSE],
           pcb' = [pcb EXCEPT ![globalPid].fds = CloseAll(pcb[globalPid].fds)],
           tasks' = [tasks EXCEPT ![current].pid = pcb[globalPid].parent]
    PROVE  Extra'
<1> DEFINE gp == globalPid
           par == pcb[gp].parent
<1>1. /\ Proc(gp) /\ pidUsed[gp] /\ current \in Started
      /\ gp \in PidCells /\ gp = tasks[current].pid
      /\ TypeOK /\ current \in Tasks
  BY RunningLive DEF SInv, IInv, TypeOK
<1>2. /\ par \in PidCells /\ par # gp /\ gp \notin Tasks
  <2>1. par \in PidCells
    BY <1>1 DEF TypeOK, PcbRec
  <2>2. par # gp
    BY <1>1 DEF SInv, IInv
  <2>3. ~(gp < NumTasks)
    BY <1>1 DEF SInv, IInv
  <2>4. QED
    BY <2>1, <2>2, <2>3 DEF Tasks
<1>3. \A p \in PidCells \ {gp} : Keeps(p)
  <2>1. CloseAll(pcb[gp].fds)[0] = pcb[gp].fds[0]
    BY <1>1 DEF TypeOK, PcbRec, CloseAll, FdIdx, FirstFd
  <2>2. QED
    BY <1>1 DEF Keeps, Proc, TypeOK
<1>4. pcb[par].task = current
  BY <1>1 DEF SInv, Extra, SlotTerminal, ParentInSameSlot
<1>5. \A q \in PidCells : pidUsed[q] /\ pcb[q].parent # NoPid => pcb[q].parent # gp
  <2> SUFFICES ASSUME NEW q \in PidCells, pidUsed[q], pcb[q].parent # NoPid
               PROVE  pcb[q].parent # gp
    OBVIOUS
  <2>1. CASE Proc(q)
    BY <1>1, <2>1 DEF SInv, IInv
  <2>2. CASE ~Proc(q)
    <3>1. pcb[q].parent = 0
      BY <2>2 DEF SInv, Extra, IdleCell
    <3>2. 0 \in Tasks
      BY DEF Tasks
    <3>3. QED
      BY <1>2, <3>1, <3>2
  <2>3. QED
    BY <2>1, <2>2
<1>6. /\ \A t \in Tasks : tasks'[t].started = tasks[t].started
      /\ tasks'[current].pid = par
      /\ \A t \in Tasks \ {current} : tasks'[t] = tasks[t]
  BY <1>1 DEF TypeOK
<1>7. \A t \in Started \ {current} : tasks[t].pid # gp /\ tasks[t].pid \in PidCells
  BY <1>1 DEF SInv, IInv, TypeOK, Started
<1>8. ~pidUsed'[gp]
  BY <1>1 DEF TypeOK
<1>9. SlotTerminal'
  <2> SUFFICES ASSUME NEW t \in Tasks, tasks'[t].started
               PROVE  pcb'[tasks'[t].pid].task = t
    BY DEF SlotTerminal, Started
  <2>1. t \in Started
    BY <1>6 DEF Started
  <2>2. CASE t = current
    BY <1>2, <1>3, <1>4, <1>6, <2>2 DEF Keeps
  <2>3. CASE t # current
    BY <1>3, <1>6, <1>7, <2>1, <2>3 DEF Keeps, SInv, Extra, SlotTerminal
  <2>4. QED
    BY <2>2, <2>3
<1>10. ParentInSameSlot'
  <2> SUFFICES ASSUME NEW p \in PidCells, pidUsed'[p], pcb'[p].parent # NoPid
               PROVE  pcb'[pcb'[p].parent].task = pcb'[p].task
    BY DEF ParentInSameSlot
  <2>1. p # gp
    BY <1>8
  <2>2. pidUsed[p] /\ pcb[p].parent # NoPid /\ pcb'[p].parent = pcb[p].parent
        /\ pcb'[p].task = pcb[p].task
    BY <1>3, <2>1 DEF Keeps
  <2>3. pcb[p].parent \in PidCells /\ pcb[p].parent # gp
    BY <1>5, <2>2, UsedParentUsed
  <2>4. pcb'[pcb[p].parent].task = pcb[pcb[p].parent].task
    BY <1>3, <2>3 DEF Keeps
  <2>5. QED
    BY <2>2, <2>4 DEF SInv, Extra, ParentInSameSlot
<1>11. RootTerminal'
  BY <1>2, <1>3 DEF Keeps, SInv, Extra, RootTerminal, Tasks, PidCells
<1>12. IdleCell'
  BY <1>3, <1>8 DEF Keeps, SInv, Extra, IdleCell
<1>13. QED
  BY <1>9, <1>10, <1>11, <1>12 DEF Extra
(* sys_halt of a slot's root shell: the same PID is executed again in    *)
(* place, with the same slot.                                              *)
LEMMA HaltExtra ==
    ASSUME SInv, AllStarted, Halt
    PROVE  Extra'
<1> DEFINE gp == globalPid
           par == pcb[gp].parent
<1>1. /\ Proc(gp) /\ current \in Started /\ gp = tasks[current].pid
      /\ TypeOK /\ TypeOK'
  BY RunningLive, NextTypeOK DEF SInv, IInv, Next
<1>2. /\ \/ par = NoPid
         \/ /\ par # NoPid
            /\ pidUsed' = [pidUsed EXCEPT ![gp] = FALSE]
            /\ pcb' = [pcb EXCEPT ![gp].fds = CloseAll(pcb[gp].fds)]
            /\ tasks' = [tasks EXCEPT ![current].pid = par]
  BY DEF Halt, RestoreParent
<1>3. CASE par = NoPid
  <2>1. /\ UNCHANGED <<pidUsed, tasks>>
        /\ \A p \in PidCells \ {gp} : pcb'[p] = pcb[p]
        /\ pcb'[gp].parent = pcb[gp].parent
        /\ pcb'[gp].fds[0].kind = "stdin"
        /\ pcb'[gp].task = current
    BY <1>3, HaltRootEffect DEF SInv
  <2>2. pcb[gp].task = current
    BY <1>1 DEF SInv, Extra, SlotTerminal
  <2>3. \A p \in PidCells : Keeps(p)
    BY <1>1, <2>1, <2>2 DEF Keeps, Proc
  <2>4. QED
    BY <1>1, <2>1, <2>3, ShapeStep DEF SInv
<1>4. CASE par # NoPid
  BY <1>2, <1>4, HaltChildExtra
<1>5. QED
  BY <1>3, <1>4

(* sys_open and sys_close change only descriptors above stdout.            *)
LEMMA OpenExtra ==
    ASSUME SInv, NEW name \in FileNames, Open(name)
    PROVE  Extra'
<1> DEFINE fds == pcb[globalPid].fds
           fd == FreeFd(fds)
           F == [fds EXCEPT ![fd] = OpenedEntry(fds, fd, name)]
<1>1. TypeOK /\ globalPid \in PidCells /\ fds \in [FdIdx -> FdEntry]
  BY DEF SInv, IInv, TypeOK, PcbRec
<1>2. fd \in FirstFd .. FdArraySize - 1 /\ name # "missing"
  BY <1>1, FreeFdType DEF Open
<1>3. F \in [FdIdx -> FdEntry] /\ F[0] = fds[0]
  <2>1. fd \in FdIdx /\ fd # 0
    BY <1>2 DEF FdIdx, FirstFd
  <2>2. OpenedEntry(fds, fd, name) \in FdEntry
    BY <1>1, <1>2, <2>1, OpenedEntryType
  <2>3. QED
    BY <1>1, <2>1, <2>2 DEF FdIdx
<1>4. pcb' = [pcb EXCEPT ![globalPid].fds = F] /\ pidUsed' = pidUsed /\ tasks' = tasks
  BY DEF Open
<1>5. QED
  BY <1>1, <1>3, <1>4, FdsOnlyKeeps, ShapeStep DEF SInv

LEMMA CloseExtra ==
    ASSUME SInv, NEW fd \in FirstFd .. FdArraySize - 1, Close(fd)
    PROVE  Extra'
<1> DEFINE F == ClosedFd(pcb[globalPid].fds, fd)
<1>1. TypeOK /\ globalPid \in PidCells /\ pcb[globalPid].fds \in [FdIdx -> FdEntry]
  BY DEF SInv, IInv, TypeOK, PcbRec
<1>2. fd \in FdIdx /\ fd # 0
  BY DEF FdIdx, FirstFd
<1>3. F \in [FdIdx -> FdEntry] /\ F[0] = pcb[globalPid].fds[0]
  BY <1>1, <1>2, ClosedFdType DEF ClosedFd
<1>4. pcb' = [pcb EXCEPT ![globalPid].fds = F] /\ pidUsed' = pidUsed /\ tasks' = tasks
  BY DEF Close
<1>5. QED
  BY <1>1, <1>3, <1>4, FdsOnlyKeeps, ShapeStep DEF SInv

(* sys_execute: a failure leaves every cell alone (the bad-magic path     *)
(* leaves exec_fd open in the caller); a success starts a child.           *)
LEMMA ExecuteExtra ==
    ASSUME SInv, AllStarted, NEW c \in Commands, Execute(c)
    PROVE  Extra'
<1> DEFINE gp == globalPid
           np == FirstAvailablePid(pidUsed)
           fd == FreeFd(pcb[gp].fds)
           opened == ExecOpened(pcb, gp, c)
<1>1. /\ gp \in PidCells /\ pidUsed \in [PidCells -> BOOLEAN]
      /\ pcb \in [PidCells -> PcbRec]
      /\ tasks \in [Tasks -> [pid : PidCells, started : BOOLEAN]]
      /\ current \in Tasks /\ TypeOK
  BY DEF SInv, IInv, TypeOK
<1>2. ExecuteFrom(c, pidUsed, pcb, tasks, gp, current,
                  UNCHANGED <<tasks, globalPid, userPage, crashed>>)
  BY DEF Execute
<1>3. \/ /\ pidUsed' = pidUsed /\ pcb' = pcb
         /\ UNCHANGED <<tasks, globalPid, userPage, crashed>>
      \/ /\ pidUsed' = pidUsed /\ UNCHANGED <<tasks, globalPid, userPage, crashed>>
         /\ c \in FileNames \ {"missing", "prog"}
         /\ fd \in FirstFd .. FdArraySize - 1
         /\ pcb' = [pcb EXCEPT ![gp].fds = opened]
      \/ /\ np \in PidCells /\ ~pidUsed[np]
         /\ c \in FileNames \ {"missing"}
         /\ fd \in FirstFd .. FdArraySize - 1
         /\ pidUsed' = [pidUsed EXCEPT ![np] = TRUE]
         /\ pcb' = LoadedPcbs(pcb, gp, opened, fd, np, current)
         /\ tasks' = [tasks EXCEPT ![current].pid = np]
         /\ globalPid' = np /\ userPage' = np /\ crashed' = crashed
  BY <1>1, <1>2, ExecuteFromOutcome
<1>4. ASSUME c \in FileNames \ {"missing"}, fd \in FirstFd .. FdArraySize - 1
      PROVE  opened \in [FdIdx -> FdEntry] /\ opened[0] = pcb[gp].fds[0]
  <2>1. 0 \in FdIdx \ {fd}
    BY <1>4 DEF FdIdx, FirstFd
  <2>2. QED
    BY <1>1, <1>4, <2>1, ExecOpenedFacts
<1>5. TypeOK'
  BY NextTypeOK DEF SInv, IInv, Next
<1>6. CASE /\ pidUsed' = pidUsed /\ pcb' = pcb
           /\ UNCHANGED <<tasks, globalPid, userPage, crashed>>
  <2>1. \A p \in PidCells : Keeps(p)
    BY <1>6 DEF Keeps, Proc
  <2>2. QED
    BY <1>1, <1>6, <2>1, ShapeStep DEF SInv
<1>7. CASE /\ pidUsed' = pidUsed /\ UNCHANGED <<tasks, globalPid, userPage, crashed>>
           /\ c \in FileNames \ {"missing", "prog"}
           /\ fd \in FirstFd .. FdArraySize - 1
           /\ pcb' = [pcb EXCEPT ![gp].fds = opened]
  BY <1>1, <1>4, <1>7, FdsOnlyKeeps, ShapeStep DEF SInv
<1>8. CASE /\ np \in PidCells /\ ~pidUsed[np]
           /\ c \in FileNames \ {"missing"}
           /\ fd \in FirstFd .. FdArraySize - 1
           /\ pidUsed' = [pidUsed EXCEPT ![np] = TRUE]
           /\ pcb' = LoadedPcbs(pcb, gp, opened, fd, np, current)
           /\ tasks' = [tasks EXCEPT ![current].pid = np]
           /\ globalPid' = np /\ userPage' = np /\ crashed' = crashed
  <2> HIDE DEF opened, np, fd
  <2>1. QED
    BY <1>4, <1>5, <1>8, ExecSuccessExtra
<1>9. QED
  BY <1>3, <1>6, <1>7, <1>8

(* schedule(): resuming a started slot changes no PCB; starting the next  *)
(* slot gives PID current_task + 1 to slot current_task + 1, as its root. *)
LEMMA ScheduleExtra ==
    ASSUME SInv, Schedule
    PROVE  IInv' /\ Extra'
<1>1. CASE AllStarted
  <2>1. NextTask(current) \in Tasks
    <3>1. current + 1 \in Nat
      BY DEF SInv, IInv, TypeOK, Tasks
    <3>2. QED
      BY <3>1 DEF NextTask, Tasks
  <2>2. tasks[NextTask(current)].started
    BY <1>1, <2>1 DEF AllStarted
  <2>3. UNCHANGED <<pidUsed, pcb, tasks>>
    BY <2>2 DEF Schedule
  <2>4. \A p \in PidCells : Keeps(p)
    BY <2>3 DEF Keeps, Proc
  <2>5. IInv'
    BY ScheduleIInv DEF SInv
  <2>6. QED
    BY <2>3, <2>4, <2>5, ShapeStep DEF SInv, IInv
<1>2. CASE ~AllStarted
  <2>0. PICK nt : nt = current + 1
    OBVIOUS
  <2>1. /\ IInv'
        /\ nt \in Tasks /\ ~pidUsed[nt] /\ pidUsed'[nt] /\ Proc(nt)'
        /\ pcb'[nt].parent = NoPid /\ pcb'[nt].task = nt
        /\ \A p \in PidCells \ {nt} :
              /\ pidUsed'[p] = pidUsed[p] /\ (Proc(p)' <=> Proc(p))
              /\ pcb'[p].parent = pcb[p].parent /\ pcb'[p].task = pcb[p].task
        /\ tasks'[nt].pid = nt /\ tasks'[nt].started
        /\ \A t \in Tasks \ {nt} : tasks'[t] = tasks[t]
    BY <1>2, <2>0, LazyStartStep DEF SInv
  <2>2. nt \in PidCells
    BY <2>1 DEF Tasks, PidCells
  <2>3. \A p \in PidCells \ {nt} : Keeps(p)
    BY <2>1 DEF Keeps
  <2>4. TypeOK'
    BY <2>1 DEF IInv
  <2>5. Extra'
    BY <2>1, <2>2, <2>3, <2>4, NewCellStep
  <2>6. QED
    BY <2>1, <2>5
<1>3. QED
  BY <1>1, <1>2
-----------------------------------------------------------------------------
(* At boot only PID 0 (and perhaps the word past the table) is taken, and *)
(* every PCB names terminal 0.                                             *)
LEMMA InitSInv == Init => SInv
<1> SUFFICES ASSUME Init PROVE SInv
  OBVIOUS
<1>0. IInv /\ Proc(0)
  BY InitIInv, ProcZero
<1>1. PICK oob \in BOOLEAN, inode0 \in Inodes :
        /\ pidUsed = [p \in PidCells |-> IF p = NumProcesses THEN oob ELSE p = 0]
        /\ pcb = [p \in PidCells |->
                    [parent |-> IF p = 0 THEN NoPid ELSE 0, task |-> 0,
                     fds |-> IF p = 0
                             THEN StdFds(BlankFds(inode0))
                             ELSE BlankFds(inode0)]]
        /\ tasks = [t \in Tasks |-> [pid |-> 0, started |-> t = 0]]
  BY DEF Init
<1>2. \A p \in PidCells : pcb[p].task = 0 /\ pcb[p].parent = IF p = 0 THEN NoPid ELSE 0
  BY <1>1
<1>3. \A p \in PidCells : pidUsed[p] => p = 0 \/ p = NumProcesses
  BY <1>1
<1>4. NumProcesses \notin Tasks /\ 0 \in Tasks /\ 0 \in PidCells
  BY DEF Tasks, PidCells
<1>5. \A t \in Started : t = 0 /\ tasks[t].pid = 0
  BY <1>1 DEF Started
<1>6. SlotTerminal
  BY <1>2, <1>4, <1>5 DEF SlotTerminal
<1>7. ParentInSameSlot
  BY <1>2, <1>4 DEF ParentInSameSlot
<1>8. RootTerminal
  BY <1>2, <1>3, <1>4 DEF RootTerminal, Tasks, PidCells
<1>9. IdleCell
  BY <1>0, <1>2 DEF IdleCell
<1>10. QED
  BY <1>0, <1>6, <1>7, <1>8, <1>9 DEF SInv, Extra

(* Without the start-up race every kernel step keeps the invariant.        *)
LEMMA NextSInv ==
    ASSUME ~StartupRace, SInv, [Next]_vars
    PROVE  SInv'
<1>1. IInv'
  BY NextIInv DEF SInv
<1>2. UserMayCall => AllStarted
  BY DEF UserMayCall, AllStarted
<1>3. CASE \E c \in Commands : Execute(c)
  <2>1. PICK c \in Commands : Execute(c)
    BY <1>3
  <2>2. AllStarted
    BY <1>2, <2>1 DEF Execute
  <2>3. QED
    BY <1>1, <2>1, <2>2, ExecuteExtra DEF SInv
<1>4. CASE Halt
  BY <1>1, <1>2, <1>4, HaltExtra DEF Halt, SInv
<1>5. CASE \E n \in FileNames : Open(n)
  BY <1>1, <1>5, OpenExtra DEF SInv
<1>6. CASE \E fd \in FirstFd .. FdArraySize - 1 : Close(fd)
  BY <1>1, <1>6, CloseExtra DEF SInv
<1>7. CASE Schedule
  BY <1>7, ScheduleExtra DEF SInv
<1>8. CASE UNCHANGED vars
  <2>1. \A p \in PidCells : Keeps(p)
    BY <1>8 DEF vars, Keeps, Proc
  <2>2. QED
    BY <1>1, <1>8, <2>1, ShapeStep DEF vars, SInv, IInv
<1>9. QED
  BY <1>3, <1>4, <1>5, <1>6, <1>7, <1>8 DEF Next

-----------------------------------------------------------------------------
(* Spec 4.2 step 2: every process's parent_pid names a process of its own *)
(* slot, so sys_halt (sys_call.c:113) always hands the slot back to a      *)
(* process of the same terminal, for any number of slots and PIDs, when    *)
(* user code waits for the scheduler.                                      *)
THEOREM ParentInSameSlotHolds ==
    ASSUME ~StartupRace
    PROVE  Spec => []ParentInSameSlot
<1>1. Init => SInv
  BY InitSInv
<1>2. SInv /\ [Next]_vars => SInv'
  BY NextSInv
<1>3. QED
  BY <1>1, <1>2, PTL DEF Spec, SInv, Extra

(* The PCB of the process running in each started slot names that slot's *)
(* terminal (terminal.c:119 reads it through CURRENT_PCB_ADDRESS), after   *)
(* any sequence of execute, halt and schedule calls.                       *)
THEOREM SlotTerminalHolds ==
    ASSUME ~StartupRace
    PROVE  Spec => []SlotTerminal
<1>1. Init => SInv
  BY InitSInv
<1>2. SInv /\ [Next]_vars => SInv'
  BY NextSInv
<1>3. QED
  BY <1>1, <1>2, PTL DEF Spec, SInv, Extra
====
