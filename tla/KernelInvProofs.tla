--------------------------- MODULE KernelInvProofs ---------------------------
(***************************************************************************)
(* The safety invariants of Kernel, proved for every value of the          *)
(* constants under the scheduler's timing assumption (~StartupRace: user   *)
(* code makes system calls only once every slot runs its shell).           *)
(***************************************************************************)
EXTENDS KernelProofs

USE NumTasksAssumption, NumProcessesAssumption, FdArraySizeAssumption,
    StartupRaceAssumption

(* Every slot has been given its shell by schedule().                      *)
AllStarted == \A t \in Tasks : tasks[t].started

(* A live process: its PID is taken and its PCB was set up by execute      *)
(* (stdin installed).  This excludes the word past pid_availability when   *)
(* the build left it non-zero: it reads as taken but holds no process.     *)
Proc(p) == pidUsed[p] /\ pcb[p].fds[0].kind = "stdin"

(***************************************************************************)
(* The inductive invariant: the processes form, per slot, a stack whose    *)
(* top is the running process of that slot and whose bottom is the slot's *)
(* root shell, the only processes without a parent and exactly the PIDs    *)
(* below NUM_TERMINALS; while slots are still being started the PID table  *)
(* holds just the started roots.                                           *)
(***************************************************************************)
IInv ==
    /\ TypeOK
    /\ ~crashed
    /\ globalPid = tasks[current].pid
    /\ userPage = globalPid
    /\ tasks[current].started
    /\ \A t \in Started : Proc(tasks[t].pid)
    /\ \A t1, t2 \in Started : t1 # t2 => tasks[t1].pid # tasks[t2].pid
    /\ \A p \in PidCells :
          Proc(p) /\ pcb[p].parent # NoPid => Proc(pcb[p].parent)
    /\ \A p \in PidCells, t \in Started :
          Proc(p) => pcb[p].parent # tasks[t].pid
    /\ \A p, q \in PidCells :
          /\ Proc(p) /\ Proc(q)
          /\ pcb[p].parent # NoPid /\ pcb[p].parent = pcb[q].parent
          => p = q
    /\ \A p \in PidCells : Proc(p) => (pcb[p].parent = NoPid <=> p < NumTasks)
    /\ AllStarted => \A p \in Tasks : Proc(p)
    /\ ~AllStarted =>
          /\ \A t \in Tasks : tasks[t].started <=> t <= current
          /\ \A t \in Tasks : t <= current => tasks[t].pid = t
          /\ \A p \in 0 .. NumProcesses - 1 : pidUsed[p] <=> p <= current
          /\ \A i \in FirstFd .. FdArraySize - 1 : pcb[globalPid].fds[i].kind = "closed"
    /\ FreshPcbClean

-----------------------------------------------------------------------------
(* FIRST_AVAILABLE_PID returns n when n is free and every lower PID is    *)
(* taken.                                                                  *)
LEMMA FirstAvailablePidIs ==
    ASSUME NEW used \in [PidCells -> BOOLEAN], NEW n \in PidCells, ~used[n],
           \A m \in 0 .. n - 1 : used[m]
    PROVE  FirstAvailablePid(used) = n
<1> DEFINE P(k) == ~used[k] /\ \A m \in 0 .. k - 1 : used[m]
<1>1. \A k \in PidCells : P(k) => k = n
  <2> TAKE k \in PidCells
  <2>1. CASE k < n
    BY <2>1 DEF PidCells
  <2>2. CASE n < k
    BY <2>2 DEF PidCells
  <2>3. QED
    BY <2>1, <2>2 DEF PidCells
<1>2. (CHOOSE k \in PidCells : P(k)) = n
  BY <1>1
<1>3. QED
  BY <1>2 DEF FirstAvailablePid

(* sys_open's scan returns FIRST_FD when that descriptor is free.         *)
LEMMA FreeFdFirst ==
    ASSUME NEW fds \in [FdIdx -> FdEntry], fds[FirstFd].kind = "closed"
    PROVE  FreeFd(fds) = FirstFd
<1> DEFINE P(i) == fds[i].kind = "closed" /\ \A j \in FirstFd .. i - 1 : fds[j].kind # "closed"
<1>1. \A i \in FirstFd .. FdArraySize - 1 : P(i) => i = FirstFd
  BY DEF FirstFd
<1>2. FirstFd \in FirstFd .. FdArraySize - 1 /\ P(FirstFd)
  BY DEF FirstFd
<1>3. (CHOOSE i \in FirstFd .. FdArraySize - 1 : P(i)) = FirstFd
  BY <1>1, <1>2
<1>4. QED
  BY <1>2, <1>3 DEF FreeFd

(* sys_open inside execute changes only the descriptor it allocates.       *)
LEMMA ExecOpenedFacts ==
    ASSUME NEW pc \in [PidCells -> PcbRec], NEW gp \in PidCells,
           NEW cmd \in FileNames \ {"missing"},
           NEW fd \in FirstFd .. FdArraySize - 1, FreeFd(pc[gp].fds) = fd
    PROVE  /\ ExecOpened(pc, gp, cmd) \in [FdIdx -> FdEntry]
           /\ ExecOpened(pc, gp, cmd)[fd] = OpenedEntry(pc[gp].fds, fd, cmd)
           /\ \A i \in FdIdx \ {fd} : ExecOpened(pc, gp, cmd)[i] = pc[gp].fds[i]
<1>1. pc[gp].fds \in [FdIdx -> FdEntry]
  BY DEF PcbRec
<1>2. fd \in FdIdx
  BY DEF FdIdx, FirstFd
<1>3. OpenedEntry(pc[gp].fds, fd, cmd) \in FdEntry
  BY <1>1, <1>2, OpenedEntryType
<1>4. QED
  BY <1>1, <1>2, <1>3 DEF ExecOpened

(* Installing stdin and stdout touches descriptors 0 and 1 only.          *)
LEMMA StdFdsFacts ==
    ASSUME NEW fds \in [FdIdx -> FdEntry]
    PROVE  /\ StdFds(fds)[0].kind = "stdin"
           /\ \A i \in FirstFd .. FdArraySize - 1 : StdFds(fds)[i] = fds[i]
<1> DEFINE s1 == [fds EXCEPT ![0].kind = "stdin"]
<1>1. 0 \in FdIdx /\ 1 \in FdIdx
  BY DEF FdIdx
<1>2. StdFds(fds) = [s1 EXCEPT ![1].kind = "stdout"]
  BY DEF StdFds
<1>3. s1[0].kind = "stdin" /\ \A i \in FdIdx \ {0} : s1[i] = fds[i]
  BY <1>1
<1>4. DOMAIN s1 = FdIdx
  OBVIOUS
<1>5. StdFds(fds)[0] = s1[0] /\ \A i \in FdIdx \ {1} : StdFds(fds)[i] = s1[i]
  BY <1>1, <1>2, <1>4
<1>6. QED
  BY <1>3, <1>5 DEF FdIdx, FirstFd

(* The PCB table after a successful execute, entry by entry: the caller   *)
(* gp keeps its parent and stdin and has exec_fd closed again, the new     *)
(* process np gets its parent, stdin and the descriptors its PCB already   *)
(* held, and every other PCB is untouched.                                 *)
LEMMA LoadedPcbsFacts ==
    ASSUME NEW pc \in [PidCells -> PcbRec], NEW gp \in PidCells,
           NEW opened \in [FdIdx -> FdEntry], NEW fd \in FirstFd .. FdArraySize - 1,
           NEW np \in PidCells, NEW t \in Tasks
    PROVE  LET L == LoadedPcbs(pc, gp, opened, fd, np, t)
           IN  /\ L \in [PidCells -> PcbRec]
               /\ \A p \in PidCells \ {gp, np} : L[p] = pc[p]
               /\ L[np].parent = ParentPid(np, gp)
               /\ L[np].fds[0].kind = "stdin"
               /\ np # gp =>
                    /\ \A i \in FirstFd .. FdArraySize - 1 : L[np].fds[i] = pc[np].fds[i]
                    /\ L[gp].parent = pc[gp].parent
                    /\ L[gp].fds[0] = opened[0]
                    /\ \A i \in FdIdx \ {fd} : L[gp].fds[i] = opened[i]
                    /\ L[gp].fds[fd].kind = "closed"
<1> DEFINE pc1 == [pc EXCEPT ![gp].fds = ClosedFd(opened, fd)]
<1>1. fd \in FdIdx
  BY DEF FdIdx, FirstFd
<1>2. ClosedFd(opened, fd) \in [FdIdx -> FdEntry]
  BY <1>1, ClosedFdType
<1>3. /\ pc1 \in [PidCells -> PcbRec]
      /\ \A p \in PidCells \ {gp} : pc1[p] = pc[p]
      /\ pc1[gp].parent = pc[gp].parent
      /\ pc1[gp].fds = ClosedFd(opened, fd)
  BY <1>2 DEF PcbRec
<1>4. pc1[np].fds \in [FdIdx -> FdEntry]
  BY <1>3 DEF PcbRec
<1>5. /\ StdFds(pc1[np].fds)[0].kind = "stdin"
      /\ \A i \in FirstFd .. FdArraySize - 1 : StdFds(pc1[np].fds)[i] = pc1[np].fds[i]
  BY <1>4, StdFdsFacts
<1>6. /\ ClosedFd(opened, fd)[0] = opened[0]
      /\ \A i \in FdIdx \ {fd} : ClosedFd(opened, fd)[i] = opened[i]
      /\ ClosedFd(opened, fd)[fd].kind = "closed"
  BY <1>1 DEF ClosedFd, FdIdx, FirstFd
<1>7. LoadedPcbs(pc, gp, opened, fd, np, t) \in [PidCells -> PcbRec]
  BY <1>1, LoadedPcbsType
<1>8. LoadedPcbs(pc, gp, opened, fd, np, t)
        = [pc1 EXCEPT ![np] = [parent |-> ParentPid(np, gp), task |-> t,
                               fds |-> StdFds(pc1[np].fds)]]
  BY DEF LoadedPcbs
<1>9. LoadedPcbs(pc, gp, opened, fd, np, t)[np]
        = [parent |-> ParentPid(np, gp), task |-> t, fds |-> StdFds(pc1[np].fds)]
  BY <1>3, <1>8
<1>10. \A p \in PidCells \ {np} : LoadedPcbs(pc, gp, opened, fd, np, t)[p] = pc1[p]
  BY <1>3, <1>8
<1>11. np # gp => pc1[np] = pc[np]
  BY <1>3
<1> DEFINE L == LoadedPcbs(pc, gp, opened, fd, np, t)
<1>12. L[np].parent = ParentPid(np, gp) /\ L[np].fds[0].kind = "stdin"
  BY <1>5, <1>9
<1>13. \A p \in PidCells \ {gp, np} : L[p] = pc[p]
  BY <1>3, <1>10
<1>14. ASSUME np # gp
       PROVE  /\ \A i \in FirstFd .. FdArraySize - 1 : L[np].fds[i] = pc[np].fds[i]
              /\ L[gp].parent = pc[gp].parent
              /\ L[gp].fds[0] = opened[0]
              /\ \A i \in FdIdx \ {fd} : L[gp].fds[i] = opened[i]
              /\ L[gp].fds[fd].kind = "closed"
  <2>1. L[np].fds = StdFds(pc[np].fds)
    BY <1>9, <1>11, <1>14
  <2>2. \A i \in FirstFd .. FdArraySize - 1 : L[np].fds[i] = pc[np].fds[i]
    BY <2>1, StdFdsFacts DEF PcbRec
  <2>3. L[gp] = pc1[gp]
    BY <1>10, <1>14
  <2>4. QED
    BY <2>2, <2>3, <1>3, <1>6
<1>15. QED
  BY <1>7, <1>12, <1>13, <1>14

(* The new PCB names the terminal of the slot it is built for; the       *)
(* caller's PCB keeps its own.                                             *)
LEMMA LoadedPcbsTask ==
    ASSUME NEW pc \in [PidCells -> PcbRec], NEW gp \in PidCells,
           NEW opened \in [FdIdx -> FdEntry], NEW fd \in FirstFd .. FdArraySize - 1,
           NEW np \in PidCells, NEW t \in Tasks
    PROVE  /\ LoadedPcbs(pc, gp, opened, fd, np, t)[np].task = t
           /\ np # gp => LoadedPcbs(pc, gp, opened, fd, np, t)[gp].task = pc[gp].task
BY DEF LoadedPcbs, PcbRec

(* The three ways sys_execute can end: it fails with nothing changed, it  *)
(* fails on the ELF check with exec_fd left open (never for the shell      *)
(* binary), or the new process runs in slot t.                             *)
LEMMA ExecuteFromOutcome ==
    ASSUME NEW cmd \in Commands, NEW u \in [PidCells -> BOOLEAN],
           NEW pc \in [PidCells -> PcbRec],
           NEW tk \in [Tasks -> [pid : PidCells, started : BOOLEAN]],
           NEW gp \in PidCells, NEW t \in Tasks, NEW ACTION Fail,
           ExecuteFrom(cmd, u, pc, tk, gp, t, Fail)
    PROVE  LET np == FirstAvailablePid(u)
               fd == FreeFd(pc[gp].fds)
               opened == ExecOpened(pc, gp, cmd)
           IN
           \/ /\ pidUsed' = u /\ pcb' = pc /\ Fail
              /\ np = NoPid \/ cmd \in {"null", "missing"} \/ fd = NoPid
           \/ /\ pidUsed' = u /\ Fail
              /\ cmd \in FileNames \ {"missing", "prog"}
              /\ fd \in FirstFd .. FdArraySize - 1
              /\ pcb' = [pc EXCEPT ![gp].fds = opened]
           \/ /\ np \in PidCells /\ ~u[np]
              /\ cmd \in FileNames \ {"missing"}
              /\ fd \in FirstFd .. FdArraySize - 1
              /\ pidUsed' = [u EXCEPT ![np] = TRUE]
              /\ pcb' = LoadedPcbs(pc, gp, opened, fd, np, t)
              /\ tasks' = [tk EXCEPT ![t].pid = np]
              /\ globalPid' = np /\ userPage' = np /\ crashed' = crashed
<1> DEFINE np == FirstAvailablePid(u)
           fd == FreeFd(pc[gp].fds)
           opened == ExecOpened(pc, gp, cmd)
<1>1. /\ np \in PidCells \cup {NoPid}
      /\ np # NoPid => ~u[np]
  BY FirstAvailablePidType
<1>2. /\ fd \in (FirstFd .. FdArraySize - 1) \cup {NoPid}
  BY FreeFdType DEF PcbRec
<1>3. CASE np = NoPid \/ cmd = "null" \/ cmd = "missing" \/ fd = NoPid
  BY <1>3 DEF ExecuteFrom, FileNames
<1>4. CASE np # NoPid /\ cmd \in FileNames \ {"missing"} /\ fd # NoPid
  <2>1. fd \in FirstFd .. FdArraySize - 1 /\ np \in PidCells /\ ~u[np]
    BY <1>1, <1>2, <1>4 DEF NoPid, FirstFd
  <2>2. \E elf \in HeaderIsElf(opened[fd]) :
          \/ ~elf /\ pidUsed' = u /\ pcb' = [pc EXCEPT ![gp].fds = opened] /\ Fail
          \/ /\ elf
             /\ pidUsed' = [u EXCEPT ![np] = TRUE]
             /\ pcb' = LoadedPcbs(pc, gp, opened, fd, np, t)
             /\ tasks' = [tk EXCEPT ![t].pid = np]
             /\ globalPid' = np /\ userPage' = np /\ crashed' = crashed
    BY <1>4 DEF ExecuteFrom, FileNames
  <2>3. cmd = "prog" => HeaderIsElf(opened[fd]) = {TRUE}
    <3> HAVE cmd = "prog"
    <3>1. opened[fd] = OpenedEntry(pc[gp].fds, fd, "prog")
      BY <1>4, <2>1, ExecOpenedFacts
    <3>2. OpenedEntry(pc[gp].fds, fd, "prog") = [kind |-> "file", inode |-> "prog"]
      BY DEF OpenedEntry
    <3>3. HeaderIsElf([kind |-> "file", inode |-> "prog"]) = {TRUE}
      BY DEF HeaderIsElf
    <3>4. QED
      BY <3>1, <3>2, <3>3
  <2>4. PICK elf \in HeaderIsElf(opened[fd]) :
          \/ ~elf /\ pidUsed' = u /\ pcb' = [pc EXCEPT ![gp].fds = opened] /\ Fail
          \/ /\ elf
             /\ pidUsed' = [u EXCEPT ![np] = TRUE]
             /\ pcb' = LoadedPcbs(pc, gp, opened, fd, np, t)
             /\ tasks' = [tk EXCEPT ![t].pid = np]
             /\ globalPid' = np /\ userPage' = np /\ crashed' = crashed
    BY <2>2
  <2>5. ASSUME cmd = "prog" PROVE elf
    <3>1. HeaderIsElf(opened[fd]) = {TRUE}
      BY <2>3, <2>5
    <3>2. elf \in {TRUE}
      BY <3>1, <2>4
    <3>3. QED
      BY <3>2
  <2>6. QED
    BY <1>4, <2>1, <2>4, <2>5
<1>5. QED
  BY <1>3, <1>4 DEF Commands

-----------------------------------------------------------------------------
(* start_scheduler leaves one process, the root shell of slot 0, running.  *)
LEMMA InitIInv == Init => IInv
<1> SUFFICES ASSUME Init PROVE IInv
  OBVIOUS
<1>0. TypeOK
  BY InitTypeOK
<1>1. PICK oob \in BOOLEAN, inode0 \in Inodes :
        /\ pidUsed = [p \in PidCells |-> IF p = NumProcesses THEN oob ELSE p = 0]
        /\ pcb = [p \in PidCells |->
                    [parent |-> IF p = 0 THEN NoPid ELSE 0, task |-> 0,
                     fds |-> IF p = 0
                             THEN StdFds(BlankFds(inode0))
                             ELSE BlankFds(inode0)]]
        /\ tasks = [t \in Tasks |-> [pid |-> 0, started |-> t = 0]]
        /\ current = 0 /\ globalPid = 0 /\ userPage = 0 /\ crashed = FALSE
  BY DEF Init
<1> DEFINE blank == BlankFds(inode0)
<1>2. blank \in [FdIdx -> FdEntry]
  BY DEF BlankFds, FdEntry, FdKinds
<1>3. /\ StdFds(blank)[0].kind = "stdin"
      /\ \A i \in FirstFd .. FdArraySize - 1 : StdFds(blank)[i] = blank[i]
  BY <1>2, StdFdsFacts
<1>4. /\ 0 \in PidCells /\ 0 \in Tasks /\ 0 # NumProcesses
      /\ \A p \in PidCells : pcb[p].parent = IF p = 0 THEN NoPid ELSE 0
      /\ pcb[0].fds = StdFds(blank)
      /\ \A p \in PidCells \ {0} : pcb[p].fds = blank
  <2>1. 0 \in PidCells /\ 0 \in Tasks /\ 0 # NumProcesses
    BY DEF PidCells, Tasks
  <2>2. \A p \in PidCells : pcb[p] = [parent |-> IF p = 0 THEN NoPid ELSE 0, task |-> 0,
                                      fds |-> IF p = 0 THEN StdFds(blank) ELSE blank]
    BY <1>1
  <2>3. ASSUME NEW p \in PidCells
        PROVE  /\ pcb[p].parent = IF p = 0 THEN NoPid ELSE 0
               /\ p = 0 => pcb[p].fds = StdFds(blank)
               /\ p # 0 => pcb[p].fds = blank
    <3>1. pcb[p] = [parent |-> IF p = 0 THEN NoPid ELSE 0, task |-> 0,
                    fds |-> IF p = 0 THEN StdFds(blank) ELSE blank]
      BY <2>2
    <3>2. QED
      BY <3>1
  <2>4. QED
    BY <2>1, <2>3
<1>4a. /\ \A p \in 0 .. NumProcesses - 1 : pidUsed[p] <=> p = 0
       /\ pidUsed[0]
  <2>1. ASSUME NEW p \in 0 .. NumProcesses - 1 PROVE pidUsed[p] <=> p = 0
    <3>1. p \in PidCells /\ p # NumProcesses
      BY DEF PidCells
    <3>2. pidUsed[p] = IF p = NumProcesses THEN oob ELSE p = 0
      BY <1>1, <3>1
    <3>3. QED
      BY <3>1, <3>2
  <2>2. 0 \in 0 .. NumProcesses - 1
    OBVIOUS
  <2>3. QED
    BY <2>1, <2>2
<1>4c. current = 0 /\ globalPid = 0 /\ userPage = 0 /\ crashed = FALSE
  BY <1>1
<1>4b. \A t \in Tasks : tasks[t].pid = 0 /\ (tasks[t].started <=> t = 0)
  BY <1>1
<1>5. \A p \in PidCells : Proc(p) <=> p = 0
  BY <1>3, <1>4, <1>4a DEF Proc, FdIdx, BlankFds
<1>6. Started = {0}
  BY <1>4, <1>4b DEF Started
<1>7. AllStarted => \A p \in Tasks : Proc(p)
  BY <1>4b, <1>5 DEF AllStarted, Tasks, PidCells
<1>8. ~AllStarted =>
          /\ \A t \in Tasks : tasks[t].started <=> t <= current
          /\ \A t \in Tasks : t <= current => tasks[t].pid = t
          /\ \A p \in 0 .. NumProcesses - 1 : pidUsed[p] <=> p <= current
          /\ \A i \in FirstFd .. FdArraySize - 1 : pcb[globalPid].fds[i].kind = "closed"
  <2>1. \A t \in Tasks : tasks[t].started <=> t <= current
    BY <1>4b, <1>4c DEF Tasks
  <2>2. \A t \in Tasks : t <= current => tasks[t].pid = t
    BY <1>4b, <1>4c DEF Tasks
  <2>3. \A p \in 0 .. NumProcesses - 1 : pidUsed[p] <=> p <= current
    BY <1>4a, <1>4c
  <2>4. ASSUME NEW i \in FirstFd .. FdArraySize - 1
        PROVE  pcb[globalPid].fds[i].kind = "closed"
    <3>1. pcb[globalPid].fds[i] = blank[i]
      BY <1>3, <1>4, <1>4c
    <3>2. QED
      BY <3>1 DEF BlankFds, FdIdx, FirstFd
  <2>5. QED
    BY <2>1, <2>2, <2>3, <2>4
<1>9. FreshPcbClean
  BY <1>4, <1>4a DEF FreshPcbClean, FdIdx, FirstFd, BlankFds
<1>10. /\ ~crashed
       /\ globalPid = tasks[current].pid
       /\ userPage = globalPid
       /\ tasks[current].started
  BY <1>4, <1>4b, <1>4c
<1>11. /\ \A t \in Started : Proc(tasks[t].pid)
       /\ \A t1, t2 \in Started : t1 # t2 => tasks[t1].pid # tasks[t2].pid
  BY <1>4, <1>4b, <1>5, <1>6
<1>12. /\ \A p \in PidCells : Proc(p) /\ pcb[p].parent # NoPid => Proc(pcb[p].parent)
       /\ \A p \in PidCells, t \in Started : Proc(p) => pcb[p].parent # tasks[t].pid
       /\ \A p, q \in PidCells :
             /\ Proc(p) /\ Proc(q)
             /\ pcb[p].parent # NoPid /\ pcb[p].parent = pcb[q].parent
             => p = q
       /\ \A p \in PidCells : Proc(p) => (pcb[p].parent = NoPid <=> p < NumTasks)
  <2>1. \A p \in PidCells : Proc(p) => p = 0 /\ pcb[p].parent = NoPid
    BY <1>4, <1>5 DEF NoPid
  <2>2. \A t \in Started : tasks[t].pid # NoPid
    BY <1>0 DEF TypeOK, Started, PidCells, NoPid
  <2>3. 0 < NumTasks /\ NoPid # 0
    BY DEF NoPid
  <2>4. QED
    BY <2>1, <2>2, <2>3
<1>13. QED
  BY <1>0, <1>7, <1>8, <1>9, <1>10, <1>11, <1>12, Zenon DEF IInv

-----------------------------------------------------------------------------
(* The running process is live.                                           *)
LEMMA RunningLive ==
    ASSUME IInv
    PROVE  /\ Proc(globalPid)
           /\ pidUsed[globalPid]
           /\ current \in Started
<1>1. current \in Started
  BY DEF IInv, TypeOK, Started
<1>2. Proc(tasks[current].pid)
  BY <1>1 DEF IInv
<1>3. QED
  BY <1>1, <1>2 DEF IInv, Proc

(* A step that rewrites the running process's PCB only, keeping its       *)
(* parent and its stdin, keeps the invariant once every slot has started.  *)
LEMMA RunningPcbStep ==
    ASSUME IInv, AllStarted, TypeOK',
           \A p \in PidCells \ {globalPid} : pcb'[p] = pcb[p],
           pcb'[globalPid].parent = pcb[globalPid].parent,
           pcb'[globalPid].fds[0].kind = "stdin",
           UNCHANGED <<pidUsed, tasks, current, globalPid, userPage, crashed>>
    PROVE  IInv'
<1>1. Proc(globalPid) /\ globalPid \in PidCells
  BY RunningLive DEF IInv, TypeOK
<1>2. \A p \in PidCells : pcb'[p].parent = pcb[p].parent
  OBVIOUS
<1>3. \A p \in PidCells : Proc(p)' <=> Proc(p)
  <2> SUFFICES ASSUME NEW p \in PidCells PROVE Proc(p)' <=> Proc(p)
    OBVIOUS
  <2>1. CASE p = globalPid
    BY <1>1, <2>1 DEF Proc
  <2>2. CASE p # globalPid
    BY <2>2 DEF Proc
  <2>3. QED
    BY <2>1, <2>2
<1>4. Started' = Started /\ AllStarted'
  BY DEF Started, AllStarted
<1>5. FreshPcbClean'
  <2> SUFFICES ASSUME NEW p \in PidCells, ~pidUsed'[p],
                      NEW i \in FirstFd .. FdArraySize - 1
               PROVE  pcb'[p].fds[i].kind = "closed"
    BY DEF FreshPcbClean
  <2>1. p # globalPid
    BY <1>1 DEF Proc
  <2>2. QED
    BY <2>1 DEF IInv, FreshPcbClean
<1>6. \A t \in Started' : Proc(tasks[t].pid)'
  <2> SUFFICES ASSUME NEW t \in Started' PROVE Proc(tasks[t].pid)'
    OBVIOUS
  <2>1. t \in Started /\ tasks'[t].pid = tasks[t].pid /\ tasks[t].pid \in PidCells
    BY <1>4 DEF IInv, TypeOK, Started
  <2>2. Proc(tasks[t].pid)
    BY <2>1 DEF IInv
  <2>3. QED
    BY <1>3, <2>1, <2>2
<1>7. \A p \in PidCells : Proc(p)' /\ pcb'[p].parent # NoPid => Proc(pcb[p].parent)'
  <2> SUFFICES ASSUME NEW p \in PidCells, Proc(p)', pcb'[p].parent # NoPid
               PROVE  Proc(pcb[p].parent)'
    OBVIOUS
  <2>1. Proc(pcb[p].parent) /\ pcb[p].parent \in PidCells
    BY <1>2, <1>3 DEF IInv, TypeOK, PcbRec
  <2>2. QED
    BY <2>1, <1>2, <1>3
<1>8. /\ \A p \in PidCells, t \in Started' : Proc(p)' => pcb'[p].parent # tasks'[t].pid
      /\ \A p, q \in PidCells :
            /\ Proc(p)' /\ Proc(q)'
            /\ pcb'[p].parent # NoPid /\ pcb'[p].parent = pcb'[q].parent
            => p = q
      /\ \A p \in PidCells : Proc(p)' => (pcb'[p].parent = NoPid <=> p < NumTasks)
      /\ \A p \in Tasks : Proc(p)'
  BY <1>2, <1>3, <1>4 DEF IInv, AllStarted, Tasks, PidCells
<1>9. QED
  BY <1>4, <1>5, <1>6, <1>7, <1>8 DEF IInv

(* sys_open, sys_close, and an execute that fails after opening the file  *)
(* rewrite descriptors of the running process only, leaving its stdin.     *)
LEMMA FdsOnlyStep ==
    ASSUME IInv, AllStarted,
           NEW F \in [FdIdx -> FdEntry], F[0] = pcb[globalPid].fds[0],
           pcb' = [pcb EXCEPT ![globalPid].fds = F],
           UNCHANGED <<pidUsed, tasks, current, globalPid, userPage, crashed>>
    PROVE  IInv'
<1>1. Proc(globalPid) /\ globalPid \in PidCells
  BY RunningLive DEF IInv, TypeOK
<1>2. pcb[globalPid] \in PcbRec
  BY <1>1 DEF IInv, TypeOK
<1>3. TypeOK'
  <2>1. [pcb[globalPid] EXCEPT !.fds = F] \in PcbRec
    BY <1>2 DEF PcbRec
  <2>2. QED
    BY <2>1 DEF IInv, TypeOK
<1>4. /\ \A p \in PidCells \ {globalPid} : pcb'[p] = pcb[p]
      /\ pcb'[globalPid].parent = pcb[globalPid].parent
      /\ pcb'[globalPid].fds[0].kind = "stdin"
  BY <1>1, <1>2 DEF Proc, IInv, TypeOK
<1>5. QED
  BY <1>3, <1>4, RunningPcbStep

(* A successful sys_execute by a user program: the new process np, a free  *)
(* PID, is pushed on the caller's slot with the caller as its parent.      *)
LEMMA ExecSuccessStep ==
    ASSUME IInv, AllStarted, TypeOK',
           NEW np \in PidCells, ~pidUsed[np],
           NEW opened \in [FdIdx -> FdEntry], opened[0] = pcb[globalPid].fds[0],
           NEW fd \in FirstFd .. FdArraySize - 1,
           pidUsed' = [pidUsed EXCEPT ![np] = TRUE],
           pcb' = LoadedPcbs(pcb, globalPid, opened, fd, np, current),
           tasks' = [tasks EXCEPT ![current].pid = np],
           globalPid' = np, userPage' = np, crashed' = crashed, current' = current
    PROVE  IInv'
<1> DEFINE gp == globalPid
<1>1. /\ Proc(gp) /\ pidUsed[gp] /\ current \in Started
      /\ gp \in PidCells /\ gp = tasks[current].pid /\ np # gp
  BY RunningLive DEF IInv, TypeOK
<1>2. np \notin Tasks
  BY DEF IInv, AllStarted, Proc
<1>3. ParentPid(np, gp) = gp
  BY <1>2 DEF ParentPid, Tasks, PidCells
<1>4. /\ \A p \in PidCells \ {gp, np} : pcb'[p] = pcb[p]
      /\ pcb'[np].parent = gp
      /\ pcb'[np].fds[0].kind = "stdin"
      /\ pcb'[gp].parent = pcb[gp].parent
      /\ pcb'[gp].fds[0] = pcb[gp].fds[0]
  <2> DEFINE L == LoadedPcbs(pcb, gp, opened, fd, np, current)
  <2>1. pcb \in [PidCells -> PcbRec] /\ current \in Tasks
    BY DEF IInv, TypeOK
  <2>2. /\ \A p \in PidCells \ {gp, np} : L[p] = pcb[p]
        /\ L[np].parent = ParentPid(np, gp)
        /\ L[np].fds[0].kind = "stdin"
        /\ np # gp => /\ L[gp].parent = pcb[gp].parent
                      /\ L[gp].fds[0] = opened[0]
    BY <1>1, <2>1, LoadedPcbsFacts
  <2>3. QED
    BY <1>1, <1>3, <2>2
<1>5. \A p \in PidCells : pidUsed'[p] = (p = np \/ pidUsed[p])
  <2>1. pidUsed \in [PidCells -> BOOLEAN]
    BY DEF IInv, TypeOK
  <2>. QED
    BY <2>1
<1>6. /\ \A p \in PidCells \ {np} : Proc(p)' <=> Proc(p)
      /\ Proc(np)'
      /\ \A p \in PidCells \ {np} : pcb'[p].parent = pcb[p].parent
  BY <1>1, <1>4, <1>5 DEF Proc
<1>7. /\ Started' = Started
      /\ AllStarted'
      /\ \A t \in Tasks : tasks'[t].pid = IF t = current THEN np ELSE tasks[t].pid
  BY DEF IInv, TypeOK, Started, AllStarted
<1>8. \A p \in PidCells : Proc(p) => p # np
  BY DEF Proc
<1>9. \A t \in Started : tasks[t].pid \in PidCells /\ Proc(tasks[t].pid)
  BY DEF IInv, TypeOK, Started
<1>10. FreshPcbClean'
  <2> SUFFICES ASSUME NEW p \in PidCells, ~pidUsed'[p],
                      NEW i \in FirstFd .. FdArraySize - 1
               PROVE  pcb'[p].fds[i].kind = "closed"
    BY DEF FreshPcbClean
  <2>1. p # gp /\ p # np /\ ~pidUsed[p]
    BY <1>1, <1>5
  <2>2. QED
    BY <1>4, <2>1 DEF IInv, FreshPcbClean
<1>11. /\ globalPid' = tasks'[current'].pid
       /\ userPage' = globalPid'
       /\ tasks'[current'].started
       /\ ~crashed'
  BY <1>1, <1>7 DEF IInv, TypeOK, Started
<1>12. \A t \in Started' : Proc(tasks[t].pid)'
  <2> SUFFICES ASSUME NEW t \in Started PROVE Proc(tasks[t].pid)'
    BY <1>7
  <2>1. CASE t = current
    BY <2>1, <1>6, <1>7 DEF Started
  <2>2. CASE t # current
    <3>1. tasks'[t].pid = tasks[t].pid /\ tasks[t].pid # np
      BY <2>2, <1>7, <1>8, <1>9 DEF Started
    <3>2. Proc(tasks[t].pid)' <=> Proc(tasks[t].pid)
      BY <3>1, <1>6, <1>9 DEF Proc
    <3>3. QED
      BY <3>2, <1>9
  <2>3. QED
    BY <2>1, <2>2
<1>13. \A t1, t2 \in Started' : t1 # t2 => tasks'[t1].pid # tasks'[t2].pid
  BY <1>1, <1>7, <1>8, <1>9 DEF IInv, Started
<1>14. \A p \in PidCells : Proc(p)' /\ pcb'[p].parent # NoPid => Proc(pcb[p].parent)'
  <2> SUFFICES ASSUME NEW p \in PidCells, Proc(p)', pcb'[p].parent # NoPid
               PROVE  Proc(pcb[p].parent)'
    OBVIOUS
  <2>1. CASE p = np
    BY <2>1, <1>1, <1>4, <1>6
  <2>2. CASE p # np
    <3>1. Proc(p) /\ pcb[p].parent # NoPid /\ pcb'[p].parent = pcb[p].parent
      BY <2>2, <1>6
    <3>2. Proc(pcb[p].parent) /\ pcb[p].parent \in PidCells
      BY <3>1 DEF IInv, TypeOK, PcbRec, NoPid
    <3>3. pcb[p].parent # np
      BY <3>2, <1>8
    <3>4. QED
      BY <3>1, <3>2, <3>3, <1>6
  <2>3. QED
    BY <2>1, <2>2
<1>15. \A p \in PidCells, t \in Started' : Proc(p)' => pcb'[p].parent # tasks'[t].pid
  <2> SUFFICES ASSUME NEW p \in PidCells, NEW t \in Started, Proc(p)'
               PROVE  pcb'[p].parent # tasks'[t].pid
    BY <1>7
  <2>1. CASE p = np
    <3>1. pcb'[p].parent = gp
      BY <2>1, <1>4
    <3>2. CASE t = current
      BY <3>1, <3>2, <1>1, <1>7 DEF Started
    <3>3. CASE t # current
      BY <3>1, <3>3, <1>1, <1>7 DEF IInv, Started
    <3>4. QED
      BY <3>2, <3>3
  <2>2. CASE p # np
    <3>1. Proc(p) /\ pcb'[p].parent = pcb[p].parent
      BY <2>2, <1>6
    <3>2. pcb[p].parent # np
      <4>1. CASE pcb[p].parent = NoPid
        BY <4>1 DEF NoPid, PidCells
      <4>2. CASE pcb[p].parent # NoPid
        BY <3>1, <4>2, <1>8 DEF IInv, TypeOK, PcbRec
      <4>3. QED
        BY <4>1, <4>2
    <3>3. CASE t = current
      BY <3>1, <3>2, <3>3, <1>7 DEF Started
    <3>4. CASE t # current
      BY <3>1, <3>4, <1>7 DEF IInv, Started
    <3>5. QED
      BY <3>3, <3>4
  <2>3. QED
    BY <2>1, <2>2
<1>16. \A p, q \in PidCells :
          /\ Proc(p)' /\ Proc(q)'
          /\ pcb'[p].parent # NoPid /\ pcb'[p].parent = pcb'[q].parent
          => p = q
  <2> SUFFICES ASSUME NEW p \in PidCells, NEW q \in PidCells,
                      Proc(p)', Proc(q)',
                      pcb'[p].parent # NoPid, pcb'[p].parent = pcb'[q].parent
               PROVE  p = q
    OBVIOUS
  <2>1. ASSUME NEW a \in PidCells, NEW b \in PidCells, Proc(b)', a = np, b # np
        PROVE  pcb'[a].parent # pcb'[b].parent
    <3>1. Proc(b) /\ pcb'[b].parent = pcb[b].parent /\ pcb'[a].parent = gp
      BY <2>1, <1>4, <1>6
    <3>2. QED
      BY <3>1, <1>1 DEF IInv
  <2>2. CASE p # np /\ q # np
    BY <2>2, <1>6 DEF IInv
  <2>3. QED
    BY <2>1, <2>2
<1>17. \A p \in PidCells : Proc(p)' => (pcb'[p].parent = NoPid <=> p < NumTasks)
  <2> SUFFICES ASSUME NEW p \in PidCells, Proc(p)'
               PROVE  pcb'[p].parent = NoPid <=> p < NumTasks
    OBVIOUS
  <2>1. CASE p = np
    BY <2>1, <1>1, <1>2, <1>4 DEF Tasks, PidCells, NoPid
  <2>2. CASE p # np
    BY <2>2, <1>6 DEF IInv
  <2>3. QED
    BY <2>1, <2>2
<1>18. \A p \in Tasks : Proc(p)'
  BY <1>2, <1>6 DEF IInv, AllStarted, Tasks, PidCells
<1>19. QED
  BY <1>7, <1>10, <1>11, <1>12, <1>13, <1>14, <1>15, <1>16, <1>17, <1>18 DEF IInv

(* sys_halt of a process with a parent: its PID is freed, its descriptors *)
(* closed, and its slot resumes the parent.                                *)
LEMMA HaltParentStep ==
    ASSUME IInv, AllStarted, TypeOK',
           pcb[globalPid].parent # NoPid,
           pidUsed' = [pidUsed EXCEPT ![globalPid] = FALSE],
           pcb' = [pcb EXCEPT ![globalPid].fds = CloseAll(pcb[globalPid].fds)],
           globalPid' = pcb[globalPid].parent,
           userPage' = pcb[globalPid].parent,
           tasks' = [tasks EXCEPT ![current].pid = pcb[globalPid].parent],
           crashed' = crashed, current' = current
    PROVE  IInv'
<1> DEFINE gp == globalPid
           par == pcb[gp].parent
<1>1. /\ Proc(gp) /\ pidUsed[gp] /\ current \in Started
      /\ gp \in PidCells /\ gp = tasks[current].pid
  BY RunningLive DEF IInv, TypeOK
<1>2. /\ Proc(par) /\ par \in PidCells /\ par # gp
      /\ gp \notin Tasks
  <2>1. Proc(par) /\ par \in PidCells
    BY <1>1 DEF IInv, TypeOK, PcbRec
  <2>2. par # gp
    BY <1>1 DEF IInv
  <2>3. ~(gp < NumTasks)
    BY <1>1 DEF IInv
  <2>4. QED
    BY <2>1, <2>2, <2>3 DEF Tasks
<1>3. \A p \in PidCells :
         /\ pcb'[p].parent = pcb[p].parent
         /\ pcb'[p].fds[0] = pcb[p].fds[0]
         /\ p # gp => pcb'[p] = pcb[p]
  <2>1. pcb[gp].fds \in [FdIdx -> FdEntry]
    BY <1>1 DEF IInv, TypeOK, PcbRec
  <2>2. CloseAll(pcb[gp].fds)[0] = pcb[gp].fds[0]
    BY <2>1 DEF CloseAll, FdIdx, FirstFd
  <2>3. QED
    BY <1>1, <2>2 DEF IInv, TypeOK
<1>4. \A i \in FirstFd .. FdArraySize - 1 : pcb'[gp].fds[i].kind = "closed"
  <2>1. pcb[gp].fds \in [FdIdx -> FdEntry]
    BY <1>1 DEF IInv, TypeOK, PcbRec
  <2>2. \A i \in FirstFd .. FdArraySize - 1 : CloseAll(pcb[gp].fds)[i].kind = "closed"
    BY <2>1 DEF CloseAll, FdIdx, FirstFd
  <2>3. QED
    BY <1>1, <2>2 DEF IInv, TypeOK
<1>5. \A p \in PidCells : pidUsed'[p] = (pidUsed[p] /\ p # gp)
  BY <1>1 DEF IInv, TypeOK
<1>6. \A p \in PidCells : Proc(p)' <=> (Proc(p) /\ p # gp)
  BY <1>3, <1>5 DEF Proc
<1>7. /\ Started' = Started
      /\ AllStarted'
      /\ \A t \in Tasks : tasks'[t].pid = IF t = current THEN par ELSE tasks[t].pid
  BY DEF IInv, TypeOK, Started, AllStarted
<1>8. \A t \in Started : tasks[t].pid \in PidCells /\ Proc(tasks[t].pid)
  BY DEF IInv, TypeOK, Started
<1>9. \A t \in Started : t # current => tasks[t].pid # gp
  BY <1>1 DEF IInv
<1>10. FreshPcbClean'
  <2> SUFFICES ASSUME NEW p \in PidCells, ~pidUsed'[p],
                      NEW i \in FirstFd .. FdArraySize - 1
               PROVE  pcb'[p].fds[i].kind = "closed"
    BY DEF FreshPcbClean
  <2>1. CASE p = gp
    BY <2>1, <1>4
  <2>2. CASE p # gp
    BY <2>2, <1>3, <1>5 DEF IInv, FreshPcbClean
  <2>3. QED
    BY <2>1, <2>2
<1>11. /\ globalPid' = tasks'[current'].pid
       /\ userPage' = globalPid'
       /\ tasks'[current'].started
       /\ ~crashed'
  BY <1>1, <1>7 DEF IInv, TypeOK, Started
<1>12. \A t \in Started' : Proc(tasks[t].pid)'
  <2> SUFFICES ASSUME NEW t \in Started PROVE Proc(tasks[t].pid)'
    BY <1>7
  <2>1. CASE t = current
    BY <2>1, <1>2, <1>6, <1>7 DEF Started
  <2>2. CASE t # current
    BY <2>2, <1>6, <1>7, <1>8, <1>9 DEF Started
  <2>3. QED
    BY <2>1, <2>2
<1>13. \A t1, t2 \in Started' : t1 # t2 => tasks'[t1].pid # tasks'[t2].pid
  <2> SUFFICES ASSUME NEW t1 \in Started, NEW t2 \in Started, t1 # t2
               PROVE  tasks'[t1].pid # tasks'[t2].pid
    BY <1>7
  <2>1. \A t \in Started : t # current => par # tasks[t].pid
    BY <1>1 DEF IInv
  <2>2. QED
    BY <2>1, <1>7 DEF IInv, Started
<1>14. \A p \in PidCells : Proc(p)' /\ pcb'[p].parent # NoPid => Proc(pcb[p].parent)'
  <2> SUFFICES ASSUME NEW p \in PidCells, Proc(p)', pcb'[p].parent # NoPid
               PROVE  Proc(pcb[p].parent)'
    OBVIOUS
  <2>1. Proc(p) /\ pcb[p].parent # NoPid /\ pcb'[p].parent = pcb[p].parent
    BY <1>3, <1>6
  <2>2. Proc(pcb[p].parent) /\ pcb[p].parent \in PidCells
    BY <2>1 DEF IInv, TypeOK, PcbRec
  <2>3. pcb[p].parent # gp
    BY <2>1, <1>1 DEF IInv
  <2>4. QED
    BY <2>1, <2>2, <2>3, <1>6
<1>15. \A p \in PidCells, t \in Started' : Proc(p)' => pcb'[p].parent # tasks'[t].pid
  <2> SUFFICES ASSUME NEW p \in PidCells, NEW t \in Started, Proc(p)'
               PROVE  pcb'[p].parent # tasks'[t].pid
    BY <1>7
  <2>1. Proc(p) /\ p # gp /\ pcb'[p].parent = pcb[p].parent
    BY <1>3, <1>6
  <2>2. CASE t = current
    <3>1. pcb[p].parent # par
      BY <2>1, <1>1, <1>2 DEF IInv
    <3>2. QED
      BY <3>1, <2>1, <2>2, <1>7 DEF Started
  <2>3. CASE t # current
    BY <2>1, <2>3, <1>7 DEF IInv, Started
  <2>4. QED
    BY <2>2, <2>3
<1>16. /\ \A p, q \in PidCells :
             /\ Proc(p)' /\ Proc(q)'
             /\ pcb'[p].parent # NoPid /\ pcb'[p].parent = pcb'[q].parent
             => p = q
       /\ \A p \in PidCells : Proc(p)' => (pcb'[p].parent = NoPid <=> p < NumTasks)
       /\ \A p \in Tasks : Proc(p)'
  BY <1>2, <1>3, <1>6 DEF IInv, AllStarted, Tasks, PidCells
<1>17. QED
  BY <1>7, <1>10, <1>11, <1>12, <1>13, <1>14, <1>15, <1>16 DEF IInv

(* A root shell's halt reruns the shell in its own PID: every lower PID *)
(* is another slot's root and its descriptors were all just closed, so  *)
(* the execute takes that PID and FIRST_FD and cannot fail.  Only the    *)
(* root's PCB changes, and it keeps no parent and gets stdin.             *)
LEMMA HaltRootEffect ==
    ASSUME IInv, AllStarted, Halt, pcb[globalPid].parent = NoPid
    PROVE  /\ UNCHANGED <<pidUsed, tasks, current, globalPid, userPage, crashed>>
           /\ \A p \in PidCells \ {globalPid} : pcb'[p] = pcb[p]
           /\ pcb'[globalPid].parent = pcb[globalPid].parent
           /\ pcb'[globalPid].fds[0].kind = "stdin"
           /\ pcb'[globalPid].task = current
<1> DEFINE gp == globalPid
           pc1 == [pcb EXCEPT ![gp].fds = CloseAll(pcb[gp].fds)]
           u1 == [pidUsed EXCEPT ![gp] = FALSE]
           par == pcb[gp].parent
<1>2. /\ Proc(gp) /\ pidUsed[gp] /\ current \in Started
      /\ gp \in PidCells /\ gp = tasks[current].pid
  BY RunningLive DEF IInv, TypeOK
<1>3. /\ \/ par = NoPid /\ ExecuteFrom("prog", u1, pc1, tasks, gp, current,
                           crashed' = TRUE /\ UNCHANGED <<tasks, globalPid, userPage>>)
         \/ par # NoPid /\ pidUsed' = u1 /\ pcb' = pc1 /\ RestoreParent(par)
            /\ UNCHANGED crashed
      /\ UNCHANGED current
  BY DEF Halt
<1>5. par = NoPid
  OBVIOUS
<1>6. QED
  <2>1. gp \in Tasks
    BY <1>2, <1>5 DEF IInv, Tasks, PidCells
  <2>2. u1 \in [PidCells -> BOOLEAN] /\ ~u1[gp] /\ \A m \in 0 .. gp - 1 : u1[m]
    <3>1. \A m \in 0 .. gp - 1 : m \in Tasks /\ m # gp
      BY <2>1 DEF Tasks
    <3>2. \A m \in 0 .. gp - 1 : Proc(m)
      BY <3>1 DEF IInv
    <3>3. QED
      BY <1>2, <3>1, <3>2 DEF IInv, TypeOK, Proc, Tasks, PidCells
  <2>3. FirstAvailablePid(u1) = gp
    BY <1>2, <2>2, FirstAvailablePidIs
  <2>4. /\ pc1 \in [PidCells -> PcbRec]
        /\ pc1[gp].fds = CloseAll(pcb[gp].fds)
        /\ \A p \in PidCells \ {gp} : pc1[p] = pcb[p]
        /\ pc1[gp].parent = par
    <3>1. CloseAll(pcb[gp].fds) \in [FdIdx -> FdEntry]
      BY <1>2, CloseAllType DEF IInv, TypeOK, PcbRec
    <3>2. QED
      BY <1>2, <3>1 DEF IInv, TypeOK, PcbRec
  <2>5. FreeFd(pc1[gp].fds) = FirstFd
    <3>1. pcb[gp].fds \in [FdIdx -> FdEntry]
      BY <1>2 DEF IInv, TypeOK, PcbRec
    <3>2. CloseAll(pcb[gp].fds)[FirstFd].kind = "closed"
      BY <3>1 DEF CloseAll, FdIdx, FirstFd
    <3>3. CloseAll(pcb[gp].fds) \in [FdIdx -> FdEntry]
      BY <3>1, CloseAllType
    <3>4. FreeFd(CloseAll(pcb[gp].fds)) = FirstFd
      BY <3>2, <3>3, FreeFdFirst
    <3>5. QED
      BY <2>4, <3>4
  <2> DEFINE opened == ExecOpened(pc1, gp, "prog")
  <2>6. opened \in [FdIdx -> FdEntry]
    <3>1. "prog" \in FileNames \ {"missing"} /\ FirstFd \in FirstFd .. FdArraySize - 1
      BY DEF FileNames, FirstFd
    <3>2. QED
      BY <1>2, <2>4, <2>5, <3>1, ExecOpenedFacts
  <2>7. /\ pidUsed' = [u1 EXCEPT ![gp] = TRUE]
        /\ pcb' = LoadedPcbs(pc1, gp, opened, FirstFd, gp, current)
        /\ tasks' = [tasks EXCEPT ![current].pid = gp]
        /\ globalPid' = gp /\ userPage' = gp /\ crashed' = crashed
    <3>1. ExecuteFrom("prog", u1, pc1, tasks, gp, current,
                      crashed' = TRUE /\ UNCHANGED <<tasks, globalPid, userPage>>)
      BY <1>3, <1>5
    <3>2. "prog" \in Commands /\ tasks \in [Tasks -> [pid : PidCells, started : BOOLEAN]]
      BY DEF IInv, TypeOK, Commands, FileNames
    <3>3. \/ /\ pidUsed' = u1 /\ pcb' = pc1
             /\ crashed' = TRUE /\ UNCHANGED <<tasks, globalPid, userPage>>
             /\ \/ FirstAvailablePid(u1) = NoPid \/ "prog" \in {"null", "missing"}
                \/ FreeFd(pc1[gp].fds) = NoPid
          \/ /\ pidUsed' = u1
             /\ crashed' = TRUE /\ UNCHANGED <<tasks, globalPid, userPage>>
             /\ "prog" \in FileNames \ {"missing", "prog"}
             /\ FreeFd(pc1[gp].fds) \in FirstFd .. FdArraySize - 1
             /\ pcb' = [pc1 EXCEPT ![gp].fds = opened]
          \/ /\ FirstAvailablePid(u1) \in PidCells /\ ~u1[FirstAvailablePid(u1)]
             /\ "prog" \in FileNames \ {"missing"}
             /\ FreeFd(pc1[gp].fds) \in FirstFd .. FdArraySize - 1
             /\ pidUsed' = [u1 EXCEPT ![FirstAvailablePid(u1)] = TRUE]
             /\ pcb' = LoadedPcbs(pc1, gp, opened, FreeFd(pc1[gp].fds),
                                  FirstAvailablePid(u1), current)
             /\ tasks' = [tasks EXCEPT ![current].pid = FirstAvailablePid(u1)]
             /\ globalPid' = FirstAvailablePid(u1) /\ userPage' = FirstAvailablePid(u1)
             /\ crashed' = crashed
      <4>1. current \in Tasks
        BY DEF IInv, TypeOK
      <4> HIDE DEF pc1, u1
      <4>2. QED
        BY <3>1, <3>2, <4>1, <2>2, <2>4, <1>2, ExecuteFromOutcome
    <3>4. gp # NoPid /\ FirstFd # NoPid
      BY <1>2 DEF NoPid, FirstFd, PidCells
    <3>5. QED
      BY <3>3, <3>4, <2>3, <2>5 DEF FileNames
  <2>8. pidUsed' = pidUsed /\ tasks' = tasks
    BY <2>7, <1>2 DEF IInv, TypeOK
  <2>9. /\ \A p \in PidCells \ {gp} : pcb'[p] = pcb[p]
        /\ pcb'[gp].parent = NoPid
        /\ pcb'[gp].fds[0].kind = "stdin"
    <3> DEFINE L == LoadedPcbs(pc1, gp, opened, FirstFd, gp, current)
    <3>1. /\ \A p \in PidCells \ {gp, gp} : L[p] = pc1[p]
          /\ L[gp].parent = ParentPid(gp, gp)
          /\ L[gp].fds[0].kind = "stdin"
      <4>1. FirstFd \in FirstFd .. FdArraySize - 1 /\ current \in Tasks
        BY DEF FirstFd, IInv, TypeOK
      <4> HIDE DEF pc1, opened
      <4>2. QED
        BY <1>2, <2>4, <2>6, <4>1, LoadedPcbsFacts
    <3>2. ParentPid(gp, gp) = NoPid
      BY <2>1 DEF ParentPid, Tasks
    <3>3. QED
      BY <2>4, <2>7, <3>1, <3>2
  <2>10. UNCHANGED <<pidUsed, tasks, current, globalPid, userPage, crashed>>
    BY <2>7, <2>8, <1>3 DEF IInv
  <2>11. pcb'[gp].parent = pcb[gp].parent
    BY <2>9, <1>5
  <2>13. pcb'[gp].task = current
    <3>1. FirstFd \in FirstFd .. FdArraySize - 1 /\ current \in Tasks
      BY DEF FirstFd, IInv, TypeOK
    <3> HIDE DEF pc1, opened
    <3>2. QED
      BY <1>2, <2>4, <2>6, <2>7, <3>1, LoadedPcbsTask
  <2>12. QED
    BY <2>9, <2>10, <2>11, <2>13

(* sys_halt keeps the invariant.  A root shell's halt reruns the shell in *)
(* its own PID: every lower PID is another slot's root and its descriptors *)
(* were all just closed, so the execute takes that PID and FIRST_FD and    *)
(* cannot fail.                                                            *)
LEMMA HaltIInv ==
    ASSUME IInv, AllStarted, Halt
    PROVE  IInv'
<1> DEFINE gp == globalPid
           pc1 == [pcb EXCEPT ![gp].fds = CloseAll(pcb[gp].fds)]
           u1 == [pidUsed EXCEPT ![gp] = FALSE]
           par == pcb[gp].parent
<1>1. TypeOK'
  BY NextTypeOK DEF IInv, Next
<1>2. /\ Proc(gp) /\ pidUsed[gp] /\ current \in Started
      /\ gp \in PidCells /\ gp = tasks[current].pid
  BY RunningLive DEF IInv, TypeOK
<1>3. /\ \/ par = NoPid /\ ExecuteFrom("prog", u1, pc1, tasks, gp, current,
                           crashed' = TRUE /\ UNCHANGED <<tasks, globalPid, userPage>>)
         \/ par # NoPid /\ pidUsed' = u1 /\ pcb' = pc1 /\ RestoreParent(par)
            /\ UNCHANGED crashed
      /\ UNCHANGED current
  BY DEF Halt
<1>4. CASE par # NoPid
  BY <1>1, <1>3, <1>4, HaltParentStep DEF RestoreParent
<1>5. CASE par = NoPid
  BY <1>1, <1>2, <1>5, HaltRootEffect, RunningPcbStep
<1>6. QED
  BY <1>4, <1>5

(* A stuttering step keeps the invariant.                                 *)
LEMMA StutterIInv ==
    ASSUME IInv, UNCHANGED vars
    PROVE  IInv'
BY DEF vars, IInv, TypeOK, Proc, Started, AllStarted, FreshPcbClean

(* sys_open keeps the invariant: it fills a descriptor at FIRST_FD or     *)
(* above.                                                                  *)
LEMMA OpenIInv ==
    ASSUME IInv, AllStarted, NEW name \in FileNames, Open(name)
    PROVE  IInv'
<1> DEFINE fds == pcb[globalPid].fds
           fd == FreeFd(fds)
           F == [fds EXCEPT ![fd] = OpenedEntry(fds, fd, name)]
<1>1. globalPid \in PidCells /\ fds \in [FdIdx -> FdEntry]
  BY DEF IInv, TypeOK, PcbRec
<1>2. fd \in FirstFd .. FdArraySize - 1 /\ name # "missing"
  BY <1>1, FreeFdType DEF Open
<1>3. F \in [FdIdx -> FdEntry] /\ F[0] = fds[0]
  <2>1. fd \in FdIdx /\ fd # 0
    BY <1>2 DEF FdIdx, FirstFd
  <2>2. OpenedEntry(fds, fd, name) \in FdEntry
    BY <1>1, <1>2, <2>1, OpenedEntryType
  <2>3. QED
    BY <1>1, <2>1, <2>2 DEF FdIdx
<1>4. QED
  BY <1>3, FdsOnlyStep DEF Open

(* sys_close keeps the invariant: it clears a descriptor at FIRST_FD or   *)
(* above.                                                                  *)
LEMMA CloseIInv ==
    ASSUME IInv, AllStarted, NEW fd \in FirstFd .. FdArraySize - 1, Close(fd)
    PROVE  IInv'
<1> DEFINE F == ClosedFd(pcb[globalPid].fds, fd)
<1>1. globalPid \in PidCells /\ pcb[globalPid].fds \in [FdIdx -> FdEntry]
  BY DEF IInv, TypeOK, PcbRec
<1>2. fd \in FdIdx /\ fd # 0
  BY DEF FdIdx, FirstFd
<1>3. F \in [FdIdx -> FdEntry] /\ F[0] = pcb[globalPid].fds[0]
  BY <1>1, <1>2, ClosedFdType DEF ClosedFd
<1>4. pcb' = [pcb EXCEPT ![globalPid].fds = F]
  BY DEF Close
<1>5. QED
  BY <1>3, <1>4, FdsOnlyStep DEF Close

(* sys_execute called by a user program keeps the invariant, whether it   *)
(* fails before opening the file, fails on the ELF check, or succeeds.     *)
LEMMA ExecuteIInv ==
    ASSUME IInv, AllStarted, NEW c \in Commands, Execute(c)
    PROVE  IInv'
<1> DEFINE gp == globalPid
           np == FirstAvailablePid(pidUsed)
           fd == FreeFd(pcb[gp].fds)
           opened == ExecOpened(pcb, gp, c)
<1>1. /\ gp \in PidCells /\ pidUsed \in [PidCells -> BOOLEAN]
      /\ pcb \in [PidCells -> PcbRec]
      /\ tasks \in [Tasks -> [pid : PidCells, started : BOOLEAN]]
      /\ current \in Tasks
  BY DEF IInv, TypeOK
<1>2. /\ ExecuteFrom(c, pidUsed, pcb, tasks, gp, current,
                     UNCHANGED <<tasks, globalPid, userPage, crashed>>)
      /\ UNCHANGED current
  BY DEF Execute
<1>3. \/ /\ pidUsed' = pidUsed /\ pcb' = pcb
         /\ UNCHANGED <<tasks, globalPid, userPage, crashed>>
      \/ /\ pidUsed' = pidUsed /\ UNCHANGED <<tasks, globalPid, userPage, crashed>>
         /\ c \in FileNames \ {"missing", "prog"}
         /\ fd \in FirstFd .. FdArraySize - 1
         /\ pcb' = [pcb EXCEPT ![gp].fds = opened]
      \/ /\ np \in PidCells /\ ~pidUsed[np]
         /\ c \in FileNames \ {"missing"}
         /\ fd \in FirstFd .. FdArraySize - 1
         /\ pidUsed' = [pidUsed EXCEPT ![np] = TRUE]
         /\ pcb' = LoadedPcbs(pcb, gp, opened, fd, np, current)
         /\ tasks' = [tasks EXCEPT ![current].pid = np]
         /\ globalPid' = np /\ userPage' = np /\ crashed' = crashed
  BY <1>1, <1>2, ExecuteFromOutcome
<1>4. ASSUME c \in FileNames \ {"missing"}, fd \in FirstFd .. FdArraySize - 1
      PROVE  opened \in [FdIdx -> FdEntry] /\ opened[0] = pcb[gp].fds[0]
  <2>1. 0 \in FdIdx \ {fd}
    BY <1>4 DEF FdIdx, FirstFd
  <2>2. QED
    BY <1>1, <1>4, <2>1, ExecOpenedFacts
<1>5. TypeOK'
  BY NextTypeOK DEF IInv, Next
<1>6. QED
  BY <1>2, <1>3, <1>4, <1>5, StutterIInv, FdsOnlyStep, ExecSuccessStep DEF vars

(* While slots are still being started, the slot after current_task is   *)
(* the next one to start, and neither the wrap-around nor a started slot  *)
(* is reached.                                                             *)
LEMMA PrefixNext ==
    ASSUME IInv, ~AllStarted
    PROVE  /\ current + 1 \in Tasks
           /\ NextTask(current) = current + 1
           /\ ~tasks[current + 1].started
<1>1. PICK t \in Tasks : ~tasks[t].started
  BY DEF AllStarted
<1>2. current < t
  BY <1>1 DEF IInv, TypeOK, Tasks
<1>3. current + 1 \in Tasks
  BY <1>2 DEF IInv, TypeOK, Tasks
<1>4. NextTask(current) = current + 1
  <2>1. current + 1 \in 0 .. NumTasks - 1
    BY <1>3 DEF Tasks
  <2>2. QED
    BY <2>1 DEF NextTask
<1>5. ~tasks[current + 1].started
  BY <1>3 DEF IInv, TypeOK, Tasks
<1>6. QED
  BY <1>3, <1>4, <1>5

(* schedule() resuming the next slot, which already runs a process:      *)
(* only current_task, global_pid and the user page move.                   *)
LEMMA ResumeStep ==
    ASSUME IInv, tasks[NextTask(current)].started,
           current' = NextTask(current),
           globalPid' = tasks[NextTask(current)].pid,
           userPage' = tasks[NextTask(current)].pid,
           UNCHANGED <<pidUsed, pcb, tasks, crashed>>
    PROVE  IInv'
<1>1. AllStarted
  BY PrefixNext
<1>2. NextTask(current) \in Tasks
  <2>1. current + 1 \in Nat
    BY DEF IInv, TypeOK, Tasks
  <2>2. QED
    BY <2>1 DEF NextTask, Tasks
<1>3. Started' = Started /\ AllStarted'
  BY <1>1 DEF Started, AllStarted
<1>4. \A p \in PidCells : Proc(p)' <=> Proc(p)
  BY DEF Proc
<1>5. TypeOK'
  BY <1>2 DEF IInv, TypeOK
<1>6. /\ globalPid' = tasks'[current'].pid
      /\ userPage' = globalPid'
      /\ tasks'[current'].started
      /\ ~crashed'
  BY DEF IInv
<1>7. FreshPcbClean'
  BY DEF IInv, FreshPcbClean
<1>8. /\ \A t \in Started' : Proc(tasks[t].pid)'
      /\ \A t1, t2 \in Started' : t1 # t2 => tasks'[t1].pid # tasks'[t2].pid
  BY <1>3, <1>4 DEF IInv, TypeOK, Started
<1>9. /\ \A p \in PidCells :
            Proc(p)' /\ pcb'[p].parent # NoPid => Proc(pcb[p].parent)'
      /\ \A p \in PidCells, t \in Started' : Proc(p)' => pcb'[p].parent # tasks'[t].pid
  <2>1. \A p \in PidCells : Proc(p) /\ pcb[p].parent # NoPid => pcb[p].parent \in PidCells
    BY DEF IInv, TypeOK, PcbRec
  <2>2. QED
    BY <1>3, <1>4, <2>1 DEF IInv
<1>10. /\ \A p, q \in PidCells :
             /\ Proc(p)' /\ Proc(q)'
             /\ pcb'[p].parent # NoPid /\ pcb'[p].parent = pcb'[q].parent
             => p = q
       /\ \A p \in PidCells : Proc(p)' => (pcb'[p].parent = NoPid <=> p < NumTasks)
       /\ \A p \in Tasks : Proc(p)'
  BY <1>1, <1>4 DEF IInv, AllStarted, Tasks, PidCells
<1>11. QED
  BY <1>3, <1>5, <1>6, <1>7, <1>8, <1>9, <1>10 DEF IInv

(* schedule() starting the next slot while slots are still being started: *)
(* the slot number is the lowest free PID and FIRST_FD is free in the      *)
(* running shell, so the shell's execute succeeds and the new root runs    *)
(* with the slot's own PID.                                                *)
LEMMA LazyStartStep ==
    ASSUME IInv, ~AllStarted, Schedule,
           NEW nt, nt = current + 1, NEW gp, gp = globalPid
    PROVE  /\ IInv'
           /\ nt \in Tasks /\ ~pidUsed[nt] /\ pidUsed'[nt] /\ Proc(nt)'
           /\ pcb'[nt].parent = NoPid /\ pcb'[nt].task = nt
           /\ \A p \in PidCells \ {nt} :
                 /\ pidUsed'[p] = pidUsed[p] /\ (Proc(p)' <=> Proc(p))
                 /\ pcb'[p].parent = pcb[p].parent /\ pcb'[p].task = pcb[p].task
           /\ tasks'[nt].pid = nt /\ tasks'[nt].started
           /\ \A t \in Tasks \ {nt} : tasks'[t] = tasks[t]
<1> DEFINE tk == [tasks EXCEPT ![nt].started = TRUE]
           opened == ExecOpened(pcb, gp, "prog")
<1>1. nt \in Tasks /\ NextTask(current) = nt /\ ~tasks[nt].started
  BY PrefixNext
<1>2. TypeOK'
  BY NextTypeOK DEF IInv, Next
<1>30. TypeOK /\ ~crashed
  BY DEF IInv
<1>31. /\ \A t \in Tasks : tasks[t].started <=> t <= current
      /\ \A t \in Tasks : t <= current => tasks[t].pid = t
      /\ \A p \in 0 .. NumProcesses - 1 : pidUsed[p] <=> p <= current
  BY DEF IInv
<1>32. \A t \in Started : Proc(tasks[t].pid)
  BY DEF IInv
<1>33. current \in Tasks /\ nt = current + 1
  BY <1>30 DEF TypeOK
<1>34. \A q \in 0 .. NumProcesses - 1 : pidUsed[q] <=> q <= current
  BY DEF IInv
<1>3. /\ gp = current /\ gp \in Tasks /\ gp \in PidCells /\ nt \in PidCells
      /\ pidUsed[gp] /\ ~pidUsed[nt] /\ \A m \in 0 .. nt - 1 : pidUsed[m]
      /\ \A i \in FirstFd .. FdArraySize - 1 : pcb[gp].fds[i].kind = "closed"
  <2>1. current \in Tasks /\ current <= current
    BY DEF IInv, TypeOK, Tasks
  <2>2. gp = current
    BY <2>1 DEF IInv
  <2>3. nt \in 0 .. NumProcesses - 1 /\ current \in 0 .. NumProcesses - 1
    BY <1>1, <2>1 DEF Tasks
  <2>4. \A m \in 0 .. nt - 1 : m \in 0 .. NumProcesses - 1 /\ m <= current
    BY <2>3
  <2>5. QED
    BY <2>1, <2>2, <2>3, <2>4 DEF IInv, Tasks, PidCells
<1>4. FirstAvailablePid(pidUsed) = nt
  BY <1>3, FirstAvailablePidIs DEF IInv, TypeOK
<1>5. FreeFd(pcb[gp].fds) = FirstFd
  <2>1. pcb[gp].fds \in [FdIdx -> FdEntry]
    BY <1>3 DEF IInv, TypeOK, PcbRec
  <2>2. FirstFd \in FirstFd .. FdArraySize - 1
    BY DEF FirstFd
  <2>3. QED
    BY <1>3, <2>1, <2>2, FreeFdFirst
<1>6. /\ opened \in [FdIdx -> FdEntry]
      /\ opened[0] = pcb[gp].fds[0]
  <2>1. "prog" \in FileNames \ {"missing"} /\ FirstFd \in FirstFd .. FdArraySize - 1
    BY DEF FileNames, FirstFd
  <2>2. 0 \in FdIdx \ {FirstFd}
    BY DEF FdIdx, FirstFd
  <2>3. QED
    BY <1>3, <1>5, <2>1, <2>2, ExecOpenedFacts DEF IInv, TypeOK
<1>7. /\ current' = nt
      /\ ExecuteFrom("prog", pidUsed, pcb, tk, gp, nt,
                     /\ tasks' = tk
                     /\ globalPid' = tasks[nt].pid
                     /\ userPage' = tasks[nt].pid
                     /\ crashed' = TRUE)
  BY <1>1 DEF Schedule
<1>8. /\ pidUsed' = [pidUsed EXCEPT ![nt] = TRUE]
      /\ pcb' = LoadedPcbs(pcb, gp, opened, FirstFd, nt, nt)
      /\ tasks' = [tk EXCEPT ![nt].pid = nt]
      /\ globalPid' = nt /\ userPage' = nt /\ crashed' = crashed
  <2>1. tk \in [Tasks -> [pid : PidCells, started : BOOLEAN]]
    <3>1. tasks \in [Tasks -> [pid : PidCells, started : BOOLEAN]]
      BY DEF IInv, TypeOK
    <3>2. [tasks[nt] EXCEPT !.started = TRUE] \in [pid : PidCells, started : BOOLEAN]
      BY <1>1, <3>1
    <3>3. QED
      BY <1>1, <3>1, <3>2
  <2>2. \/ /\ pidUsed' = pidUsed /\ pcb' = pcb
           /\ tasks' = tk /\ globalPid' = tasks[nt].pid
           /\ userPage' = tasks[nt].pid /\ crashed' = TRUE
           /\ \/ FirstAvailablePid(pidUsed) = NoPid \/ "prog" \in {"null", "missing"}
              \/ FreeFd(pcb[gp].fds) = NoPid
        \/ /\ pidUsed' = pidUsed
           /\ tasks' = tk /\ globalPid' = tasks[nt].pid
           /\ userPage' = tasks[nt].pid /\ crashed' = TRUE
           /\ "prog" \in FileNames \ {"missing", "prog"}
           /\ FreeFd(pcb[gp].fds) \in FirstFd .. FdArraySize - 1
           /\ pcb' = [pcb EXCEPT ![gp].fds = opened]
        \/ /\ FirstAvailablePid(pidUsed) \in PidCells /\ ~pidUsed[FirstAvailablePid(pidUsed)]
           /\ "prog" \in FileNames \ {"missing"}
           /\ FreeFd(pcb[gp].fds) \in FirstFd .. FdArraySize - 1
           /\ pidUsed' = [pidUsed EXCEPT ![FirstAvailablePid(pidUsed)] = TRUE]
           /\ pcb' = LoadedPcbs(pcb, gp, opened, FreeFd(pcb[gp].fds),
                                FirstAvailablePid(pidUsed), nt)
           /\ tasks' = [tk EXCEPT ![nt].pid = FirstAvailablePid(pidUsed)]
           /\ globalPid' = FirstAvailablePid(pidUsed)
           /\ userPage' = FirstAvailablePid(pidUsed)
           /\ crashed' = crashed
    <3> HIDE DEF tk
    <3>1. QED
      BY <1>1, <1>3, <1>7, <2>1, ExecuteFromOutcome DEF IInv, TypeOK, Commands, FileNames
  <2>3. nt # NoPid /\ FirstFd # NoPid
    BY <1>3 DEF NoPid, FirstFd, PidCells
  <2>4. QED
    BY <2>2, <2>3, <1>4, <1>5 DEF FileNames
<1>9. /\ \A p \in PidCells \ {gp, nt} : pcb'[p] = pcb[p]
      /\ pcb'[nt].parent = NoPid
      /\ pcb'[nt].fds[0].kind = "stdin"
      /\ \A i \in FirstFd .. FdArraySize - 1 : pcb'[nt].fds[i] = pcb[nt].fds[i]
      /\ pcb'[gp].parent = pcb[gp].parent
      /\ pcb'[gp].fds[0] = pcb[gp].fds[0]
  <2> DEFINE L == LoadedPcbs(pcb, gp, opened, FirstFd, nt, nt)
  <2>1. /\ \A p \in PidCells \ {gp, nt} : L[p] = pcb[p]
        /\ L[nt].parent = ParentPid(nt, gp)
        /\ L[nt].fds[0].kind = "stdin"
        /\ nt # gp =>
             /\ \A i \in FirstFd .. FdArraySize - 1 : L[nt].fds[i] = pcb[nt].fds[i]
             /\ L[gp].parent = pcb[gp].parent
             /\ L[gp].fds[0] = opened[0]
    <3>1. pcb \in [PidCells -> PcbRec] /\ FirstFd \in FirstFd .. FdArraySize - 1
      BY DEF IInv, TypeOK, FirstFd
    <3> HIDE DEF opened
    <3>2. QED
      BY <1>1, <1>3, <1>6, <3>1, LoadedPcbsFacts
  <2>2. ParentPid(nt, gp) = NoPid /\ nt # gp
    BY <1>1, <1>3 DEF ParentPid, Tasks
  <2>3. QED
    BY <1>6, <1>8, <2>1, <2>2
<1>10. /\ pidUsed'[nt] = TRUE
       /\ \A p \in PidCells \ {nt} : pidUsed'[p] = pidUsed[p]
  BY <1>3, <1>8, <1>30 DEF TypeOK
<1>11. /\ \A t \in Tasks : tasks'[t].started <=> t <= nt
       /\ \A t \in Tasks : t <= nt => tasks'[t].pid = t
  <2>1. /\ tasks'[nt].pid = nt /\ tasks'[nt].started
        /\ \A t \in Tasks \ {nt} : tasks'[t] = tasks[t]
    BY <1>1, <1>8, <1>30 DEF TypeOK
  <2>2. \A t \in Tasks : t <= nt <=> (t = nt \/ t <= current)
    BY <1>33 DEF Tasks
  <2>3. QED
    BY <2>1, <2>2, <1>31
<1>12. /\ \A p \in PidCells \ {nt} : Proc(p)' <=> Proc(p)
       /\ Proc(nt)' /\ ~Proc(nt)
       /\ \A p \in PidCells \ {nt} : pcb'[p].parent = pcb[p].parent
  <2>1. \A p \in PidCells \ {gp, nt} : Proc(p)' <=> Proc(p)
    BY <1>9, <1>10 DEF Proc
  <2>2. Proc(gp)' <=> Proc(gp)
    <3>1. gp # nt
      BY <1>3
    <3>2. pidUsed'[gp] = pidUsed[gp] /\ pcb'[gp].fds[0] = pcb[gp].fds[0]
      BY <1>3, <1>9, <1>10, <3>1
    <3>3. QED
      BY <3>2 DEF Proc
  <2>3. Proc(nt)' /\ ~Proc(nt)
    <3>1. pidUsed'[nt] /\ pcb'[nt].fds[0].kind = "stdin"
      BY <1>9, <1>10
    <3>2. QED
      BY <1>3, <3>1 DEF Proc
  <2>4. QED
    BY <1>3, <1>9, <2>1, <2>2, <2>3
<1>13. \A t \in Tasks : t <= current => Proc(t) /\ t # nt
  <2>1. \A t \in Tasks : t <= current => t \in Started /\ tasks[t].pid = t
    BY <1>31 DEF Started
  <2>2. QED
    BY <2>1, <1>32, <1>33 DEF Tasks
<1>14. \A p \in PidCells : Proc(p) /\ pcb[p].parent # NoPid =>
          pcb[p].parent \in PidCells /\ pcb[p].parent # nt
  BY <1>12 DEF IInv, TypeOK, PcbRec
<1>15. /\ globalPid' = tasks'[current'].pid
       /\ userPage' = globalPid'
       /\ tasks'[current'].started
       /\ ~crashed'
  <2>1. tasks'[nt].pid = nt /\ tasks'[nt].started
    BY <1>1, <1>8, <1>30 DEF TypeOK
  <2>2. QED
    BY <1>7, <1>8, <1>30, <2>1
<1>16. \A t \in Started' : Proc(tasks[t].pid)'
  <2> SUFFICES ASSUME NEW t \in Tasks, tasks'[t].started PROVE Proc(tasks[t].pid)'
    BY DEF Started
  <2>1. t <= nt /\ tasks'[t].pid = t
    BY <1>11
  <2>2. CASE t = nt
    BY <2>1, <2>2, <1>12
  <2>3. CASE t # nt
    <3>1. t <= current /\ t \in PidCells \ {nt}
      BY <2>1, <2>3, <1>33 DEF Tasks, PidCells
    <3>2. Proc(t)
      BY <3>1, <1>13
    <3>3. Proc(t)'
      BY <3>1, <3>2, <1>12
    <3>4. QED
      BY <2>1, <3>3
  <2>4. QED
    BY <2>2, <2>3
<1>17. \A t1, t2 \in Started' : t1 # t2 => tasks'[t1].pid # tasks'[t2].pid
  BY <1>11 DEF Started
<1>18. \A p \in PidCells : Proc(p)' /\ pcb'[p].parent # NoPid => Proc(pcb[p].parent)'
  <2> SUFFICES ASSUME NEW p \in PidCells, Proc(p)', pcb'[p].parent # NoPid
               PROVE  Proc(pcb[p].parent)'
    OBVIOUS
  <2>1. p # nt /\ Proc(p) /\ pcb'[p].parent = pcb[p].parent
    BY <1>9, <1>12
  <2>2. Proc(pcb[p].parent) /\ pcb[p].parent \in PidCells \ {nt}
    BY <2>1, <1>14 DEF IInv
  <2>3. QED
    BY <2>1, <2>2, <1>12
<1>19. \A p \in PidCells, t \in Started' : Proc(p)' => pcb'[p].parent # tasks'[t].pid
  <2> SUFFICES ASSUME NEW p \in PidCells, NEW t \in Tasks, tasks'[t].started, Proc(p)'
               PROVE  pcb'[p].parent # tasks'[t].pid
    BY DEF Started
  <2>1. t <= nt /\ tasks'[t].pid = t
    BY <1>11
  <2>2. CASE p = nt
    BY <2>1, <2>2, <1>9 DEF NoPid, Tasks
  <2>3. CASE p # nt /\ t = nt
    <3>1. Proc(p) /\ pcb'[p].parent = pcb[p].parent
      BY <2>3, <1>12
    <3>2. pcb[p].parent # nt
      BY <3>1, <1>14, <1>1 DEF NoPid, Tasks
    <3>3. QED
      BY <2>1, <2>3, <3>1, <3>2
  <2>4. CASE p # nt /\ t # nt
    <3>1. Proc(p) /\ pcb'[p].parent = pcb[p].parent
      BY <2>4, <1>12
    <3>2. t \in Started /\ tasks[t].pid = t
      BY <2>1, <2>4, <1>31, <1>33 DEF Started, Tasks
    <3>3. QED
      BY <2>1, <3>1, <3>2 DEF IInv
  <2>5. QED
    BY <2>2, <2>3, <2>4
<1>20. \A p, q \in PidCells :
          /\ Proc(p)' /\ Proc(q)'
          /\ pcb'[p].parent # NoPid /\ pcb'[p].parent = pcb'[q].parent
          => p = q
  <2> SUFFICES ASSUME NEW p \in PidCells, NEW q \in PidCells,
                      Proc(p)', Proc(q)',
                      pcb'[p].parent # NoPid, pcb'[p].parent = pcb'[q].parent
               PROVE  p = q
    OBVIOUS
  <2>1. p # nt /\ q # nt
    BY <1>9
  <2>2. QED
    BY <2>1, <1>12 DEF IInv
<1>21. \A p \in PidCells : Proc(p)' => (pcb'[p].parent = NoPid <=> p < NumTasks)
  <2> SUFFICES ASSUME NEW p \in PidCells, Proc(p)'
               PROVE  pcb'[p].parent = NoPid <=> p < NumTasks
    OBVIOUS
  <2>1. CASE p = nt
    BY <2>1, <1>1, <1>9 DEF Tasks
  <2>2. CASE p # nt
    BY <2>2, <1>12 DEF IInv
  <2>3. QED
    BY <2>1, <2>2
<1>22. AllStarted' => \A p \in Tasks : Proc(p)'
  <2> SUFFICES ASSUME AllStarted', NEW p \in Tasks PROVE Proc(p)'
    OBVIOUS
  <2>1. tasks'[p].started /\ tasks'[p].pid = p
    BY <1>11 DEF AllStarted
  <2>2. QED
    BY <2>1, <1>16 DEF Started
<1>23. ~AllStarted' =>
          /\ \A t \in Tasks : tasks'[t].started <=> t <= current'
          /\ \A t \in Tasks : t <= current' => tasks'[t].pid = t
          /\ \A p \in 0 .. NumProcesses - 1 : pidUsed'[p] <=> p <= current'
          /\ \A i \in FirstFd .. FdArraySize - 1 : pcb'[globalPid'].fds[i].kind = "closed"
  <2>1. \A p \in 0 .. NumProcesses - 1 : pidUsed'[p] <=> p <= nt
    <3> SUFFICES ASSUME NEW p \in 0 .. NumProcesses - 1
                 PROVE  pidUsed'[p] <=> p <= nt
      OBVIOUS
    <3>1. p \in PidCells
      BY DEF PidCells
    <3>2. CASE p = nt
      BY <3>2, <1>10
    <3>3. CASE p # nt
      <4>1. pidUsed'[p] = pidUsed[p]
        BY <3>1, <3>3, <1>10
      <4>2. pidUsed[p] <=> p <= current
        <5>1. p \in 0 .. NumProcesses - 1
          OBVIOUS
        <5>2. QED
          BY <5>1, <1>34
      <4>3. p <= nt <=> p <= current
        BY <3>3, <1>33 DEF Tasks
      <4>4. QED
        BY <4>1, <4>2, <4>3, Zenon
    <3>4. QED
      BY <3>2, <3>3
  <2>2. \A i \in FirstFd .. FdArraySize - 1 : pcb'[nt].fds[i].kind = "closed"
    BY <1>3, <1>9 DEF IInv, FreshPcbClean
  <2>3. QED
    BY <1>7, <1>8, <1>11, <2>1, <2>2
<1>24. FreshPcbClean'
  <2> SUFFICES ASSUME NEW p \in PidCells, ~pidUsed'[p],
                      NEW i \in FirstFd .. FdArraySize - 1
               PROVE  pcb'[p].fds[i].kind = "closed"
    BY DEF FreshPcbClean
  <2>1. p # gp /\ p # nt /\ ~pidUsed[p]
    BY <1>3, <1>10
  <2>2. QED
    BY <1>9, <2>1 DEF IInv, FreshPcbClean
<1>25. IInv'
  BY <1>2, <1>15, <1>16, <1>17, <1>18, <1>19, <1>20, <1>21, <1>22, <1>23, <1>24
     DEF IInv
<1>26. pcb'[nt].task = nt /\ \A p \in PidCells \ {nt} : pcb'[p].task = pcb[p].task
  <2>1. /\ FirstFd \in FirstFd .. FdArraySize - 1 /\ nt \in Tasks
        /\ pcb \in [PidCells -> PcbRec] /\ opened \in [FdIdx -> FdEntry]
    BY <1>1, <1>6 DEF IInv, TypeOK, FirstFd
  <2> HIDE DEF opened
  <2>2. /\ LoadedPcbs(pcb, gp, opened, FirstFd, nt, nt)[nt].task = nt
        /\ LoadedPcbs(pcb, gp, opened, FirstFd, nt, nt)[gp].task = pcb[gp].task
    BY <1>3, <2>1, LoadedPcbsTask
  <2>3. QED
    BY <1>3, <1>8, <1>9, <2>2
<1>27. /\ tasks'[nt].pid = nt /\ tasks'[nt].started
       /\ \A t \in Tasks \ {nt} : tasks'[t] = tasks[t]
  BY <1>1, <1>8, <1>30 DEF TypeOK
<1>28. QED
  BY <1>1, <1>3, <1>9, <1>10, <1>12, <1>25, <1>26, <1>27


(* schedule() keeps the invariant: once every slot has started it resumes *)
(* the next slot; before that, it starts the next slot's shell.            *)
LEMMA ScheduleIInv ==
    ASSUME IInv, Schedule
    PROVE  IInv'
<1>1. CASE AllStarted
  <2> DEFINE nt == NextTask(current)
  <2>1. nt \in Tasks
    <3>1. current + 1 \in Nat
      BY DEF IInv, TypeOK, Tasks
    <3>2. QED
      BY <3>1 DEF NextTask, Tasks
  <2>2. tasks[nt].started
    BY <1>1, <2>1 DEF AllStarted
  <2>3. /\ current' = nt
        /\ globalPid' = tasks[nt].pid
        /\ userPage' = tasks[nt].pid
        /\ UNCHANGED <<pidUsed, pcb, tasks, crashed>>
    BY <2>2 DEF Schedule
  <2>4. QED
    BY <2>2, <2>3, ResumeStep
<1>2. CASE ~AllStarted
  BY <1>2, LazyStartStep
<1>3. QED
  BY <1>1, <1>2

(* Without the start-up race every step of the kernel keeps the invariant: *)
(* user code calls only once every slot has started.                        *)
LEMMA NextIInv ==
    ASSUME ~StartupRace, IInv, [Next]_vars
    PROVE  IInv'
<1>1. UserMayCall => AllStarted
  BY DEF UserMayCall, AllStarted
<1>2. CASE \E c \in Commands : Execute(c)
  <2>1. PICK c \in Commands : Execute(c)
    BY <1>2
  <2>2. AllStarted
    BY <1>1, <2>1 DEF Execute
  <2>3. QED
    BY <2>1, <2>2, ExecuteIInv
<1>3. CASE Halt
  BY <1>1, <1>3, HaltIInv DEF Halt
<1>4. CASE \E n \in FileNames : Open(n)
  <2>1. PICK n \in FileNames : Open(n)
    BY <1>4
  <2>2. AllStarted
    BY <1>1, <2>1 DEF Open
  <2>3. QED
    BY <2>1, <2>2, OpenIInv
<1>5. CASE \E fd \in FirstFd .. FdArraySize - 1 : Close(fd)
  <2>1. PICK fd \in FirstFd .. FdArraySize - 1 : Close(fd)
    BY <1>5
  <2>2. AllStarted
    BY <1>1, <2>1 DEF Close
  <2>3. QED
    BY <2>1, <2>2, CloseIInv
<1>6. CASE Schedule
  BY <1>6, ScheduleIInv
<1>7. CASE UNCHANGED vars
  BY <1>7, StutterIInv
<1>8. QED
  BY <1>2, <1>3, <1>4, <1>5, <1>6, <1>7 DEF Next

(* The inductive invariant holds in every reachable state when user code  *)
(* waits for the scheduler to start every slot.                            *)
THEOREM IInvHolds ==
    ASSUME ~StartupRace
    PROVE  Spec => []IInv
<1>1. Init => IInv
  BY InitIInv
<1>2. IInv /\ [Next]_vars => IInv'
  BY NextIInv
<1>3. QED
  BY <1>1, <1>2, PTL DEF Spec

(* RunningContext: schedule, execute and halt always leave global_pid,    *)
(* tasks[current_task].pid and the user page mapping in agreement, on a   *)
(* live process.                                                           *)
THEOREM RunningContextHolds ==
    ASSUME ~StartupRace
    PROVE  Spec => []RunningContext
<1>1. IInv => RunningContext
  BY RunningLive DEF IInv, RunningContext
<1>2. QED
  BY <1>1, IInvHolds, PTL

(* FreshPcbClean: every free PID's PCB has all descriptors above stdout   *)
(* closed, so halt's cleanup is complete and a failed execute never leaks *)
(* a descriptor into a PCB that a later execute reuses.                   *)
THEOREM FreshPcbCleanHolds ==
    ASSUME ~StartupRace
    PROVE  Spec => []FreshPcbClean
<1>1. IInv => FreshPcbClean
  BY DEF IInv
<1>2. QED
  BY <1>1, IInvHolds, PTL

=============================================================================
