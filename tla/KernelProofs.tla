---------------------------- MODULE KernelProofs ----------------------------
(***************************************************************************)
(* Proofs about Kernel for every value of the constants.                   *)
(***************************************************************************)
EXTENDS Kernel, TLAPS, WellFoundedInduction

USE NumTasksAssumption, NumProcessesAssumption, FdArraySizeAssumption,
    StartupRaceAssumption

(* A non-empty set of naturals has a least element.                       *)
LEMMA LeastNat ==
    ASSUME NEW T, T \subseteq Nat, T # {}
    PROVE  \E x \in T : \A y \in T : x <= y
<1>1. \E x \in T : \A y \in T : ~(<<y, x>> \in OpToRel(<, Nat))
  BY NatLessThanWellFounded, WFMin
<1>2. PICK x \in T : \A y \in T : ~(<<y, x>> \in OpToRel(<, Nat))
  BY <1>1
<1>3. ASSUME NEW y \in T PROVE x <= y
  <2>1. y < x => <<y, x>> \in OpToRel(<, Nat)
    BY DEF OpToRel
  <2>2. ~(y < x)
    BY <1>2, <2>1
  <2>3. QED
    BY <2>2, x \in Nat, y \in Nat
<1>4. QED
  BY <1>3

(* FIRST_AVAILABLE_PID returns NoPid or a free cell of the table.         *)
LEMMA FirstAvailablePidType ==
    ASSUME NEW used \in [PidCells -> BOOLEAN]
    PROVE  LET np == FirstAvailablePid(used)
           IN  /\ np \in PidCells \cup {NoPid}
               /\ np # NoPid => ~used[np]
               /\ np = NoPid => \A n \in PidCells : used[n]
<1>1. CASE \E n \in PidCells : ~used[n]
  <2>0. /\ {n \in PidCells : ~used[n]} \subseteq Nat
        /\ {n \in PidCells : ~used[n]} # {}
    BY <1>1 DEF PidCells
  <2>1. PICK x \in {n \in PidCells : ~used[n]} :
            \A y \in {n \in PidCells : ~used[n]} : x <= y
    BY <2>0, LeastNat
  <2>2. \E n \in PidCells : ~used[n] /\ \A m \in 0 .. n - 1 : used[m]
    BY <2>1 DEF PidCells
  <2>3. QED
    BY <1>1, <2>2 DEF FirstAvailablePid, NoPid, PidCells
<1>2. CASE ~\E n \in PidCells : ~used[n]
  BY <1>2 DEF FirstAvailablePid
<1>3. QED
  BY <1>1, <1>2

(* sys_open's scan returns NoPid or a closed descriptor at or above       *)
(* FIRST_FD.                                                               *)
LEMMA FreeFdType ==
    ASSUME NEW fds \in [FdIdx -> FdEntry]
    PROVE  LET fd == FreeFd(fds)
           IN  /\ fd \in (FirstFd .. FdArraySize - 1) \cup {NoPid}
               /\ fd # NoPid => fds[fd].kind = "closed"
<1>1. CASE \E i \in FirstFd .. FdArraySize - 1 : fds[i].kind = "closed"
  <2>0. /\ {i \in FirstFd .. FdArraySize - 1 : fds[i].kind = "closed"} \subseteq Nat
        /\ {i \in FirstFd .. FdArraySize - 1 : fds[i].kind = "closed"} # {}
    BY <1>1 DEF FirstFd
  <2>1. PICK x \in {i \in FirstFd .. FdArraySize - 1 : fds[i].kind = "closed"} :
            \A y \in {i \in FirstFd .. FdArraySize - 1 : fds[i].kind = "closed"} : x <= y
    BY <2>0, LeastNat
  <2>2. \E i \in FirstFd .. FdArraySize - 1 :
            fds[i].kind = "closed" /\ \A j \in FirstFd .. i - 1 : fds[j].kind # "closed"
    BY <2>1 DEF FirstFd
  <2>3. QED
    BY <1>1, <2>2 DEF FreeFd, NoPid, FirstFd
<1>2. CASE ~\E i \in FirstFd .. FdArraySize - 1 : fds[i].kind = "closed"
  BY <1>2 DEF FreeFd
<1>3. QED
  BY <1>1, <1>2

(* The descriptor sys_open installs is a well-formed entry.               *)
LEMMA OpenedEntryType ==
    ASSUME NEW fds \in [FdIdx -> FdEntry], NEW i \in FdIdx,
           NEW name \in FileNames \ {"missing"}
    PROVE  OpenedEntry(fds, i, name) \in FdEntry
BY DEF OpenedEntry, FileNames, FdEntry, FdKinds, Inodes

(* Setting the kind of one descriptor keeps the table well formed.       *)
LEMMA SetKindType ==
    ASSUME NEW fds \in [FdIdx -> FdEntry], NEW i \in FdIdx, NEW k \in FdKinds
    PROVE  [fds EXCEPT ![i].kind = k] \in [FdIdx -> FdEntry]
<1>1. [fds[i] EXCEPT !.kind = k] \in FdEntry
  BY DEF FdEntry
<1>2. QED
  BY <1>1

(* Installing stdin and stdout keeps a table well formed.                *)
LEMMA StdFdsType ==
    ASSUME NEW fds \in [FdIdx -> FdEntry]
    PROVE  StdFds(fds) \in [FdIdx -> FdEntry]
<1>1. [fds EXCEPT ![0].kind = "stdin"] \in [FdIdx -> FdEntry]
  BY SetKindType DEF FdKinds, FdIdx
<1>2. QED
  BY <1>1, SetKindType DEF StdFds, FdKinds, FdIdx

(* Closing a descriptor keeps a table well formed.                        *)
LEMMA ClosedFdType ==
    ASSUME NEW fds \in [FdIdx -> FdEntry], NEW fd \in FdIdx
    PROVE  ClosedFd(fds, fd) \in [FdIdx -> FdEntry]
BY SetKindType DEF ClosedFd, FdKinds

(* sys_open of the executable yields a well-formed table when there is a *)
(* free descriptor.                                                        *)
LEMMA ExecOpenedType ==
    ASSUME NEW pc \in [PidCells -> PcbRec], NEW gp \in PidCells,
           NEW cmd \in FileNames \ {"missing"},
           FreeFd(pc[gp].fds) # NoPid
    PROVE  /\ FreeFd(pc[gp].fds) \in FdIdx
           /\ ExecOpened(pc, gp, cmd) \in [FdIdx -> FdEntry]
<1>1. pc[gp].fds \in [FdIdx -> FdEntry]
  BY DEF PcbRec
<1>2. FreeFd(pc[gp].fds) \in FdIdx
  BY <1>1, FreeFdType DEF FdIdx, FirstFd
<1>3. QED
  BY <1>1, <1>2, OpenedEntryType DEF ExecOpened

(* The PCB table execute leaves behind on success is well formed.         *)
LEMMA LoadedPcbsType ==
    ASSUME NEW pc \in [PidCells -> PcbRec], NEW gp \in PidCells,
           NEW opened \in [FdIdx -> FdEntry], NEW fd \in FdIdx,
           NEW np \in PidCells, NEW t \in Tasks
    PROVE  LoadedPcbs(pc, gp, opened, fd, np, t) \in [PidCells -> PcbRec]
<1> DEFINE pc1 == [pc EXCEPT ![gp].fds = ClosedFd(opened, fd)]
<1>1. pc1 \in [PidCells -> PcbRec]
  BY ClosedFdType DEF PcbRec
<1>2. StdFds(pc1[np].fds) \in [FdIdx -> FdEntry]
  BY <1>1, StdFdsType DEF PcbRec
<1>3. ParentPid(np, gp) \in PidCells \cup {NoPid}
  BY DEF ParentPid
<1>4. [parent |-> ParentPid(np, gp), task |-> t, fds |-> StdFds(pc1[np].fds)] \in PcbRec
  BY <1>2, <1>3 DEF PcbRec
<1>5. QED
  BY <1>1, <1>4 DEF LoadedPcbs

(* Whatever path sys_execute takes, the PID table and the PCBs stay well  *)
(* typed, and on success so do the task table and the running PID.       *)
LEMMA ExecuteFromType ==
    ASSUME NEW cmd \in Commands, NEW u \in [PidCells -> BOOLEAN],
           NEW pc \in [PidCells -> PcbRec],
           NEW tk \in [Tasks -> [pid : PidCells, started : BOOLEAN]],
           NEW gp \in PidCells, NEW t \in Tasks, NEW ACTION Fail,
           ExecuteFrom(cmd, u, pc, tk, gp, t, Fail)
    PROVE  /\ pidUsed' \in [PidCells -> BOOLEAN]
           /\ pcb' \in [PidCells -> PcbRec]
           /\ \/ Fail
              \/ /\ tasks' \in [Tasks -> [pid : PidCells, started : BOOLEAN]]
                 /\ globalPid' \in PidCells
                 /\ userPage' \in PidCells
                 /\ crashed' = crashed
<1> DEFINE np == FirstAvailablePid(u)
           fd == FreeFd(pc[gp].fds)
           opened == ExecOpened(pc, gp, cmd)
<1>1. /\ np \in PidCells \cup {NoPid}
      /\ np # NoPid => ~u[np]
  BY FirstAvailablePidType
<1>2. CASE np = NoPid \/ cmd = "null" \/ cmd = "missing" \/ fd = NoPid
  <2>1. pidUsed' = u /\ pcb' = pc /\ Fail
    BY <1>2 DEF ExecuteFrom, FileNames
  <2>2. QED
    BY <2>1
<1>3. CASE np # NoPid /\ cmd \in FileNames \ {"missing"} /\ fd # NoPid
  <2>1. fd \in FdIdx /\ opened \in [FdIdx -> FdEntry]
    BY <1>3, ExecOpenedType
  <2>2. np \in PidCells
    BY <1>1, <1>3
  <2>3. [pc EXCEPT ![gp].fds = opened] \in [PidCells -> PcbRec]
    BY <2>1 DEF PcbRec
  <2>4. LoadedPcbs(pc, gp, opened, fd, np, t) \in [PidCells -> PcbRec]
    BY <2>1, <2>2, LoadedPcbsType
  <2>5. \/ pidUsed' = u /\ pcb' = [pc EXCEPT ![gp].fds = opened] /\ Fail
        \/ /\ pidUsed' = [u EXCEPT ![np] = TRUE]
           /\ pcb' = LoadedPcbs(pc, gp, opened, fd, np, t)
           /\ tasks' = [tk EXCEPT ![t].pid = np]
           /\ globalPid' = np /\ userPage' = np /\ crashed' = crashed
    BY <1>3 DEF ExecuteFrom, FileNames
  <2>6. [u EXCEPT ![np] = TRUE] \in [PidCells -> BOOLEAN]
    BY <2>2
  <2>7. [tk EXCEPT ![t].pid = np] \in [Tasks -> [pid : PidCells, started : BOOLEAN]]
    BY <2>2
  <2>8. QED
    BY <2>3, <2>4, <2>5, <2>6, <2>7, <2>2
<1>4. QED
  BY <1>2, <1>3 DEF Commands

(* sys_halt's close loop keeps the table well formed.                     *)
LEMMA CloseAllType ==
    ASSUME NEW fds \in [FdIdx -> FdEntry]
    PROVE  CloseAll(fds) \in [FdIdx -> FdEntry]
BY DEF CloseAll, FdEntry, FdKinds

-----------------------------------------------------------------------------
(* The initial state, after start_scheduler, is well typed.               *)
LEMMA InitTypeOK == Init => TypeOK
<1> SUFFICES ASSUME Init PROVE TypeOK
  OBVIOUS
<1>1. PICK oob \in BOOLEAN, inode0 \in Inodes :
        /\ pidUsed = [p \in PidCells |-> IF p = NumProcesses THEN oob ELSE p = 0]
        /\ pcb = [p \in PidCells |->
                    [parent |-> IF p = 0 THEN NoPid ELSE 0, task |-> 0,
                     fds |-> IF p = 0
                             THEN StdFds(BlankFds(inode0))
                             ELSE BlankFds(inode0)]]
        /\ tasks = [t \in Tasks |-> [pid |-> 0, started |-> t = 0]]
        /\ current = 0 /\ globalPid = 0 /\ userPage = 0 /\ crashed = FALSE
  BY DEF Init
<1> DEFINE blank == BlankFds(inode0)
<1>2. blank \in [FdIdx -> FdEntry]
  BY DEF BlankFds, FdEntry, FdKinds
<1>3. StdFds(blank) \in [FdIdx -> FdEntry]
  BY <1>2, StdFdsType
<1>4. \A p \in PidCells :
        [parent |-> IF p = 0 THEN NoPid ELSE 0, task |-> 0,
         fds |-> IF p = 0 THEN StdFds(blank) ELSE blank] \in PcbRec
  BY <1>2, <1>3 DEF PcbRec, PidCells, Tasks, NoPid
<1>5. pcb \in [PidCells -> PcbRec]
  BY <1>1, <1>4, Zenon
<1>6. pidUsed \in [PidCells -> BOOLEAN]
  BY <1>1
<1>7. tasks \in [Tasks -> [pid : PidCells, started : BOOLEAN]]
  BY <1>1 DEF PidCells
<1>8. current = 0 /\ globalPid = 0 /\ userPage = 0 /\ crashed = FALSE
  BY <1>1
<1>10. 0 \in Tasks /\ 0 \in PidCells
  BY DEF Tasks, PidCells
<1>9. QED
  BY <1>5, <1>6, <1>7, <1>8, <1>10 DEF TypeOK

(* Every step of the kernel keeps it well typed.                          *)
LEMMA NextTypeOK == TypeOK /\ [Next]_vars => TypeOK'
<1> SUFFICES ASSUME TypeOK, [Next]_vars PROVE TypeOK'
  OBVIOUS
<1>1. ASSUME NEW c \in Commands, Execute(c) PROVE TypeOK'
  <2>1. ExecuteFrom(c, pidUsed, pcb, tasks, globalPid, current,
                    UNCHANGED <<tasks, globalPid, userPage, crashed>>)
    BY <1>1 DEF Execute
  <2>2. QED
    BY <2>1, <1>1, ExecuteFromType DEF Execute, TypeOK
<1>2. CASE Halt
  <2> DEFINE gp == globalPid
             pc1 == [pcb EXCEPT ![gp].fds = CloseAll(@)]
             u1 == [pidUsed EXCEPT ![gp] = FALSE]
             par == pcb[gp].parent
  <2>1. pc1 \in [PidCells -> PcbRec] /\ u1 \in [PidCells -> BOOLEAN]
    BY CloseAllType DEF TypeOK, PcbRec
  <2>2. par \in PidCells \cup {NoPid}
    BY DEF TypeOK, PcbRec
  <2>3. CASE par = NoPid
    <3>1. ExecuteFrom("prog", u1, pc1, tasks, gp, current,
                      crashed' = TRUE /\ UNCHANGED <<tasks, globalPid, userPage>>)
      BY <1>2, <2>3 DEF Halt
    <3>2. QED
      BY <3>1, <2>1, ExecuteFromType, <1>2 DEF Halt, TypeOK, Commands, FileNames
  <2>4. CASE par # NoPid
    <3>1. pidUsed' = u1 /\ pcb' = pc1 /\ RestoreParent(par) /\ UNCHANGED <<crashed, current>>
      BY <1>2, <2>4 DEF Halt
    <3>2. QED
      BY <3>1, <2>1, <2>2, <2>4 DEF RestoreParent, TypeOK
  <2>5. QED
    BY <2>3, <2>4
<1>3. ASSUME NEW n \in FileNames, Open(n) PROVE TypeOK'
  <2> DEFINE fds == pcb[globalPid].fds
             fd == FreeFd(fds)
  <2>1. fds \in [FdIdx -> FdEntry]
    BY DEF TypeOK, PcbRec
  <2>2. fd \in FdIdx
    BY <1>3, <2>1, FreeFdType DEF Open, FdIdx, FirstFd
  <2>3. OpenedEntry(fds, fd, n) \in FdEntry
    BY <1>3, <2>1, <2>2, OpenedEntryType DEF Open
  <2>4. pcb' = [pcb EXCEPT ![globalPid].fds = [fds EXCEPT ![fd] = OpenedEntry(fds, fd, n)]]
    BY <1>3 DEF Open
  <2>5. [fds EXCEPT ![fd] = OpenedEntry(fds, fd, n)] \in [FdIdx -> FdEntry]
    BY <2>1, <2>2, <2>3
  <2>6. QED
    BY <1>3, <2>4, <2>5 DEF Open, TypeOK, PcbRec
<1>4. ASSUME NEW fd \in FirstFd .. FdArraySize - 1, Close(fd) PROVE TypeOK'
  <2>0. pcb[globalPid].fds \in [FdIdx -> FdEntry] /\ fd \in FdIdx
    BY DEF TypeOK, PcbRec, FdIdx, FirstFd
  <2>1. ClosedFd(pcb[globalPid].fds, fd) \in [FdIdx -> FdEntry]
    BY <2>0, ClosedFdType
  <2>2. pcb' = [pcb EXCEPT ![globalPid].fds = ClosedFd(pcb[globalPid].fds, fd)]
    BY <1>4 DEF Close
  <2>3. UNCHANGED <<pidUsed, tasks, current, globalPid, userPage, crashed>>
    BY <1>4 DEF Close
  <2>4. QED
    BY <2>1, <2>2, <2>3 DEF TypeOK, PcbRec
<1>5. CASE Schedule
  <2> DEFINE nt == NextTask(current)
  <2>1. nt \in Tasks
    BY DEF NextTask, Tasks, TypeOK
  <2>2. CASE tasks[nt].started
    BY <1>5, <2>1, <2>2 DEF Schedule, TypeOK
  <2>3. CASE ~tasks[nt].started
    <3> DEFINE tk == [tasks EXCEPT ![nt].started = TRUE]
    <3>1. tk \in [Tasks -> [pid : PidCells, started : BOOLEAN]]
      BY <2>1 DEF TypeOK
    <3>2. ExecuteFrom("prog", pidUsed, pcb, tk, globalPid, nt,
                      /\ tasks' = tk
                      /\ globalPid' = tasks[nt].pid
                      /\ userPage' = tasks[nt].pid
                      /\ crashed' = TRUE)
      BY <1>5, <2>3 DEF Schedule
    <3>3. current' = nt
      BY <1>5 DEF Schedule
    <3>4. /\ pidUsed' \in [PidCells -> BOOLEAN]
          /\ pcb' \in [PidCells -> PcbRec]
          /\ \/ /\ tasks' = tk
                /\ globalPid' = tasks[nt].pid
                /\ userPage' = tasks[nt].pid
                /\ crashed' = TRUE
             \/ /\ tasks' \in [Tasks -> [pid : PidCells, started : BOOLEAN]]
                /\ globalPid' \in PidCells
                /\ userPage' \in PidCells
                /\ crashed' = crashed
      BY <3>1, <3>2, <2>1, ExecuteFromType DEF TypeOK, Commands, FileNames
    <3>5. tasks[nt].pid \in PidCells
      BY <2>1 DEF TypeOK
    <3>6. QED
      BY <3>1, <3>3, <3>4, <3>5, <2>1 DEF TypeOK
  <2>4. QED
    BY <2>2, <2>3
<1>6. CASE UNCHANGED vars
  BY <1>6 DEF vars, TypeOK
<1>7. QED
  BY <1>1, <1>2, <1>3, <1>4, <1>5, <1>6 DEF Next

(* Type correctness of the kernel model, for every value of the constants *)
(* (the state the code keeps always has the shape process.h and           *)
(* scheduling.h declare).                                                  *)
THEOREM TypeCorrect == Spec => []TypeOK
BY InitTypeOK, NextTypeOK, PTL DEF Spec

=============================================================================
