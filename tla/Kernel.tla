------------------------------- MODULE Kernel -------------------------------
(***************************************************************************)
(* The process core of the kernel: the PID table and PCBs (process.h), the *)
(* execute/halt/open/close system calls (sys_call.c) and the PIT-driven    *)
(* round-robin scheduler (scheduling.c).  The three share one global state *)
(* (pid_availability, the PCBs, tasks[], current_task, global_pid and the  *)
(* user page mapping), so they are one module.                             *)
(*                                                                         *)
(* Every system call and the scheduler tick is one atomic step: the tick   *)
(* runs between cli_and_save and restore_flags, and a process never runs   *)
(* while its own execute or halt is in progress.  Saved stack pointers are *)
(* data the model does not need: a context switch is a change of           *)
(* global_pid.                                                             *)
(***************************************************************************)
EXTENDS Naturals, Integers

CONSTANTS
    NumProcesses,   \* NUM_PROCESSES: the length of pid_availability
    NumTasks,       \* NUM_TASKS = NUM_TERMINALS: scheduling slots
    FdArraySize,    \* FD_ARRAY_SIZE
    StartupRace     \* may user processes make system calls before the
                    \* scheduler has started every slot's shell?

ASSUME NumTasksAssumption == NumTasks \in Nat \ {0}
ASSUME NumProcessesAssumption == NumProcesses \in Nat /\ NumTasks <= NumProcesses
ASSUME FdArraySizeAssumption == FdArraySize \in Nat /\ FdArraySize > 2
ASSUME StartupRaceAssumption == StartupRace \in BOOLEAN

FirstFd == 2                    \* FIRST_FD: 0 and 1 are stdin and stdout
FdIdx == 0 .. FdArraySize - 1
Tasks == 0 .. NumTasks - 1

(* FIRST_AVAILABLE_PID reads pid_availability[0..NUM_PROCESSES]: the last  *)
(* index is one past the array, a word of whatever global follows it.      *)
PidCells == 0 .. NumProcesses
NoPid == -1                     \* UNAVAILABLE, and parent_pid = -1

(* What a name resolves to in the file system (read_dentry_by_name).      *)
(* "prog" and "text" are regular files, with and without the ELF magic.    *)
FileNames == {"prog", "text", "dir", "rtc", "missing"}
(* A command given to execute: a null or empty string, or a name.         *)
Commands == {"null"} \cup FileNames
(* What a descriptor's file_ops points to; "closed" when FD_IN_USE is off. *)
FdKinds == {"closed", "stdin", "stdout", "file", "dir", "rtc"}
Inodes == {"prog", "text"}      \* the file a descriptor's inode field names

FdEntry == [kind : FdKinds, inode : Inodes]

VARIABLES
    pidUsed,    \* pid_availability, and the word past its end
    pcb,        \* PCB_ADDRESS(p): parent_pid, terminal, fd_array
    tasks,      \* tasks[]: pid of the process running in the slot, started
    current,    \* current_task
    globalPid,  \* global_pid: the PID whose PCB is CURRENT_PCB_ADDRESS
    userPage,   \* the PID whose 4MB frame backs the user page at 128MB
    crashed     \* control reached a path that resumes a garbage context

vars == <<pidUsed, pcb, tasks, current, globalPid, userPage, crashed>>

PcbRec == [parent : PidCells \cup {NoPid}, task : Tasks, fds : [FdIdx -> FdEntry]]

TypeOK ==
    /\ pidUsed \in [PidCells -> BOOLEAN]
    /\ pcb \in [PidCells -> PcbRec]
    /\ tasks \in [Tasks -> [pid : PidCells, started : BOOLEAN]]
    /\ current \in Tasks
    /\ globalPid \in PidCells
    /\ userPage \in PidCells
    /\ crashed \in BOOLEAN

-----------------------------------------------------------------------------
(* Mutants: plausible slips in the helpers below, each of which one of   *)
(* the checked properties must catch.                                      *)
FirstAvailablePidNoSentinel(used) ==
    IF \E n \in PidCells : ~used[n]
    THEN CHOOSE n \in PidCells : ~used[n] /\ \A m \in 0 .. n - 1 : used[m]
    ELSE NumProcesses + 1
CloseAllFromThree(fds) ==
    [i \in FdIdx |-> IF i > FirstFd THEN [fds[i] EXCEPT !.kind = "closed"] ELSE fds[i]]
ParentPidLe(np, gp) == IF np <= NumTasks THEN NoPid ELSE gp
RestoreParentNoTask(par) ==
    /\ globalPid' = par
    /\ userPage' = par
    /\ UNCHANGED tasks
NextTaskShortWrap(c) == IF c + 1 < NumTasks - 1 THEN c + 1 ELSE 0
ParentPidAlways(np, gp) == gp

(* FIRST_AVAILABLE_PID: the lowest cell whose flag is clear, or NoPid.     *)
FirstAvailablePid(used) ==
    IF \E n \in PidCells : ~used[n]
    THEN CHOOSE n \in PidCells : ~used[n] /\ \A m \in 0 .. n - 1 : used[m]
    ELSE NoPid

(* The lowest descriptor in [FIRST_FD, FD_ARRAY_SIZE) not in use, or NoPid *)
(* (sys_open's scan).                                                      *)
FreeFd(fds) ==
    IF \E i \in FirstFd .. FdArraySize - 1 : fds[i].kind = "closed"
    THEN CHOOSE i \in FirstFd .. FdArraySize - 1 :
            fds[i].kind = "closed" /\ \A j \in FirstFd .. i - 1 : fds[j].kind # "closed"
    ELSE NoPid

(* The descriptor sys_open installs in slot i for a resolved name: a      *)
(* regular file gets its inode, rtc and directory keep the stale inode.    *)
OpenedEntry(fds, i, name) ==
    CASE name \in {"prog", "text"} -> [kind |-> "file", inode |-> name]
      [] name = "dir"  -> [fds[i] EXCEPT !.kind = "dir"]
      [] name = "rtc"  -> [fds[i] EXCEPT !.kind = "rtc"]

(* The first four bytes read_file returns through a just-opened           *)
(* descriptor are the ELF magic: a file opened by name reads its own       *)
(* header; a directory (position reset) reads the header of the stale      *)
(* inode; rtc leaves the position stale, so the header may or may not be   *)
(* the one read.                                                           *)
HeaderIsElf(e) ==
    CASE e.kind = "file" -> {e.inode = "prog"}
      [] e.kind = "dir"  -> {e.inode = "prog"}
      [] e.kind = "rtc"  -> IF e.inode = "prog" THEN BOOLEAN ELSE {FALSE}

(* execute step 5: descriptors 0 and 1 become stdin and stdout.          *)
StdFds(fds) == [fds EXCEPT ![0].kind = "stdin", ![1].kind = "stdout"]

(* sys_close's effect: FD_IN_USE cleared, file_ops and inode left as is.  *)
ClosedFd(fds, fd) == [fds EXCEPT ![fd].kind = "closed"]

(* sys_halt's loop closing descriptors FIRST_FD .. FD_ARRAY_SIZE-1.       *)
CloseAll(fds) == [i \in FdIdx |-> IF i >= FirstFd THEN [fds[i] EXCEPT !.kind = "closed"] ELSE fds[i]]

(* sys_execute step 1: the first NUM_TERMINALS PIDs are root shells with *)
(* no parent; any other process's parent is the caller, global_pid.        *)
ParentPid(np, gp) == IF np < NumTasks THEN NoPid ELSE gp

(* sys_halt steps 2-3.5 for a process with a parent: global_pid, the user *)
(* page and the slot's task entry go back to the parent.                   *)
RestoreParent(par) ==
    /\ globalPid' = par
    /\ userPage' = par
    /\ tasks' = [tasks EXCEPT ![current].pid = par]

(* schedule: current_task = (current_task + 1) % NUM_TASKS                *)
NextTask(c) == (c + 1) % NumTasks

(* sys_open of the executable by the caller gp: its fd_array with the    *)
(* lowest free descriptor opened on cmd.                                   *)
ExecOpened(pc, gp, cmd) ==
    LET fds == pc[gp].fds
    IN  [fds EXCEPT ![FreeFd(fds)] = OpenedEntry(fds, FreeFd(fds), cmd)]

(* Mutant: the new PCB takes the caller's terminal.                       *)
LoadedPcbsCallerTerminal(pc, gp, opened, fd, np, t) ==
    LET closed == [pc EXCEPT ![gp].fds = ClosedFd(opened, fd)]
    IN  [closed EXCEPT ![np] = [parent |-> ParentPid(np, gp),
                                task   |-> pc[gp].task,
                                fds    |-> StdFds(closed[np].fds)]]

(* sys_execute steps 4-5: exec_fd closed again in the caller, and the PCB *)
(* of np filled in: parent, terminal, stdin and stdout (the other         *)
(* descriptors keep whatever the PCB held).                                *)
LoadedPcbs(pc, gp, opened, fd, np, t) ==
    LET closed == [pc EXCEPT ![gp].fds = ClosedFd(opened, fd)]
    IN  [closed EXCEPT ![np] = [parent |-> ParentPid(np, gp),
                                task   |-> t,
                                fds    |-> StdFds(closed[np].fds)]]

(***************************************************************************)
(* sys_execute(cmd) started from pid table u, PCBs pc and tasks tk, by the *)
(* process gp (global_pid), in slot t (current_task).  When it succeeds,   *)
(* the new process is running in t.  When it fails, it returns -1 and the  *)
(* caller continues with Fail, an action over the other variables.         *)
(***************************************************************************)
ExecuteFrom(cmd, u, pc, tk, gp, t, Fail) ==
    LET np == FirstAvailablePid(u)
        fd == FreeFd(pc[gp].fds)
        opened == ExecOpened(pc, gp, cmd)
    IN
    \/ /\ np = NoPid                            \* no PID left
       /\ pidUsed' = u /\ pcb' = pc /\ Fail
    \/ /\ np # NoPid
       /\ \/ cmd = "null"                      \* null or empty command
          \/ cmd = "missing"                   \* sys_open: no such name
          \/ fd = NoPid                        \* sys_open: no descriptor
       /\ pidUsed' = u /\ pcb' = pc /\ Fail
    \/ /\ np # NoPid /\ cmd \in FileNames \ {"missing"} /\ fd # NoPid
       /\ \E elf \in HeaderIsElf(opened[fd]) :
            \/ /\ ~elf                         \* bad magic: exec_fd stays open
               /\ pidUsed' = u
               /\ pcb' = [pc EXCEPT ![gp].fds = opened]
               /\ Fail
            \/ /\ elf                          \* load, build the PCB, iret
               /\ pidUsed' = [u EXCEPT ![np] = TRUE]
               /\ pcb' = LoadedPcbs(pc, gp, opened, fd, np, t)
               /\ tasks' = [tk EXCEPT ![t].pid = np]
               /\ globalPid' = np
               /\ userPage' = np
               /\ UNCHANGED crashed

(* Calls from user code are made by the running process once the          *)
(* scheduler has launched every slot's shell (or at any time when         *)
(* StartupRace).                                                           *)
UserMayCall ==
    /\ ~crashed
    /\ StartupRace \/ \A t \in Tasks : tasks[t].started

-----------------------------------------------------------------------------
(* A PCB area fresh from boot: every descriptor clear, its inode field    *)
(* naming whatever file inode0 stands for.                                 *)
BlankFds(inode0) == [i \in FdIdx |-> [kind |-> "closed", inode |-> inode0]]

Init ==
    \* start_scheduler: slot 0 started, then sys_execute("shell") from a
    \* zeroed PID table and PCB area; the word past pid_availability is
    \* whatever the build put there; inode 0 is some file.
    \E oob \in BOOLEAN, inode0 \in Inodes :
        /\ pidUsed = [p \in PidCells |-> IF p = NumProcesses THEN oob ELSE p = 0]
        /\ pcb = [p \in PidCells |->
                    [parent |-> IF p = 0 THEN NoPid ELSE 0, task |-> 0,
                     fds |-> IF p = 0
                             THEN StdFds(BlankFds(inode0))
                             ELSE BlankFds(inode0)]]
        /\ tasks = [t \in Tasks |-> [pid |-> 0, started |-> t = 0]]
        /\ current = 0
        /\ globalPid = 0
        /\ userPage = 0
        /\ crashed = FALSE

(* sys_execute called by the running process.                             *)
Execute(cmd) ==
    /\ UserMayCall
    /\ ExecuteFrom(cmd, pidUsed, pcb, tasks, globalPid, current,
                   UNCHANGED <<tasks, globalPid, userPage, crashed>>)
    /\ UNCHANGED current

(* sys_halt: close descriptors, free the PID; a slot's root shell is      *)
(* replaced by a fresh one, any other process resumes its parent.          *)
Halt ==
    /\ UserMayCall
    /\ LET gp == globalPid
           pc1 == [pcb EXCEPT ![gp].fds = CloseAll(@)]
           u1 == [pidUsed EXCEPT ![gp] = FALSE]
           par == pcb[gp].parent
       IN
       \/ /\ par = NoPid
          /\ ExecuteFrom("prog", u1, pc1, tasks, gp, current,
                         \* fallthrough: resumes with parent_pid -1
                         crashed' = TRUE /\ UNCHANGED <<tasks, globalPid, userPage>>)
       \/ /\ par # NoPid
          /\ pidUsed' = u1
          /\ pcb' = pc1
          /\ RestoreParent(par)
          /\ UNCHANGED crashed
    /\ UNCHANGED current

(* sys_open(name) by the running process.                                 *)
Open(name) ==
    /\ UserMayCall
    /\ name # "missing"
    /\ FreeFd(pcb[globalPid].fds) # NoPid
    /\ LET fds == pcb[globalPid].fds
           fd == FreeFd(fds)
       IN pcb' = [pcb EXCEPT ![globalPid].fds = [fds EXCEPT ![fd] = OpenedEntry(fds, fd, name)]]
    /\ UNCHANGED <<pidUsed, tasks, current, globalPid, userPage, crashed>>

(* sys_close(fd) on a descriptor in use.                                  *)
Close(fd) ==
    /\ UserMayCall
    /\ pcb[globalPid].fds[fd].kind # "closed"
    /\ pcb' = [pcb EXCEPT ![globalPid].fds = ClosedFd(@, fd)]
    /\ UNCHANGED <<pidUsed, tasks, current, globalPid, userPage, crashed>>

(* schedule(): the PIT tick.  Advance the slot and map its user page; an  *)
(* unstarted slot gets a shell, executed on behalf of the outgoing        *)
(* global_pid; otherwise the slot's process resumes.  If that execute     *)
(* fails, schedule falls through to a NULL task PCB.                       *)
Schedule ==
    /\ ~crashed
    /\ LET nt == NextTask(current)
       IN
       /\ current' = nt
       /\ \/ /\ tasks[nt].started
             /\ globalPid' = tasks[nt].pid
             /\ userPage' = tasks[nt].pid
             /\ UNCHANGED <<pidUsed, pcb, tasks, crashed>>
          \/ /\ ~tasks[nt].started
             /\ LET tk == [tasks EXCEPT ![nt].started = TRUE]
                IN ExecuteFrom("prog", pidUsed, pcb, tk, globalPid, nt,
                      /\ tasks' = tk
                      /\ globalPid' = tasks[nt].pid
                      /\ userPage' = tasks[nt].pid
                      /\ crashed' = TRUE)

Next ==
    \/ \E c \in Commands : Execute(c)
    \/ Halt
    \/ \E n \in FileNames : Open(n)
    \/ \E fd \in FirstFd .. FdArraySize - 1 : Close(fd)
    \/ Schedule

Spec == Init /\ [][Next]_vars /\ WF_vars(Schedule)

-----------------------------------------------------------------------------
(* The PIDs reached from the process running in slot t by following       *)
(* parent_pid: the chain of processes waiting in that slot's execute calls *)
Chain(t) ==
    LET f[n \in Nat] ==
          IF n = 0 THEN {tasks[t].pid}
          ELSE f[n - 1] \cup ({pcb[q].parent : q \in f[n - 1]} \ {NoPid})
    IN f[NumProcesses + 1]

Started == {t \in Tasks : tasks[t].started}

(* The process tree that execute and halt maintain: each started slot runs *)
(* a chain of live processes of that slot, ending in the slot's root shell *)
(* whose PID is the slot number and which alone has no parent; the chains  *)
(* of two slots share no PID; and every PID of the table in use is on some *)
(* chain, so no PID leaks and halt always resumes a live parent of its own *)
(* slot.                                                                   *)
ProcessTree ==
    /\ \A t \in Started :
          /\ t \in Chain(t)
          /\ \A p \in Chain(t) :
                /\ pidUsed[p]
                /\ pcb[p].task = t
                /\ (pcb[p].parent = NoPid) = (p = t)
    /\ \A t1, t2 \in Started : t1 # t2 => Chain(t1) \cap Chain(t2) = {}
    /\ \A p \in 0 .. NumProcesses - 1 :
          pidUsed[p] => \E t \in Started : p \in Chain(t)

(* The CPU runs the process of the current slot, in that process's own    *)
(* user page, and that process is alive: after schedule, execute and halt  *)
(* global_pid, tasks[current_task].pid and the paging agree.               *)
RunningContext ==
    /\ globalPid = tasks[current].pid
    /\ userPage = globalPid
    /\ pidUsed[globalPid]

(* A PID that is free has no descriptor open above stdout, so the next    *)
(* process given that PID (execute does not reset fd_array[2..]) starts   *)
(* with only stdin and stdout: halt must close everything, and no failed  *)
(* execute may touch a PCB it does not own.                               *)
FreshPcbClean ==
    \A p \in PidCells : ~pidUsed[p] =>
        \A i \in FirstFd .. FdArraySize - 1 : pcb[p].fds[i].kind = "closed"

(* The scheduler eventually launches a shell in every slot.               *)
AllSlotsStarted == <>(\A t \in Tasks : tasks[t].started)

(* Spec 7: an execute that fails (returns -1, no PID taken) leaves the    *)
(* caller's state untouched; sys_execute's bad-magic path is the case.     *)
FailedExecuteHarmless ==
    [][\A c \in Commands : Execute(c) /\ pidUsed' = pidUsed => pcb' = pcb]_vars

(* Spec 4.2: execute starts a process only for a command naming a file    *)
(* with the executable magic.                                              *)
ExecuteRunsOnlyPrograms ==
    [][\A c \in Commands : Execute(c) /\ pidUsed' # pidUsed => c = "prog"]_vars

(* Spec 3: the PID table is a fixed pool of NUM_PROCESSES slots; no        *)
(* process runs with a PID outside it (FIRST_AVAILABLE_PID's bound).       *)
PidsWithinPool == globalPid < NumProcesses

(* sys_call.c:226 and terminal.c:119: the PCB of the process running in   *)
(* each started slot names that slot's terminal, the one terminal_read and *)
(* terminal_write use through CURRENT_PCB_ADDRESS->terminal; execute,      *)
(* halt and the lazy start of schedule() must keep this as PIDs move       *)
(* between slots.                                                          *)
SlotTerminal == \A t \in Started : pcb[tasks[t].pid].task = t

(* Spec 4.2 step 2: a process's parent is the process that was running in *)
(* its own slot.                                                           *)
ParentInSameSlot ==
    \A p \in PidCells : pidUsed[p] /\ pcb[p].parent # NoPid =>
        pcb[pcb[p].parent].task = pcb[p].task

=============================================================================
