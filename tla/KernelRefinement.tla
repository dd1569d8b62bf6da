--------------------------- MODULE KernelRefinement ---------------------------
(***************************************************************************)
(* Kernel seen through ProcessStacks: the live processes are the PIDs that *)
(* are taken and whose PCB execute has set up, a process's parent is its   *)
(* PCB's parent_pid, the top of a slot's stack is tasks[t].pid, and the    *)
(* slots started and current_task are read from the task table.  PCB      *)
(* descriptors, global_pid and the user page have no abstract counterpart. *)
(***************************************************************************)
EXTENDS Kernel

\* A PID in use whose PCB was set up by execute (stdin installed); the word
\* past pid_availability may read as taken without holding a process.
IsLive(p) == pidUsed[p] /\ pcb[p].fds[0].kind = "stdin"

liveBar == {p \in PidCells : IsLive(p)}
parentBar == [p \in PidCells |-> pcb[p].parent]
runningBar == [t \in Tasks |-> tasks[t].pid]
startedBar == {t \in Tasks : tasks[t].started}

AS == INSTANCE ProcessStacks WITH
        Pids <- PidCells, NumSlots <- NumTasks, NoParent <- NoPid,
        live <- liveBar, parent <- parentBar, running <- runningBar,
        started <- startedBar, cur <- current

(* Every behaviour of the kernel's execute, halt, open, close and schedule *)
(* is a behaviour of per-slot process stacks: a failed execute, open and  *)
(* close change no process, a successful execute pushes a fresh PID onto *)
(* the running slot, halt pops to the parent or replaces the root, and   *)
(* the tick starts or resumes the next slot.                              *)
Refinement == AS!Spec
====
