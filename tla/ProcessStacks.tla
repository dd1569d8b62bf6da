---------------------------- MODULE ProcessStacks ----------------------------
(***************************************************************************)
(* What the process manager promises (spec 4.2, 4.3), with no PID table,   *)
(* no descriptors and no paging: each scheduling slot runs a stack of      *)
(* processes.  execute pushes a fresh process whose parent is the one      *)
(* running in the slot, halt pops back to the parent, a slot's root shell  *)
(* that halts is replaced by a fresh root, and the PIT tick moves round    *)
(* robin to the next slot, giving an unstarted slot its first shell.       *)
(* A live process is never given a second life: every new process takes a *)
(* PID no live process holds.                                              *)
(***************************************************************************)
EXTENDS Naturals

CONSTANTS
    Pids,       \* the PIDs a process can hold
    NumSlots,   \* scheduling slots
    NoParent    \* the parent of a slot's root shell

VARIABLES
    live,       \* PIDs of the processes that exist
    parent,     \* each PID's parent
    running,    \* the process on top of each slot's stack
    started,    \* slots that have been given their first shell
    cur         \* the slot the CPU runs

vars == <<live, parent, running, started, cur>>

Slots == 0 .. NumSlots - 1

Init ==
    /\ cur = 0
    /\ started = {0}
    /\ running \in [Slots -> Pids]
    /\ live = {running[0]}
    /\ parent \in [Pids -> Pids \cup {NoParent}]
    /\ parent[running[0]] = NoParent

\* A new process p on top of the current slot's stack.
Spawn(p) ==
    /\ p \in Pids \ live
    /\ live' = live \cup {p}
    /\ parent' = [parent EXCEPT ![p] = running[cur]]
    /\ running' = [running EXCEPT ![cur] = p]
    /\ UNCHANGED <<started, cur>>

\* The running process of the current slot ends; its parent resumes.
Exit ==
    LET r == running[cur] IN
    /\ parent[r] # NoParent
    /\ live' = live \ {r}
    /\ running' = [running EXCEPT ![cur] = parent[r]]
    /\ UNCHANGED <<parent, started, cur>>

\* The current slot's root ends and a fresh root q takes its place.
Respawn(q) ==
    LET r == running[cur] IN
    /\ parent[r] = NoParent
    /\ q \in Pids \ (live \ {r})
    /\ live' = (live \ {r}) \cup {q}
    /\ parent' = [parent EXCEPT ![q] = NoParent]
    /\ running' = [running EXCEPT ![cur] = q]
    /\ UNCHANGED <<started, cur>>

\* The tick moves to the next slot, which has been started already.
Switch ==
    LET n == (cur + 1) % NumSlots IN
    /\ n \in started
    /\ cur' = n
    /\ UNCHANGED <<live, parent, running, started>>

\* The tick moves to a slot not started yet and gives it a root p.
StartSlot(p) ==
    LET n == (cur + 1) % NumSlots IN
    /\ n \notin started
    /\ p \in Pids \ live
    /\ started' = started \cup {n}
    /\ live' = live \cup {p}
    /\ parent' = [parent EXCEPT ![p] = NoParent]
    /\ running' = [running EXCEPT ![n] = p]
    /\ cur' = n

Next ==
    \/ \E p \in Pids : Spawn(p) \/ StartSlot(p) \/ Respawn(p)
    \/ Exit
    \/ Switch

Spec == Init /\ [][Next]_vars
====
