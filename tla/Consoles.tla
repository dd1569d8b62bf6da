------------------------------ MODULE Consoles ------------------------------
(***************************************************************************)
(* What the virtual-terminal manager promises for output (spec 2 and 3):  *)
(* one console per scheduling slot, exactly one of them shown at a time.  *)
(* Each console has an image: the set of slots whose output it holds.     *)
(* The running slot's output goes into its own console's image, whether   *)
(* that console is shown or not.  A foreground switch changes only which  *)
(* console is shown and keeps every image, and the timer tick moves the   *)
(* CPU round robin to the next slot.  No image ever loses output or       *)
(* receives another slot's output.                                        *)
(***************************************************************************)
EXTENDS Naturals

CONSTANT NumConsoles    \* consoles, one per scheduling slot

VARIABLES
    shown,      \* the console on the screen
    running,    \* the slot the CPU runs
    image       \* the slots whose output each console holds

cvars == <<shown, running, image>>

Consoles == 0 .. NumConsoles - 1

Init ==
    /\ shown = 0
    /\ running = 0
    /\ image = [c \in Consoles |-> {}]

\* The operator brings console n to the foreground.
Show(n) ==
    /\ n # shown
    /\ shown' = n
    /\ UNCHANGED <<running, image>>

\* The running slot writes to its console.
Output ==
    /\ image' = [image EXCEPT ![running] = @ \cup {running}]
    /\ UNCHANGED <<shown, running>>

\* The tick preempts the running slot for the next one.
Preempt ==
    /\ running' = (running + 1) % NumConsoles
    /\ UNCHANGED <<shown, image>>

Next == (\E n \in Consoles : Show(n)) \/ Output \/ Preempt

Spec == Init /\ [][Next]_cvars
====
