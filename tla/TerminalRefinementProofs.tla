----------------------- MODULE TerminalRefinementProofs -----------------------
(***************************************************************************)
(* Proof that the terminals of terminal.c and the video remap of           *)
(* schedule() implement the abstract consoles, for any number of          *)
(* terminals.  The step argument rests on the invariant IInv of           *)
(* TerminalProofs: the flags match active_terminal, and the running       *)
(* task's video page maps its own terminal's frame or the active          *)
(* terminal's unshown frame.                                              *)
(***************************************************************************)
EXTENDS TerminalRefinement, TerminalProofs

\* The frames of distinct terminals' images are distinct, and the active
\* terminal's off-screen frame holds no terminal's image.
LEMMA BackingFrames ==
    ASSUME NEW a \in Terminals
    PROVE  /\ \A t \in Terminals : (IF t = a THEN Screen ELSE Frame(t)) \in Frames
           /\ \A t, u \in Terminals :
                 t # u => (IF t = a THEN Screen ELSE Frame(t))
                          # (IF u = a THEN Screen ELSE Frame(u))
           /\ \A t \in Terminals : (IF t = a THEN Screen ELSE Frame(t)) # Frame(a)
BY TerminalAssumption DEF Terminals, Frames, Screen, Frame

(* terminal_open: terminal 0 shown, task 0 running, every frame empty.     *)
LEMMA InitRefines == Init => CS!Init
<1>. SUFFICES ASSUME Init PROVE CS!Init
  OBVIOUS
<1>1. active \in Terminals
  BY TerminalAssumption DEF Init, Terminals
<1>2. \A t \in Terminals : Backing(t) \in Frames
  BY <1>1, BackingFrames DEF Backing
<1>. QED
  BY <1>2 DEF Init, CS!Init, imageBar, CS!Consoles, Terminals

(* The keyboard handler, terminal_read and ctrl+c leave the active        *)
(* terminal, the running task and every frame alone: a stutter.           *)
LEMMA QuietRefines ==
    ASSUME KeyChar \/ KeyNewline \/ KeyBksp \/ ReadStart \/ ReadCopy
           \/ ReadReset \/ CtrlC \/ UNCHANGED vars
    PROVE  UNCHANGED CS!cvars
<1>1. UNCHANGED <<active, current, disp>>
  BY DEF KeyChar, KeyNewline, KeyBksp, ReadStart, ReadCopy, ReadReset, CtrlC,
         vars
<1>. QED
  BY <1>1 DEF CS!cvars, imageBar, Backing

(* switch_terminals saves the screen into the old terminal's frame before *)
(* it loads the new one's, so each terminal's image moves with it.         *)
LEMMA AltFRefines ==
    ASSUME IInv, NEW n \in Terminals, AltF(n)
    PROVE  CS!Show(n)
<1>. USE DEF IInv, TypeCore
<1>1. n # active /\ active' = n /\ current' = current
  BY DEF AltF, SwitchTerminals
<1>2. /\ disp'[Screen] = disp[Frame(n)]
      /\ disp'[Frame(active)] = disp[Screen]
      /\ \A t \in Terminals \ {active, n} : disp'[Frame(t)] = disp[Frame(t)]
  BY <1>1, TerminalAssumption DEF AltF, SwitchTerminals, Frames, Frame, Screen,
     Terminals
<1>3. imageBar' = imageBar
  <2>1. \A t \in Terminals : disp'[Backing(t)'] = disp[Backing(t)]
    BY <1>1, <1>2 DEF Backing
  <2>. QED
    BY <2>1 DEF imageBar
<1>. QED
  BY <1>1, <1>3 DEF CS!Show

(* terminal_write through a page that maps the running task's own image   *)
(* adds its output there; through the active terminal's unshown frame it *)
(* changes no image.                                                      *)
LEMMA WriteRefines ==
    ASSUME IInv, Write
    PROVE  [CS!Output]_CS!cvars
<1>. USE DEF IInv, TypeCore
<1>1. /\ disp' = [disp EXCEPT ![vid] = @ \cup {current}]
      /\ UNCHANGED <<active, current>>
  BY DEF Write
<1>2. CASE vid = Backing(current)
  <2>1. \A t \in Terminals :
           disp'[Backing(t)] = IF t = current THEN disp[Backing(t)] \cup {current}
                               ELSE disp[Backing(t)]
    <3>1. SUFFICES ASSUME NEW t \in Terminals
                   PROVE  disp'[Backing(t)] = IF t = current
                                              THEN disp[Backing(t)] \cup {current}
                                              ELSE disp[Backing(t)]
      OBVIOUS
    <3>2. Backing(t) \in Frames /\ (t # current => Backing(t) # Backing(current))
      BY BackingFrames DEF Backing
    <3>. QED
      BY <1>1, <1>2, <3>2
  <2>2. imageBar' = [imageBar EXCEPT ![current] = @ \cup {current}]
    BY <1>1, <2>1 DEF imageBar, Backing
  <2>. QED
    BY <1>1, <2>2 DEF CS!Output
<1>3. CASE vid # Backing(current)
  <2>1. vid = Frame(active)
    BY <1>3 DEF VidSafe
  <2>2. \A t \in Terminals : disp'[Backing(t)] = disp[Backing(t)]
    <3>1. SUFFICES ASSUME NEW t \in Terminals
                   PROVE  disp'[Backing(t)] = disp[Backing(t)]
      OBVIOUS
    <3>2. Backing(t) \in Frames /\ Backing(t) # Frame(active)
      BY BackingFrames DEF Backing
    <3>. QED
      BY <1>1, <2>1, <3>2
  <2>. QED
    BY <1>1, <2>2 DEF CS!cvars, imageBar, Backing
<1>. QED
  BY <1>2, <1>3

(* schedule() moves to the next task and only remaps the video page.      *)
LEMMA TickRefines ==
    ASSUME Tick
    PROVE  CS!Preempt
BY DEF Tick, CS!Preempt, imageBar, Backing

LEMMA NextRefines ==
    ASSUME IInv, [Next]_vars
    PROVE  [CS!Next]_CS!cvars
<1>1. CASE \E n \in Terminals : AltF(n)
  BY <1>1, AltFRefines DEF CS!Next, CS!Consoles, Terminals
<1>2. CASE Write
  BY <1>2, WriteRefines DEF CS!Next
<1>3. CASE Tick
  BY <1>3, TickRefines DEF CS!Next
<1>4. CASE KeyChar \/ KeyNewline \/ KeyBksp \/ ReadStart \/ ReadCopy
           \/ ReadReset \/ CtrlC \/ UNCHANGED vars
  BY <1>4, QuietRefines
<1>. QED
  BY <1>1, <1>2, <1>3, <1>4 DEF Next

(* The terminal code implements the abstract consoles for every number of *)
(* terminals: no ALT+Fn switch loses or mixes a console's output, and a  *)
(* write lands in the running task's own console or in no console at all. *)
THEOREM TerminalRefines == Spec => ConsolesRefinement
<1>1. Init => CS!Init
  BY InitRefines
<1>2. IInv /\ [Next]_vars => [CS!Next]_CS!cvars
  BY NextRefines
<1>. QED
  BY <1>1, <1>2, IInvHolds, PTL DEF Spec, ConsolesRefinement, CS!Spec
====
