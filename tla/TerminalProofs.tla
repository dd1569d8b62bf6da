--------------------------- MODULE TerminalProofs ---------------------------
(***************************************************************************)
(* Proofs that the console-switch logic of terminal.c keeps the active     *)
(* flags consistent with active_terminal and never mixes two terminals'    *)
(* output in one video frame, for any number of terminals and any buffer   *)
(* size.                                                                   *)
(***************************************************************************)
EXTENDS Terminal, TLAPS

\* The state the switch and display reasoning depends on (the line buffer
\* and the bag of delivered keys play no part in it).
TypeCore ==
    /\ active \in Terminals
    /\ activeFlag \in [Terminals -> BOOLEAN]
    /\ current \in Terminals
    /\ vid \in Frames
    /\ disp \in [Frames -> SUBSET Terminals]

\* The video page of the running task maps either to its own terminal's
\* frame or, after switch_terminals has remapped it to the new terminal's
\* frame, to the off-screen frame of the active terminal, which nobody
\* displays and the next switch overwrites.
VidSafe == vid = Backing(current) \/ vid = Frame(active)

IInv == TypeCore /\ ActiveFlagsMatch /\ DisplayIsolation /\ VidSafe
\* Actions that leave every variable of the invariant alone.
CoreUnchanged == UNCHANGED <<active, activeFlag, current, vid, disp>>

(* terminal_open leaves terminal 0 active with the screen mapped, and no   *)
(* frame holds output yet.                                                *)
LEMMA InitIInv == Init => IInv
<1>. SUFFICES ASSUME Init PROVE IInv
  OBVIOUS
<1>. USE TerminalAssumption DEF Init, Terminals, Frames, Screen, Frame
<1>1. TypeCore
  BY DEF TypeCore
<1>2. ActiveFlagsMatch
  BY DEF ActiveFlagsMatch
<1>3. DisplayIsolation
  BY DEF DisplayIsolation
<1>4. VidSafe
  BY DEF VidSafe, Backing
<1>. QED
  BY <1>1, <1>2, <1>3, <1>4 DEF IInv

(* The buffer, read and ctrl+c handlers touch none of the invariant's      *)
(* variables, except the backspace write that sets the active terminal's  *)
(* own flag, which is already set.                                        *)
LEMMA QuietIInv ==
    ASSUME IInv,
           KeyChar \/ KeyNewline \/ ReadStart \/ ReadCopy \/ ReadReset \/ CtrlC
           \/ UNCHANGED vars
    PROVE  IInv'
<1>1. CoreUnchanged
  BY DEF KeyChar, KeyNewline, ReadStart, ReadCopy, ReadReset, CtrlC, vars,
         CoreUnchanged
<1>. QED
  BY <1>1 DEF CoreUnchanged, IInv, TypeCore, ActiveFlagsMatch,
     DisplayIsolation, VidSafe, Backing

LEMMA BkspIInv ==
    ASSUME IInv, KeyBksp
    PROVE  IInv'
<1>1. activeFlag' = activeFlag
  <2>1. activeFlag[active] = TRUE
    BY DEF IInv, ActiveFlagsMatch, TypeCore
  <2>. QED
    BY <2>1 DEF KeyBksp, IInv, TypeCore
<1>2. UNCHANGED <<active, current, vid, disp>>
  BY DEF KeyBksp
<1>. QED
  BY <1>1, <1>2 DEF IInv, TypeCore, ActiveFlagsMatch, DisplayIsolation,
     VidSafe, Backing

(* switch_terminals: the new screen is the new terminal's clean frame,    *)
(* the old terminal's frame receives the screen, which held only its own  *)
(* output, and the remap points either at the running task's own frame    *)
(* or at the new active terminal's stale one.                             *)
LEMMA AltFIInv ==
    ASSUME IInv, NEW n \in Terminals, AltF(n)
    PROVE  IInv'
<1>. USE TerminalAssumption DEF IInv, TypeCore
<1>1. n # active /\ active' = n
  BY DEF AltF, SwitchTerminals
<1>2. TypeCore'
  <2>1. activeFlag' \in [Terminals -> BOOLEAN]
    BY DEF AltF, SwitchTerminals
  <2>2. disp' \in [Frames -> SUBSET Terminals]
    BY DEF AltF, SwitchTerminals, Frames, Frame, Screen, Terminals
  <2>3. vid' \in Frames
    BY DEF AltF, SwitchTerminals, Frames, Frame, Screen, Terminals
  <2>4. current' \in Terminals
    BY DEF AltF
  <2>. QED
    BY <1>1, <2>1, <2>2, <2>3, <2>4
<1>3. ActiveFlagsMatch'
  BY <1>1 DEF AltF, SwitchTerminals, ActiveFlagsMatch
<1>4. DisplayIsolation'
  <2>1. disp'[Screen] = disp[Frame(n)]
    BY <1>1 DEF AltF, SwitchTerminals, Frames, Frame, Screen, Terminals
  <2>2. disp'[Frame(active)] = disp[Screen]
    BY <1>1 DEF AltF, SwitchTerminals, Frames, Frame, Screen, Terminals
  <2>3. \A t \in Terminals \ {active, n} : disp'[Frame(t)] = disp[Frame(t)]
    BY <1>1 DEF AltF, SwitchTerminals, Frames, Frame, Screen, Terminals
  <2>. QED
    BY <1>1, <2>1, <2>2, <2>3 DEF DisplayIsolation
<1>5. VidSafe'
  BY <1>1, <1>3 DEF AltF, SwitchTerminals, VidSafe, Backing, ActiveFlagsMatch
<1>. QED
  BY <1>2, <1>3, <1>4, <1>5

(* terminal_write adds the running task's output to the frame its video  *)
(* page maps: its own image, or the unshown frame of the active terminal. *)
LEMMA WriteIInv ==
    ASSUME IInv, Write
    PROVE  IInv'
<1>. USE TerminalAssumption DEF IInv, TypeCore
<1>1. disp' = [disp EXCEPT ![vid] = @ \cup {current}]
      /\ UNCHANGED <<active, activeFlag, current, vid>>
  BY DEF Write
<1>2. CASE vid = Backing(current)
  BY <1>1, <1>2 DEF DisplayIsolation, ActiveFlagsMatch, VidSafe, Backing,
     Frames, Frame, Screen, Terminals
<1>3. CASE vid = Frame(active)
  BY <1>1, <1>3 DEF DisplayIsolation, ActiveFlagsMatch, VidSafe, Backing,
     Frames, Frame, Screen, Terminals
<1>. QED
  BY <1>2, <1>3 DEF VidSafe

(* schedule() remaps by the next task's flag, which matches active.       *)
LEMMA TickIInv ==
    ASSUME IInv, Tick
    PROVE  IInv'
<1>. USE TerminalAssumption DEF IInv, TypeCore
<1>1. current' \in Terminals
  BY TerminalAssumption DEF Tick, Terminals
<1>. QED
  BY <1>1 DEF Tick, ActiveFlagsMatch, DisplayIsolation, VidSafe, Backing,
     Frames, Frame, Screen, Terminals

LEMMA NextIInv ==
    ASSUME IInv, [Next]_vars
    PROVE  IInv'
BY QuietIInv, BkspIInv, AltFIInv, WriteIInv, TickIInv DEF Next

(* The active flags read by schedule() always agree with active_terminal  *)
(* and no video frame ever mixes two terminals' output, for every number  *)
(* of terminals and every buffer size.                                    *)
THEOREM IInvHolds == Spec => []IInv
BY InitIInv, NextIInv, PTL DEF Spec

THEOREM ActiveFlagsMatchHolds == Spec => []ActiveFlagsMatch
BY IInvHolds, PTL DEF IInv

THEOREM DisplayIsolationHolds == Spec => []DisplayIsolation
BY IInvHolds, PTL DEF IInv

-----------------------------------------------------------------------------
(***************************************************************************)
(* Type correctness of the whole terminal state, line buffers included:    *)
(* buffer_index stays a uint8 through the wrap of ++ and the overrun of    *)
(* backspace, every buffer cell holds NEWLINE or a typed key, and reads     *)
(* deliver only typed keys.                                                 *)
(***************************************************************************)

(* Adding the keys of one read to the bag of delivered keys keeps it a bag *)
(* of typed keys.                                                          *)
LEMMA DeliverType ==
    ASSUME NEW S, NEW B, IsABag(B), BagToSet(B) \subseteq S,
           NEW G, G \subseteq S
    PROVE  /\ IsABag(B (+) SetToBag(G))
           /\ BagToSet(B (+) SetToBag(G)) \subseteq S
BY DEF IsABag, BagToSet, SetToBag, \oplus

LEMMA InitTypeOK == Init => TypeOK
<1> SUFFICES ASSUME Init PROVE TypeOK
  OBVIOUS
<1>1. IsABag(delivered) /\ BagToSet(delivered) \subseteq Stamps
  BY DEF Init, EmptyBag, SetToBag, IsABag, BagToSet
<1>2. /\ active \in Terminals /\ current \in Terminals
      /\ bufIndex \in [Terminals -> Idx] /\ vid \in Frames
      /\ keys \in 0 .. MaxKeys
  BY TerminalAssumption DEF Init, Terminals, Idx, Frames, Screen
<1>3. /\ buffer \in [Terminals -> [Cells -> Stamps \cup {NL}]]
      /\ status \in [Terminals -> {Ended, Busy}]
      /\ rd \in [Terminals -> {"user", "spin", "reset"}]
      /\ activeFlag \in [Terminals -> BOOLEAN]
      /\ disp \in [Frames -> SUBSET Terminals]
      /\ stray \in BOOLEAN
  BY DEF Init
<1>. QED
  BY <1>1, <1>2, <1>3 DEF TypeOK

(* A typed character is stored below the last cell, as a fresh stamp.     *)
LEMMA KeyCharType ==
    ASSUME TypeOK, KeyChar
    PROVE  TypeOK'
<1>. USE TerminalAssumption
<1>1. /\ bufIndex[active] \in 0 .. BufSize - 2
      /\ keys + 1 \in Stamps
  BY DEF KeyChar, TypeOK, Idx, Stamps
<1>2. buffer' \in [Terminals -> [Cells -> Stamps \cup {NL}]]
  BY <1>1 DEF KeyChar, TypeOK, Cells
<1>3. bufIndex' \in [Terminals -> Idx] /\ keys' \in 0 .. MaxKeys
  BY <1>1 DEF KeyChar, TypeOK, IncIndex, Idx, Stamps
<1>. QED
  BY <1>2, <1>3 DEF KeyChar, TypeOK

(* ENTER wraps buffer_index modulo 2^8.                                    *)
LEMMA KeyNewlineType ==
    ASSUME TypeOK, KeyNewline
    PROVE  TypeOK'
<1>. USE TerminalAssumption
<1>1. bufIndex' \in [Terminals -> Idx]
  BY DEF KeyNewline, TypeOK, IncIndex, Idx
<1>. QED
  BY <1>1 DEF KeyNewline, TypeOK

(* Backspace past the buffer writes the fields that follow it: the index  *)
(* byte receives NEWLINE, the status and flag bytes stay of their type.    *)
LEMMA KeyBkspType ==
    ASSUME TypeOK, KeyBksp
    PROVE  TypeOK'
<1>. USE TerminalAssumption
<1> DEFINE p == bufIndex[active] - 1
<1>1. p \in 0 .. IndexMod - 2
  BY DEF KeyBksp, TypeOK, Idx
<1>2. buffer' \in [Terminals -> [Cells -> Stamps \cup {NL}]]
  BY <1>1 DEF KeyBksp, TypeOK, Cells, NL
<1>3. bufIndex' \in [Terminals -> Idx]
  BY <1>1 DEF KeyBksp, TypeOK, Idx
<1>4. status' \in [Terminals -> {Ended, Busy}] /\ activeFlag' \in [Terminals -> BOOLEAN]
  BY DEF KeyBksp, TypeOK
<1>5. keys' \in 0 .. MaxKeys /\ stray' \in BOOLEAN
  BY DEF KeyBksp, TypeOK
<1>. QED
  BY <1>2, <1>3, <1>4, <1>5 DEF KeyBksp, TypeOK

LEMMA AltFType ==
    ASSUME TypeOK, NEW n \in Terminals, AltF(n)
    PROVE  TypeOK'
<1>. USE TerminalAssumption
<1>1. disp' \in [Frames -> SUBSET Terminals] /\ vid' \in Frames
  BY DEF AltF, SwitchTerminals, TypeOK, Frames, Frame, Screen, Terminals
<1>. QED
  BY <1>1 DEF AltF, SwitchTerminals, TypeOK

(* A read returns only typed keys: the cells it copies hold stamps or     *)
(* NEWLINE, and NEWLINE is dropped.                                        *)
LEMMA ReadCopyType ==
    ASSUME TypeOK, ReadCopy
    PROVE  TypeOK'
<1> DEFINE n == IF bufIndex[current] < ReadLen THEN bufIndex[current] ELSE ReadLen
           got == {buffer[current][c] : c \in {c \in Cells : c < n}} \ {NL}
<1>1. got \subseteq Stamps
  BY DEF TypeOK, NL, Stamps
<1>2. delivered' = delivered (+) SetToBag(got)
  BY DEF ReadCopy
<1>3. IsABag(delivered') /\ BagToSet(delivered') \subseteq Stamps
  BY <1>1, <1>2, DeliverType DEF TypeOK
<1>4. rd' \in [Terminals -> {"user", "spin", "reset"}]
  BY DEF ReadCopy, TypeOK
<1>. QED
  BY <1>3, <1>4 DEF ReadCopy, TypeOK

(* reset_buffer and ctrl+c refill a buffer with NEWLINE and zero its index. *)
LEMMA ResetType ==
    ASSUME TypeOK, ReadReset \/ CtrlC
    PROVE  TypeOK'
<1>. USE TerminalAssumption
<1>1. /\ buffer' \in [Terminals -> [Cells -> Stamps \cup {NL}]]
      /\ bufIndex' \in [Terminals -> Idx]
  <2>1. ResetActive(buffer, bufIndex)
    BY DEF ReadReset, CtrlC
  <2>2. [c \in Cells |-> NL] \in [Cells -> Stamps \cup {NL}] /\ 0 \in Idx
    BY DEF Idx
  <2>. QED
    BY <2>1, <2>2 DEF ResetActive, TypeOK
<1>2. /\ status' \in [Terminals -> {Ended, Busy}]
      /\ rd' \in [Terminals -> {"user", "spin", "reset"}]
  BY DEF ReadReset, CtrlC, TypeOK
<1>3. UNCHANGED <<active, activeFlag, current, vid, disp, keys, delivered, stray>>
  BY DEF ReadReset, CtrlC
<1>. QED
  BY <1>1, <1>2, <1>3 DEF TypeOK

LEMMA OtherType ==
    ASSUME TypeOK, ReadStart \/ Write \/ Tick \/ UNCHANGED vars
    PROVE  TypeOK'
<1>. USE TerminalAssumption
<1>1. CASE Tick
  <2>1. (current + 1) % NumTerminals \in Terminals
    BY DEF TypeOK, Terminals
  <2>. QED
    BY <1>1, <2>1 DEF Tick, TypeOK, Frames, Frame, Screen, Terminals
<1>2. CASE ReadStart
  BY <1>2 DEF ReadStart, TypeOK
<1>3. CASE Write
  <2>1. disp[vid] \cup {current} \in SUBSET Terminals
    BY DEF TypeOK
  <2>2. QED
    BY <1>3, <2>1 DEF Write, TypeOK
<1>4. CASE UNCHANGED vars
  BY <1>4 DEF vars, TypeOK
<1>. QED
  BY <1>1, <1>2, <1>3, <1>4

LEMMA NextTypeOK ==
    ASSUME TypeOK, [Next]_vars
    PROVE  TypeOK'
BY KeyCharType, KeyNewlineType, KeyBkspType, AltFType, ReadCopyType, ResetType,
   OtherType DEF Next

(* The terminal state keeps its types in every reachable state, for every *)
(* number of terminals, buffer size and uint8 modulus; in particular the  *)
(* backspace overrun never leaves buffer_index outside 0 .. 255 and reads *)
(* deliver only keys that were typed.                                      *)
THEOREM TypeCorrect == Spec => []TypeOK
BY InitTypeOK, NextTypeOK, PTL DEF Spec
====
