------------------------------ MODULE Terminal ------------------------------
(***************************************************************************)
(* The virtual terminals of terminal.c: one line buffer, input status and  *)
(* active flag per terminal (terminal_t), the keyboard interrupt that      *)
(* edits the ACTIVE terminal's buffer, terminal_read's spin-and-copy,      *)
(* terminal_write, the ALT+Fn console switch, ctrl+c and ctrl+l, and the   *)
(* part of schedule() (scheduling.c) that remaps the video page of the     *)
(* task it switches to.  Task i of the scheduler owns terminal i.          *)
(*                                                                         *)
(* Data is abstract: a typed character is a stamp (the number of the key   *)
(* press), so that a read can be traced back to the keys it returns, and   *)
(* the contents of a video frame is the set of terminals whose output it   *)
(* holds.  buffer_index keeps its uint8 wrap-around (IndexMod) and the     *)
(* bytes that follow input_buffer in terminal_t are modelled, because the  *)
(* backspace handler can write to them.                                    *)
(***************************************************************************)
EXTENDS Naturals, FiniteSets, Bags

CONSTANTS
    NumTerminals,   \* NUM_TERMINALS (= NUM_TASKS)
    BufSize,        \* INPUT_BUFFER_SIZE
    IndexMod,       \* 2^8: buffer_index is a uint8_t
    NLByte,         \* the byte NEWLINE, as a value of buffer_index
    ReadLen,        \* nbytes of the shell's read (BUFSIZE - 1)
    MaxKeys         \* bound on the number of key presses of a run

ASSUME TerminalAssumption ==
    /\ NumTerminals \in Nat \ {0}
    /\ BufSize \in Nat \ {0, 1}
    /\ IndexMod \in Nat /\ IndexMod > BufSize
    /\ NLByte \in 1 .. IndexMod - 1
    /\ ReadLen \in Nat
    /\ MaxKeys \in Nat

VARIABLES
    active,       \* active_terminal
    activeFlag,   \* terminals[t].active
    bufIndex,     \* terminals[t].buffer_index
    buffer,       \* terminals[t].input_buffer
    status,       \* terminals[t].input_status
    current,      \* current_task of the scheduler
    rd,           \* where task t is in terminal_read
    vid,          \* physical frame the video page (VIDMEM, VIRTUAL_END) maps to
    disp,         \* which terminals' output each physical frame holds
    keys,         \* key presses so far (the last stamp issued)
    delivered,    \* bag of the stamps returned by completed reads
    stray         \* a backspace wrote past the terminal's own fields

vars == <<active, activeFlag, bufIndex, buffer, status, current, rd, vid,
          disp, keys, delivered, stray>>

Terminals == 0 .. NumTerminals - 1
Idx == 0 .. IndexMod - 1
Cells == 0 .. BufSize - 1
\* The filler byte NEWLINE that reset_buffer and backspace write (stamps
\* of typed keys start at 1).
NL == 0
Stamps == 1 .. MaxKeys
\* Physical video frames, in units of FOUR_K above BASE_VIDEO_MEM: the real
\* video memory, and the private frame of terminal t (terminal_open).
Screen == 0
Frame(t) == t + 1
Frames == 0 .. NumTerminals
\* INPUT_ENDED (0) and any non-zero input_status (IN_PROGRESS = 0xFF).
Ended == "ended"
Busy == "busy"

\* The frame that holds terminal t's image: the screen when t is the
\* active terminal, its own off-screen buffer otherwise.
Backing(t) == IF t = active THEN Screen ELSE Frame(t)

\* Mutants.  schedule() that advances current_task without % NUM_TASKS;
\* the flag of a task past the table reads as inactive.
TickNoWrap ==
    LET nt == current + 1 IN
    /\ current' = nt
    /\ vid' = IF nt \in Terminals /\ activeFlag[nt] THEN Screen ELSE Frame(nt)
    /\ UNCHANGED <<active, activeFlag, bufIndex, buffer, status, rd, disp,
                   keys, delivered, stray>>

\* switch_terminals that loads the new frame before saving the old one.
SwitchTerminalsLoadFirst(n) ==
    /\ activeFlag' = [activeFlag EXCEPT ![active] = FALSE, ![n] = TRUE]
    /\ active' = n
    /\ disp' = [disp EXCEPT ![Frame(active)] = disp[Frame(n)], ![Screen] = disp[Frame(n)]]
    /\ vid' = IF activeFlag'[current] THEN Screen ELSE Frame(n)

\* switch_terminals that never marks the old terminal INACTIVE.
SwitchTerminalsKeepOld(n) ==
    /\ activeFlag' = [activeFlag EXCEPT ![n] = TRUE]
    /\ active' = n
    /\ disp' = [disp EXCEPT ![Frame(active)] = disp[Screen], ![Screen] = disp[Frame(n)]]
    /\ vid' = IF activeFlag'[current] THEN Screen ELSE Frame(n)

\* switch_terminals without the memcpy that saves the screen into the old
\* terminal's buffer.
SwitchTerminalsNoSave(n) ==
    /\ activeFlag' = [activeFlag EXCEPT ![active] = FALSE, ![n] = TRUE]
    /\ active' = n
    /\ disp' = [disp EXCEPT ![Screen] = disp[Frame(n)]]
    /\ vid' = IF activeFlag'[current] THEN Screen ELSE Frame(n)

\* reset_buffer(): memset the ACTIVE terminal's buffer and zero its index.
ResetActive(buf, idx) ==
    /\ buffer' = [buf EXCEPT ![active] = [c \in Cells |-> NL]]
    /\ bufIndex' = [idx EXCEPT ![active] = 0]

\* buffer_index++ on a uint8_t.
IncIndex(i) == (i + 1) % IndexMod

\* switch_terminals(n) run from alt_fN when n is not the active terminal:
\* swap the flags, save the screen into the old terminal's frame, load the
\* new one's, and remap the video page of the task the interrupt stopped.
SwitchTerminals(n) ==
    /\ activeFlag' = [activeFlag EXCEPT ![active] = FALSE, ![n] = TRUE]
    /\ active' = n
    /\ disp' = [disp EXCEPT ![Frame(active)] = disp[Screen], ![Screen] = disp[Frame(n)]]
    /\ vid' = IF activeFlag'[current] THEN Screen ELSE Frame(n)
-----------------------------------------------------------------------------
(* terminal_open(), called once by start_scheduler() on task 0.           *)
Init ==
    /\ active = 0
    /\ activeFlag = [t \in Terminals |-> t = 0]
    /\ bufIndex = [t \in Terminals |-> 0]
    /\ buffer = [t \in Terminals |-> [c \in Cells |-> NL]]
    /\ status = [t \in Terminals |-> Ended]
    /\ current = 0
    /\ rd = [t \in Terminals |-> "user"]
    /\ vid = Screen
    /\ disp = [f \in Frames |-> {}]
    /\ keys = 0
    /\ delivered = EmptyBag
    /\ stray = FALSE

(* terminal_interrupt, printable character: stored only while there is  *)
(* room for it before the last cell.                                      *)
KeyChar ==
    LET a == active IN
    /\ keys < MaxKeys
    /\ bufIndex[a] < BufSize - 1
    /\ keys' = keys + 1
    /\ buffer' = [buffer EXCEPT ![a][bufIndex[a]] = keys + 1]
    /\ bufIndex' = [bufIndex EXCEPT ![a] = IncIndex(@)]
    /\ UNCHANGED <<active, activeFlag, status, current, rd, vid, disp,
                   delivered, stray>>

(* terminal_interrupt, ENTER: ends the input and advances the index with *)
(* no bound; nothing is stored in the buffer.                             *)
KeyNewline ==
    LET a == active IN
    /\ keys < MaxKeys
    /\ keys' = keys + 1
    /\ status' = [status EXCEPT ![a] = Ended]
    /\ bufIndex' = [bufIndex EXCEPT ![a] = IncIndex(@)]
    /\ UNCHANGED <<active, activeFlag, buffer, current, rd, vid, disp,
                   delivered, stray>>

(* terminal_interrupt, BACKSPACE: buffer_index-- then input_buffer[index] *)
(* = NEWLINE.  An index past the buffer writes the fields that follow    *)
(* input_buffer in terminal_t: buffer_index, input_status, active, one   *)
(* padding byte, then the next terminal's fields (stray).                *)
KeyBksp ==
    LET a == active
        p == bufIndex[a] - 1
    IN
    /\ keys < MaxKeys
    /\ bufIndex[a] > 0
    /\ keys' = keys + 1
    /\ buffer' = IF p < BufSize THEN [buffer EXCEPT ![a][p] = NL] ELSE buffer
    /\ bufIndex' = [bufIndex EXCEPT ![a] = IF p = BufSize THEN NLByte ELSE p]
    /\ status' = IF p = BufSize + 1 THEN [status EXCEPT ![a] = Busy]
                 ELSE status
    /\ activeFlag' = IF p = BufSize + 2 THEN [activeFlag EXCEPT ![a] = TRUE]
                     ELSE activeFlag
    /\ stray' = (stray \/ p >= BufSize + 4)
    /\ UNCHANGED <<active, current, rd, vid, disp, delivered>>

(* alt_f1 .. alt_f3: switch only to another terminal.                    *)
AltF(n) ==
    /\ n # active
    /\ SwitchTerminals(n)
    /\ UNCHANGED <<bufIndex, buffer, status, current, rd, keys, delivered,
                   stray>>

(* terminal_read, first half: the running task marks its own terminal's *)
(* input IN_PROGRESS and starts to spin.                                  *)
ReadStart ==
    /\ rd[current] = "user"
    /\ status' = [status EXCEPT ![current] = Busy]
    /\ rd' = [rd EXCEPT ![current] = "spin"]
    /\ UNCHANGED <<active, activeFlag, bufIndex, buffer, current, vid, disp,
                   keys, delivered, stray>>

(* terminal_read: the spin ends when its terminal's status is ENDED; it  *)
(* copies min(buffer_index, nbytes) bytes of its own terminal.            *)
ReadCopy ==
    LET n == IF bufIndex[current] < ReadLen THEN bufIndex[current] ELSE ReadLen
        got == {buffer[current][c] : c \in {c \in Cells : c < n}} \ {NL}
    IN
    /\ rd[current] = "spin"
    /\ status[current] = Ended
    /\ delivered' = delivered (+) SetToBag(got)
    /\ rd' = [rd EXCEPT ![current] = "reset"]
    /\ UNCHANGED <<active, activeFlag, bufIndex, buffer, status, current,
                   vid, disp, keys, stray>>

(* terminal_read, last step: reset_buffer(), which clears the ACTIVE     *)
(* terminal, and return to the caller.                                    *)
ReadReset ==
    /\ rd[current] = "reset"
    /\ ResetActive(buffer, bufIndex)
    /\ rd' = [rd EXCEPT ![current] = "user"]
    /\ UNCHANGED <<active, activeFlag, status, current, vid, disp, keys,
                   delivered, stray>>

(* terminal_write: putc through the video page of the running task.      *)
Write ==
    /\ rd[current] = "user"
    /\ disp' = [disp EXCEPT ![vid] = @ \cup {current}]
    /\ UNCHANGED <<active, activeFlag, bufIndex, buffer, status, current, rd,
                   vid, keys, delivered, stray>>

(* ctrl_c: ends the input of the RUNNING task's terminal, resets the     *)
(* active terminal's buffer and halts the running process (its slot      *)
(* goes back to its parent, or to a fresh shell, in user mode).           *)
CtrlC ==
    /\ status' = [status EXCEPT ![current] = Ended]
    /\ ResetActive(buffer, bufIndex)
    /\ rd' = [rd EXCEPT ![current] = "user"]
    /\ UNCHANGED <<active, activeFlag, current, vid, disp, keys, delivered,
                   stray>>

(* schedule(): advance the task and remap the video page by the next     *)
(* task's terminal's active flag.                                         *)
Tick ==
    LET nt == (current + 1) % NumTerminals IN
    /\ current' = nt
    /\ vid' = IF activeFlag[nt] THEN Screen ELSE Frame(nt)
    /\ UNCHANGED <<active, activeFlag, bufIndex, buffer, status, rd, disp,
                   keys, delivered, stray>>

Next ==
    \/ KeyChar \/ KeyNewline \/ KeyBksp
    \/ \E n \in Terminals : AltF(n)
    \/ ReadStart \/ ReadCopy \/ ReadReset \/ Write \/ CtrlC \/ Tick

Spec == Init /\ [][Next]_vars

-----------------------------------------------------------------------------
TypeOK ==
    /\ active \in Terminals
    /\ activeFlag \in [Terminals -> BOOLEAN]
    /\ bufIndex \in [Terminals -> Idx]
    /\ buffer \in [Terminals -> [Cells -> Stamps \cup {NL}]]
    /\ status \in [Terminals -> {Ended, Busy}]
    /\ current \in Terminals
    /\ rd \in [Terminals -> {"user", "spin", "reset"}]
    /\ vid \in Frames
    /\ disp \in [Frames -> SUBSET Terminals]
    /\ keys \in 0 .. MaxKeys
    /\ IsABag(delivered) /\ BagToSet(delivered) \subseteq Stamps
    /\ stray \in BOOLEAN

(* The console images never mix: the screen holds output of the active   *)
(* terminal only, and each other terminal's off-screen frame only its    *)
(* own, however terminal_write, the ALT+Fn swap (save the screen, then    *)
(* load the new frame) and schedule()'s remaps interleave.                *)
DisplayIsolation ==
    /\ disp[Screen] \subseteq {active}
    /\ \A t \in Terminals \ {active} : disp[Frame(t)] \subseteq {t}

(* The per-terminal active flags, which schedule() and switch_terminals  *)
(* read, agree with active_terminal, which the keyboard handler uses.     *)
ActiveFlagsMatch == \A t \in Terminals : activeFlag[t] <=> t = active

(* The running task's video page maps to the frame of its own terminal:  *)
(* the screen if its terminal is active, its off-screen frame otherwise  *)
(* (spec 4.3 step 3, which switch_terminals must keep as well).          *)
VideoIsolation == vid = Backing(current)

(* No key typed is returned by two reads: terminal_read consumes the     *)
(* input it returns ("Copy input buffer ... and reset input").           *)
NoReplay == \A s \in DOMAIN delivered : delivered[s] = 1

(* buffer_index never passes the end of input_buffer, so the memcpy of   *)
(* terminal_read and the backspace handler stay inside the buffer.       *)
InputWithinBuffer == \A t \in Terminals : bufIndex[t] <= BufSize

====
