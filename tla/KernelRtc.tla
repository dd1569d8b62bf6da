------------------------------ MODULE KernelRtc ------------------------------
(***************************************************************************)
(* The virtual RTC (rtc.c) composed with the process core of Kernel.  The *)
(* RTC interrupt fires at a fixed physical rate, independently of the PIT, *)
(* and walks tasks[]: for each slot it picks the divisor of the slot's     *)
(* running PCB (or the default while pcb_all_started says not every slot   *)
(* is up) and raises that PCB's rtc_interrupt_occurred flag on the ticks   *)
(* the divisor selects.  execute snapshots pit_interrupt_counter into      *)
(* pcb_all_started (sys_call.c:270); the PIT handler counts its ticks and  *)
(* calls schedule().                                                       *)
(*                                                                         *)
(* The RTC driver entry points (write_rtc, read_rtc), the counter the      *)
(* handler tests (rtc_virtual_interrupt_counter) and the PIT handler that  *)
(* increments pit_interrupt_counter are not in the source tree; they are   *)
(* modelled from spec 4.4.  The PIT handler may count a tick before or     *)
(* after it calls schedule(); a lazy start never returns into the handler, *)
(* so in the second case that tick is not counted.  Which one the build    *)
(* does is fixed, and unknown: pitCountsFirst.                             *)
(***************************************************************************)
EXTENDS Kernel

CONSTANTS
    MaxHz,          \* MAX_HZ: the physical interrupt rate
    InitialFreq,    \* INITIAL_FREQUENCY: the default virtual rate
    Freqs,          \* the rates write_rtc accepts (powers of two <= MAX_HZ)
    MaxTicks        \* pit_interrupt_counter is kept up to this bound

ASSUME RtcAssumption ==
    /\ MaxHz \in Nat \ {0}
    /\ InitialFreq \in Freqs
    /\ Freqs \subseteq 1 .. MaxHz
    /\ \A f \in Freqs : MaxHz % f = 0
    /\ MaxTicks \in Nat /\ MaxTicks >= NumTasks - 1

VARIABLES
    rtcFreq,          \* PCB field rtc_freq, per PID (0: never written)
    rtcPending,       \* PCB field rtc_interrupt_occurred, per PID
    rtcCounter,       \* rtc_virtual_interrupt_counter, modulo MAX_HZ
    pitCounter,       \* pit_interrupt_counter
    pcbAllStarted,    \* pcb_all_started
    pitCountsFirst    \* the PIT handler counts before calling schedule()

rtcVars == <<rtcFreq, rtcPending, rtcCounter, pitCounter, pcbAllStarted, pitCountsFirst>>
allVars == <<vars, rtcVars>>

(* tasks[i].pcb: NULL until execute has run in the slot (tasks[] is a     *)
(* zeroed global), then PCB_ADDRESS of the slot's running PID; execute and *)
(* halt set it together with tasks[i].pid.                                 *)
NullPcb == NumProcesses + 1
TaskPcb(i) == IF tasks[i].started THEN tasks[i].pid ELSE NullPcb

(* The rate the handler may read as rtc_freq through tasks[i].pcb: the     *)
(* PCB's field, or whatever low memory holds when the pointer is NULL.     *)
FreqRead(i) == IF TaskPcb(i) \in PidCells THEN {rtcFreq[TaskPcb(i)]} ELSE {0} \cup Freqs

RtcTypeOK ==
    /\ rtcFreq \in [PidCells -> {0} \cup Freqs]
    /\ rtcPending \in [PidCells -> BOOLEAN]
    /\ rtcCounter \in 0 .. MaxHz - 1
    /\ pitCounter \in 0 .. MaxTicks
    /\ pcbAllStarted \in 0 .. MaxTicks
    /\ pitCountsFirst \in BOOLEAN

-----------------------------------------------------------------------------
(* Mutants of the RTC helpers.                                             *)
PcbsReadyEarly == pcbAllStarted >= NumTasks - 2

-----------------------------------------------------------------------------
(* rtc.c:68: the handler trusts the slots' PCBs once pcb_all_started has  *)
(* reached NUM_TASKS - 1.                                                  *)
PcbsReady == pcbAllStarted >= NumTasks - 1

(* rtc.c:68-76: the virtual rate of slot i, given the rtc_freq read.       *)
VirtualFrequency(f) == IF PcbsReady /\ f # 0 THEN f ELSE InitialFreq

(* rtc.c:78-79: the slot's flag is raised when the counter is a multiple  *)
(* of MAX_HZ / virtual_frequency.                                          *)
Fires(f) == rtcCounter % (MaxHz \div VirtualFrequency(f)) = 0

(* pit_interrupt_counter advanced by one PIT tick, up to the bound.        *)
Tick(c) == IF c < MaxTicks THEN c + 1 ELSE c

-----------------------------------------------------------------------------
RtcInit ==
    /\ Init
    /\ rtcFreq = [p \in PidCells |-> 0]
    /\ rtcPending = [p \in PidCells |-> FALSE]
    /\ rtcCounter = 0
    /\ pitCounter = 0
    /\ pcbAllStarted = 0
    /\ pitCountsFirst \in BOOLEAN

(* rtc_interrupt with the rtc_freq values f[i] read through tasks[i].pcb: *)
(* each slot whose divisor selects this tick gets rtc_interrupt_occurred  *)
(* set in the PCB tasks[i].pcb points to (a NULL pointer writes no PCB);  *)
(* the driver then counts the tick.                                        *)
RtcInterruptWith(f) ==
    /\ ~crashed
    /\ rtcPending' = [p \in PidCells |->
                        rtcPending[p] \/ \E i \in Tasks : Fires(f[i]) /\ TaskPcb(i) = p]
    /\ rtcCounter' = (rtcCounter + 1) % MaxHz
    /\ UNCHANGED <<vars, rtcFreq, pitCounter, pcbAllStarted, pitCountsFirst>>

FreqReads == {f \in [Tasks -> {0} \cup Freqs] : \A i \in Tasks : f[i] \in FreqRead(i)}

RtcInterrupt == \E f \in FreqReads : RtcInterruptWith(f)

(* sys_execute by the running process; a successful one (the only case   *)
(* that takes a PID) reaches sys_call.c:270.  rtc_freq and                 *)
(* rtc_interrupt_occurred of the new PCB are not touched.                  *)
RtcExecute(c) ==
    /\ Execute(c)
    /\ pcbAllStarted' = IF pidUsed' # pidUsed THEN pitCounter ELSE pcbAllStarted
    /\ UNCHANGED <<rtcFreq, rtcPending, rtcCounter, pitCounter, pitCountsFirst>>

(* sys_halt; a root shell's halt reruns execute, which reaches line 270   *)
(* when it does not fall through.                                          *)
RtcHalt ==
    /\ Halt
    /\ pcbAllStarted' = IF pcb[globalPid].parent = NoPid /\ ~crashed'
                        THEN pitCounter ELSE pcbAllStarted
    /\ UNCHANGED <<rtcFreq, rtcPending, rtcCounter, pitCounter, pitCountsFirst>>

(* The PIT handler: count the tick and call schedule(), in the build's     *)
(* order.  A lazy start's execute never returns into the handler.          *)
PitInterrupt ==
    LET lazy == ~tasks[NextTask(current)].started
        snap == IF pitCountsFirst THEN Tick(pitCounter) ELSE pitCounter
    IN
    /\ Schedule
    /\ pitCounter' = IF pitCountsFirst \/ ~lazy THEN Tick(pitCounter) ELSE pitCounter
    /\ pcbAllStarted' = IF lazy /\ ~crashed' THEN snap ELSE pcbAllStarted
    /\ UNCHANGED <<rtcFreq, rtcPending, rtcCounter, pitCountsFirst>>

(* The running process has an rtc descriptor open.                        *)
HasRtcFd == \E fd \in FirstFd .. FdArraySize - 1 : pcb[globalPid].fds[fd].kind = "rtc"

(* write_rtc (spec 4.4): the running process sets its own divisor.        *)
WriteRtc(r) ==
    /\ UserMayCall
    /\ HasRtcFd
    /\ rtcFreq' = [rtcFreq EXCEPT ![globalPid] = r]
    /\ UNCHANGED <<vars, rtcPending, rtcCounter, pitCounter, pcbAllStarted, pitCountsFirst>>

(* read_rtc (spec 4.4): returns once the caller's flag is set, clearing   *)
(* it; until then the process spins and the step is not enabled.          *)
ReadRtc ==
    /\ UserMayCall
    /\ HasRtcFd
    /\ rtcPending[globalPid]
    /\ rtcPending' = [rtcPending EXCEPT ![globalPid] = FALSE]
    /\ UNCHANGED <<vars, rtcFreq, rtcCounter, pitCounter, pcbAllStarted, pitCountsFirst>>

RtcNext ==
    \/ \E c \in Commands : RtcExecute(c)
    \/ RtcHalt
    \/ \E n \in FileNames : Open(n) /\ UNCHANGED rtcVars
    \/ \E fd \in FirstFd .. FdArraySize - 1 : Close(fd) /\ UNCHANGED rtcVars
    \/ PitInterrupt
    \/ RtcInterrupt
    \/ \E r \in Freqs : WriteRtc(r)
    \/ ReadRtc

RtcSpec == RtcInit /\ [][RtcNext]_allVars /\ WF_allVars(PitInterrupt) /\ WF_allVars(RtcInterrupt)

-----------------------------------------------------------------------------
(* rtc.c:68-69: when the handler takes the branch that reads rtc_freq     *)
(* through tasks[i].pcb for every slot, every slot has been started, so   *)
(* no pointer it follows is still NULL.  This rests on pcb_all_started     *)
(* being a PIT count taken by an execute (sys_call.c:270) and on schedule  *)
(* starting one slot per tick in order.                                    *)
RtcFreqReadSafe == PcbsReady => \A t \in Tasks : tasks[t].started

(* Spec 4.4 ("for every live process ... set that process's flag"): the   *)
(* handler writes rtc_interrupt_occurred only through the PCB pointer of a *)
(* slot that has been started.                                             *)
RtcWritesOnlyStartedPcbs ==
    [][\A f \in FreqReads :
         RtcInterruptWith(f) => \A i \in Tasks : Fires(f[i]) => tasks[i].started]_allVars
====
