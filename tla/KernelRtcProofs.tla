---------------------------- MODULE KernelRtcProofs ----------------------------
(***************************************************************************)
(* The virtual RTC's guard on pcb_all_started, proved for every value of  *)
(* the constants when user code waits for the scheduler (~StartupRace).    *)
(* The argument: while some slot is unstarted, every PIT tick is a lazy    *)
(* start that advances current_task by one, and pit_interrupt_counter      *)
(* advances by at most one per tick; so neither the counter nor the        *)
(* snapshot execute takes of it exceeds current_task, which stays below    *)
(* NUM_TASKS - 1 until the last slot starts.                               *)
(***************************************************************************)
EXTENDS KernelRefinementProofs, KernelRtc

USE NumTasksAssumption, NumProcessesAssumption, FdArraySizeAssumption,
    StartupRaceAssumption, RtcAssumption

(* The inductive invariant: the kernel's, the RTC state's types, and the  *)
(* bound of the two counters by current_task during start-up.             *)
RInv ==
    /\ IInv
    /\ RtcTypeOK
    /\ ~AllStarted => pcbAllStarted <= current /\ pitCounter <= current

-----------------------------------------------------------------------------
(* Each step of the composed system is a step (or a stutter) of the        *)
(* kernel: the RTC handler and the driver calls touch no kernel variable.  *)
LEMMA KernelPart ==
    ASSUME RtcNext
    PROVE  [Next]_vars
<1>1. CASE \E c \in Commands : RtcExecute(c)
  BY <1>1 DEF RtcExecute, Next
<1>2. CASE RtcHalt
  BY <1>2 DEF RtcHalt, Next
<1>3. CASE \/ \E n \in FileNames : Open(n) /\ UNCHANGED rtcVars
           \/ \E fd \in FirstFd .. FdArraySize - 1 : Close(fd) /\ UNCHANGED rtcVars
  BY <1>3 DEF Next
<1>4. CASE PitInterrupt
  BY <1>4 DEF PitInterrupt, Next
<1>5. CASE RtcInterrupt \/ (\E r \in Freqs : WriteRtc(r)) \/ ReadRtc
  BY <1>5 DEF RtcInterrupt, RtcInterruptWith, WriteRtc, ReadRtc, vars
<1>6. QED
  BY <1>1, <1>2, <1>3, <1>4, <1>5 DEF RtcNext

(* Once every slot runs a shell, every slot keeps one: the abstract step  *)
(* never takes a slot out of started.                                      *)
LEMMA AllStartedStable ==
    ASSUME ~StartupRace, IInv, IInv', [Next]_vars, AllStarted
    PROVE  AllStarted'
<1>1. [AS!Next]_AS!vars
  BY NextRefines
<1>2. startedBar \subseteq startedBar'
  BY <1>1 DEF AS!Next, AS!Spawn, AS!Exit, AS!Respawn, AS!Switch, AS!StartSlot,
              AS!vars
<1>3. QED
  BY <1>2 DEF AllStarted, startedBar

-----------------------------------------------------------------------------
LEMMA InitRInv == RtcInit => RInv
<1> SUFFICES ASSUME RtcInit PROVE RInv
  OBVIOUS
<1>1. IInv
  BY InitIInv DEF RtcInit
<1>2. current = 0
  BY DEF RtcInit, Init
<1>3. RtcTypeOK
  BY DEF RtcInit, RtcTypeOK
<1>4. QED
  BY <1>1, <1>2, <1>3 DEF RInv, RtcInit

(* Every step keeps the RTC state within its types.                       *)
LEMMA RtcTypeStep ==
    ASSUME RtcTypeOK, RtcNext
    PROVE  RtcTypeOK'
<1>1. CASE \E c \in Commands : RtcExecute(c)
  BY <1>1 DEF RtcExecute, RtcTypeOK
<1>2. CASE RtcHalt
  BY <1>2 DEF RtcHalt, RtcTypeOK
<1>3. CASE \/ \E n \in FileNames : Open(n) /\ UNCHANGED rtcVars
           \/ \E fd \in FirstFd .. FdArraySize - 1 : Close(fd) /\ UNCHANGED rtcVars
  BY <1>3 DEF rtcVars, RtcTypeOK
<1>4. CASE PitInterrupt
  <2>1. Tick(pitCounter) \in 0 .. MaxTicks
    BY DEF RtcTypeOK, Tick
  <2>2. QED
    BY <1>4, <2>1 DEF PitInterrupt, RtcTypeOK
<1>5. CASE RtcInterrupt
  <2>1. (rtcCounter + 1) % MaxHz \in 0 .. MaxHz - 1
    BY DEF RtcTypeOK
  <2>2. QED
    BY <1>5, <2>1 DEF RtcInterrupt, RtcInterruptWith, RtcTypeOK
<1>6. CASE \E r \in Freqs : WriteRtc(r)
  BY <1>6 DEF WriteRtc, RtcTypeOK
<1>7. CASE ReadRtc
  BY <1>7 DEF ReadRtc, RtcTypeOK
<1>8. QED
  BY <1>1, <1>2, <1>3, <1>4, <1>5, <1>6, <1>7 DEF RtcNext

(* A PIT tick during start-up starts slot current_task + 1 and advances   *)
(* pit_interrupt_counter, and the snapshot of it, by at most one.         *)
LEMMA PitPrefixStep ==
    ASSUME IInv, RtcTypeOK, ~AllStarted, pcbAllStarted <= current,
           pitCounter <= current, PitInterrupt
    PROVE  pcbAllStarted' <= current' /\ pitCounter' <= current'
<1>1. /\ current + 1 \in Tasks
      /\ NextTask(current) = current + 1
      /\ ~tasks[current + 1].started
  BY PrefixNext
<1>2. current' = current + 1
  BY <1>1 DEF PitInterrupt, Schedule
<1>3. /\ current \in Nat
      /\ pitCounter \in 0 .. MaxTicks /\ pcbAllStarted \in 0 .. MaxTicks
  BY DEF IInv, TypeOK, Tasks, RtcTypeOK
<1>4. pitCounter' \in Nat /\ pitCounter' <= pitCounter + 1
  BY <1>3 DEF PitInterrupt, Tick
<1>5. /\ pcbAllStarted' \in Nat
      /\ pcbAllStarted' <= pitCounter + 1 \/ pcbAllStarted' = pcbAllStarted
  BY <1>3 DEF PitInterrupt, Tick
<1>6. QED
  BY <1>2, <1>3, <1>4, <1>5

(* Without the start-up race every step of the composed system keeps the  *)
(* invariant.                                                              *)
LEMMA NextRInv ==
    ASSUME ~StartupRace, RInv, [RtcNext]_allVars
    PROVE  RInv'
<1>1. [Next]_vars
  <2>1. CASE RtcNext
    BY <2>1, KernelPart
  <2>2. CASE UNCHANGED allVars
    BY <2>2 DEF allVars
  <2>3. QED
    BY <2>1, <2>2
<1>2. IInv'
  BY <1>1, NextIInv DEF RInv
<1>3. RtcTypeOK'
  <2>1. CASE RtcNext
    BY <2>1, RtcTypeStep DEF RInv
  <2>2. CASE UNCHANGED allVars
    BY <2>2 DEF allVars, rtcVars, RInv, RtcTypeOK
  <2>3. QED
    BY <2>1, <2>2
<1>4. ~AllStarted' => pcbAllStarted' <= current' /\ pitCounter' <= current'
  <2>1. CASE AllStarted
    BY <2>1, <1>1, <1>2, AllStartedStable DEF RInv
  <2>2. CASE ~AllStarted
    <3>1. ~UserMayCall
      BY <2>2 DEF UserMayCall, AllStarted
    <3>2. CASE PitInterrupt
      BY <2>2, <3>2, PitPrefixStep DEF RInv
    <3>3. CASE RtcInterrupt
      BY <2>2, <3>3 DEF RtcInterrupt, RtcInterruptWith, vars, RInv
    <3>4. CASE UNCHANGED allVars
      BY <2>2, <3>4 DEF allVars, vars, rtcVars, RInv
    <3>5. QED
      BY <3>1, <3>2, <3>3, <3>4
         DEF RtcNext, RtcExecute, Execute, RtcHalt, Halt, Open, Close, WriteRtc, ReadRtc
  <2>3. QED
    BY <2>1, <2>2
<1>5. QED
  BY <1>2, <1>3, <1>4 DEF RInv

(* The invariant gives the guard's safety: pcb_all_started reaches        *)
(* NUM_TASKS - 1 only after the last slot has started.                     *)
LEMMA RInvSafe == RInv => RtcFreqReadSafe
<1> SUFFICES ASSUME RInv, PcbsReady, ~AllStarted PROVE FALSE
  BY DEF RtcFreqReadSafe, AllStarted
<1>1. current + 1 \in Tasks
  BY PrefixNext DEF RInv
<1>2. pcbAllStarted <= current /\ pcbAllStarted >= NumTasks - 1
  BY DEF RInv, PcbsReady
<1>3. current \in Nat /\ pcbAllStarted \in Nat
  BY DEF RInv, IInv, TypeOK, Tasks, RtcTypeOK
<1>4. QED
  BY <1>1, <1>2, <1>3 DEF Tasks

-----------------------------------------------------------------------------
(* rtc_interrupt follows tasks[i].pcb for every slot only once every slot *)
(* has been started: the pcb_all_started test at rtc.c:68 never lets it   *)
(* read rtc_freq through a NULL pointer, for any number of slots,          *)
(* processes or rates, when user code waits for the scheduler.             *)
THEOREM RtcFreqReadSafeHolds ==
    ASSUME ~StartupRace
    PROVE  RtcSpec => []RtcFreqReadSafe
<1>1. RtcInit => RInv
  BY InitRInv
<1>2. RInv /\ [RtcNext]_allVars => RInv'
  BY NextRInv
<1>3. RInv => RtcFreqReadSafe
  BY RInvSafe
<1>4. QED
  BY <1>1, <1>2, <1>3, PTL DEF RtcSpec
====
