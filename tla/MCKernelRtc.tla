----------------------------- MODULE MCKernelRtc -----------------------------
(* Small instances of KernelRtc for TLC: two slots, so that the first    *)
(* PIT tick is the lazy start that reaches the threshold NUM_TASKS - 1 of  *)
(* rtc.c:68; two processes, so that execute can fail for want of a PID;    *)
(* MAX_HZ 2 with rates {1, 2}, the shape of the 1024 Hz table (a default   *)
(* rate below the maximum, every rate a divisor of MAX_HZ) at the least    *)
(* size where slots fire on different ticks.  The PIT count is kept up to  *)
(* NUM_TASKS - 1, the largest value the threshold compares.                *)
EXTENDS KernelRtc

MCNumProcesses == 2
MCNumTasks == 2
MCFdArraySize == 3
MCMaxHz == 2
MCInitialFreq == 1
MCFreqs == {1, 2}
MCMaxTicks == 1
====
