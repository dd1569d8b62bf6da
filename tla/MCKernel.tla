------------------------------ MODULE MCKernel ------------------------------
(* Small instances of Kernel for TLC.                                      *)
EXTENDS Kernel

MCNumProcesses == 4
MCNumTasks == 2
MCFdArraySize == 3
=============================================================================
