-------------------------- MODULE MCKernelRefinement --------------------------
(* The instance of MCKernel, with the refinement mapping to ProcessStacks. *)
EXTENDS KernelRefinement

MCNumProcesses == 4
MCNumTasks == 2
MCFdArraySize == 3
====
