---------------------------- MODULE MCScheduling ----------------------------
(* Three workers that differ in slots and memory, four jobs of two priorities:*)
(* one needs a whole worker, one asks for the tags of the first two workers.  *)
EXTENDS Scheduling

MCJobs == 1 .. 4
MCWorkers == 1 .. 3
MCPriority == <<0, 1, 0, 1>>
MCCreatedAt == <<0, 1, 0, 0>>
MCCpuNeed == <<1, 1, 3, 1>>
MCMemNeed == <<1, 1, 1, 1>>
MCCompatible == <<1 .. 3, 1 .. 2, 1 .. 3, 1 .. 3>>
MCCpu == <<3, 3, 3>>
MCMem == <<2, 3, 2>>
MCSlots == <<3, 2, 1>>
=============================================================================
