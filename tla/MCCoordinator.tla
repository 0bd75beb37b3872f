---------------------------- MODULE MCCoordinator ----------------------------
(* Small instances of Coordinator for TLC. *)
EXTENDS Coordinator, TLC

CONSTANTS j1, j2, w1

\* j1 is created first and needs a whole worker; j2 is small and urgent.
MCReq          == j1 :> 2 @@ j2 :> 1
MCUniformReq   == j1 :> 1 @@ j2 :> 1
MCPriority     == j1 :> 0 @@ j2 :> 5
MCCreationRank == j1 :> 0 @@ j2 :> 1
MCMaxAttempts  == j1 :> 2 @@ j2 :> 2
MCCapacity     == [w \in Workers |-> 2]
MCSlots        == [w \in Workers |-> 2]
MCCompatible   == [j \in Jobs |-> Workers]
==============================================================================
