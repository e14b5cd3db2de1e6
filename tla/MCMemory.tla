------------------------------- MODULE MCMemory -------------------------------
(* PhysicalMemory and Paging in one run. One ends before the other begins and *)
(* they share no state: only one of them takes steps in a behaviour, so that  *)
(* their states are added and not multiplied.                                 *)
EXTENDS MCPhysicalMemory, MCPaging

VARIABLE studied

OneMap == CHOOSE m \in Maps : TRUE

MCInit ==
  /\ studied \in {"PhysicalMemory", "Paging"}
  /\ Init /\ (studied = "Paging" => firmware = OneMap)
  /\ PagingInit /\ (studied = "PhysicalMemory" => free = Min(FirstFree))

MCNext ==
  /\ \/ studied = "PhysicalMemory" /\ Next /\ UNCHANGED pagingVars
     \/ studied = "Paging" /\ PagingNext /\ UNCHANGED vars
  /\ UNCHANGED studied

MCSpec == MCInit /\ [][MCNext]_<<vars, pagingVars, studied>>
===============================================================================
