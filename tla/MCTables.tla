------------------------------- MODULE MCTables -------------------------------
(* Four tables of the kernel that share no state, in one run: the lists of a  *)
(* processor, events, objects and interrupt vectors.  Only one of them takes  *)
(* steps in a behaviour, so that their states are added and not multiplied.   *)
EXTENDS MCEvents, ThreadQueue, Objects, InterruptVectors

CONSTANTS u1, u2, u3, d1, d2, d3

VARIABLE studied

\* The users of objects that are not permanent differ in their name only, too.
TablesSymmetry == Symmetry \cup Permutations({u2, u3})

MCInit ==
  /\ studied \in {"ThreadQueue", "Events", "Objects", "InterruptVectors"}
  /\ Init /\ EventsInit /\ ObjectsInit /\ VectorsInit

MCNext ==
  /\ \/ /\ studied = "ThreadQueue" /\ Next
        /\ UNCHANGED <<eventVars, objectVars, vectorVars>>
     \/ /\ studied = "Events" /\ EventsNext
        /\ UNCHANGED <<vars, objectVars, vectorVars>>
     \/ /\ studied = "Objects" /\ ObjectsNext
        /\ UNCHANGED <<vars, eventVars, vectorVars>>
     \/ /\ studied = "InterruptVectors" /\ VectorsNext
        /\ UNCHANGED <<vars, eventVars, objectVars>>
  /\ UNCHANGED studied

MCSpec == MCInit /\ [][MCNext]_<<vars, eventVars, objectVars, vectorVars, studied>>
===============================================================================
