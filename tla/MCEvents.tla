------------------------------- MODULE MCEvents -------------------------------
(* Instances of Events for TLC.  Threads r1, r2, s1, ... are model values.    *)
EXTENDS Events, TLC

CONSTANTS r1, r2, s1, s2, add

\* All at one event.
SameEvent == [t \in Callers |-> add]
\* Registrars differ in their name only, and so do signallers.
Symmetry == Permutations({r1, r2}) \cup Permutations({s1, s2})
===============================================================================
