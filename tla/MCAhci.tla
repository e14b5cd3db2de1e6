-------------------------------- MODULE MCAhci --------------------------------
(* Instances of Ahci for TLC.  Threads t1, t2, ... are model values.          *)
EXTENDS Ahci

CONSTANTS t1, t2, t3, t4

\* Everything on the processor that takes the interrupt: t1 and t2 initialise
\* the ports 0 and 1, then t3 transfers with more commands than there are slots.
LocalHome == [t \in Threads |-> 0]
LocalPort == [t \in Threads |-> IF t = t2 THEN 1 ELSE 0]
LocalProgram == [t \in Threads |-> IF t = t3 THEN <<3>> ELSE <<Identify>>]

\* t4 on the processor that takes the interrupt, the others on another one; t1
\* initialises the port.
MixedHome == [t \in Threads |-> IF t = t4 THEN 0 ELSE 1]
MixedProgram == [t \in Threads |-> CASE t = t1 -> <<Identify, 1>>
                                     [] t = t3 -> <<2>>
                                     [] t = t4 -> <<1>>]
OnePort == [t \in Threads |-> 0]

\* Two transfers of one command each.
TransferProgram == [t \in Threads |-> <<1>>]
=============================================================================
