---------------------------- MODULE InterruptVectors ----------------------------
(* Interrupt vectors (src/src/nos/processor/interrupts.c): drivers install    *)
(* handlers, each on the next processor in turn, in any free vector of that   *)
(* processor, while interrupts of the vectors already in use arrive.          *)
(*                                                                            *)
(* Drivers ask for message signalled interrupts (EnableMsiInterrupts, the     *)
(* only caller): no IRQ is given, a vector has one handler and is never       *)
(* removed.  An action is one access to what others read or write.            *)
EXTENDS Integers

CONSTANTS Drivers,          \* each installs its handler, which bears its name
          NumProcessors,    \* processors, numbered from 0: the boot processor
          NumVectors,       \* 188 in the program
          NoHandler

ASSUME VectorsAssumption ==
    /\ NumProcessors \in Nat \ {0}
    /\ NumVectors \in Nat \ {0}
    /\ NoHandler \notin Drivers

Cpus == 0 .. NumProcessors - 1
Vectors == 0 .. NumVectors - 1
BootProcessor == 0

VARIABLES selector,     \* ProcessorSelector
          present,      \* Interrupts[i].Present of a processor
          descriptor,   \* Interrupts[i].Descriptors[0].Handler
          vectorLock,   \* Interrupts[i].SpinLock: who holds it, or NoHandler
          idt,          \* the vectors whose IDT entry is present
          driverPc,     \* driverPc[d]: where KiAllocateIV is for driver d
          cpu,          \* cpu[d]: the processor chosen
          scan,         \* scan[d]: the vector looked at, then the one returned
          cpuPc,        \* cpuPc[p]: where the interrupt of processor p is
          number,       \* number[p]: InterruptNumber
          calling       \* calling[p]: the handler NosIrqHandler calls

irqTables == <<present, descriptor, vectorLock, idt>>
installing == <<selector, driverPc, cpu, scan>>
handling == <<cpuPc, number, calling>>
vectorVars == <<irqTables, installing, handling>>

Slot(d) == <<cpu[d], scan[d]>>

VectorsInit ==
    /\ selector = 0
    /\ present = [s \in Cpus \X Vectors |-> FALSE]
    /\ descriptor = [s \in Cpus \X Vectors |-> NoHandler]
    /\ vectorLock = [s \in Cpus \X Vectors |-> NoHandler]
    /\ idt = [s \in Cpus \X Vectors |-> FALSE]
    /\ driverPc = [d \in Drivers |-> "start"]
    /\ cpu = [d \in Drivers |-> BootProcessor]
    /\ scan = [d \in Drivers |-> 0]
    /\ cpuPc = [p \in Cpus |-> "running"]
    /\ number = [p \in Cpus |-> 0]
    /\ calling = [p \in Cpus |-> NoHandler]

-------------------------------------------------------------------------------
(* KeInstallInterruptHandler and KiAllocateIV.                                *)

\* Under SelectCpuLock.
SelectProcessor(d) ==
    LET chosen == selector % NumProcessors
    IN  /\ driverPc[d] = "start"
        /\ cpu' = [cpu EXCEPT ![d] = chosen]
        /\ selector' = chosen + 1
        /\ driverPc' = [driverPc EXCEPT ![d] = "look"]
        /\ UNCHANGED <<irqTables, scan, handling>>

\* On to the next vector; without one the system stops (KeRaiseException).
NextVector(d) ==
    IF scan[d] + 1 \in Vectors
    THEN /\ scan' = [scan EXCEPT ![d] = @ + 1]
         /\ driverPc' = [driverPc EXCEPT ![d] = "look"]
    ELSE /\ driverPc' = [driverPc EXCEPT ![d] = "exception"]
         /\ UNCHANGED scan

LookAtVector(d) ==
    /\ driverPc[d] = "look"
    /\ IF present[Slot(d)]
       THEN NextVector(d)
       ELSE /\ driverPc' = [driverPc EXCEPT ![d] = "lock"]
            /\ UNCHANGED scan
    /\ UNCHANGED <<irqTables, selector, cpu, handling>>

\* A vector that someone else works on is passed over.
TryVectorLock(d) ==
    /\ driverPc[d] = "lock"
    /\ IF vectorLock[Slot(d)] = NoHandler
       THEN /\ vectorLock' = [vectorLock EXCEPT ![Slot(d)] = d]
            /\ driverPc' = [driverPc EXCEPT ![d] = "again"]
            /\ UNCHANGED scan
       ELSE NextVector(d) /\ UNCHANGED vectorLock
    /\ UNCHANGED <<present, descriptor, idt, selector, cpu, handling>>

\* Mutant: it is not looked at again under the lock.
LookOnce(d) ==
    /\ driverPc[d] = "again"
    /\ driverPc' = [driverPc EXCEPT ![d] = "describe"]
    /\ UNCHANGED <<irqTables, selector, cpu, scan, handling>>

LookAgain(d) ==
    /\ driverPc[d] = "again"
    /\ IF present[Slot(d)]
       THEN NextVector(d) /\ vectorLock' = [vectorLock EXCEPT ![Slot(d)] = NoHandler]
       ELSE /\ driverPc' = [driverPc EXCEPT ![d] = "describe"]
            /\ UNCHANGED <<scan, vectorLock>>
    /\ UNCHANGED <<present, descriptor, idt, selector, cpu, handling>>

\* Mutant: the vector is announced before its handler is there.
PresentFirst(d) ==
    /\ driverPc[d] = "describe"
    /\ present' = [present EXCEPT ![Slot(d)] = TRUE]
    /\ driverPc' = [driverPc EXCEPT ![d] = "present"]
    /\ UNCHANGED <<descriptor, vectorLock, idt, selector, cpu, scan, handling>>

SetDescriptor(d) ==
    /\ driverPc[d] = "describe"
    /\ descriptor' = [descriptor EXCEPT ![Slot(d)] = d]
    /\ driverPc' = [driverPc EXCEPT ![d] = "present"]
    /\ UNCHANGED <<present, vectorLock, idt, selector, cpu, scan, handling>>

SetPresent(d) ==
    /\ driverPc[d] = "present"
    /\ present' = [present EXCEPT ![Slot(d)] = TRUE]
    /\ driverPc' = [driverPc EXCEPT ![d] = "gate"]
    /\ UNCHANGED <<descriptor, vectorLock, idt, selector, cpu, scan, handling>>

\* The IDT entry is set, the lock released; the driver then has the device send
\* its interrupts to the vector returned.
CpuSetInterrupt(d) ==
    /\ driverPc[d] = "gate"
    /\ idt' = [idt EXCEPT ![Slot(d)] = TRUE]
    /\ vectorLock' = [vectorLock EXCEPT ![Slot(d)] = NoHandler]
    /\ driverPc' = [driverPc EXCEPT ![d] = "installed"]
    /\ UNCHANGED <<present, descriptor, selector, cpu, scan, handling>>

-------------------------------------------------------------------------------
(* NosIrqHandler: the handlers called are those of the boot processor.        *)

Interrupt(p, d) ==
    /\ cpuPc[p] = "running"
    /\ driverPc[d] = "installed" /\ cpu[d] = p
    /\ idt[Slot(d)]
    /\ number' = [number EXCEPT ![p] = scan[d]]
    /\ cpuPc' = [cpuPc EXCEPT ![p] = "interrupt"]
    /\ UNCHANGED <<irqTables, installing, calling>>

ReadPresent(p) ==
    /\ cpuPc[p] = "interrupt"
    /\ cpuPc' = [cpuPc EXCEPT ![p] = IF present[<<BootProcessor, number[p]>>]
                                     THEN "call" ELSE "running"]
    /\ UNCHANGED <<irqTables, installing, number, calling>>

CallHandler(p) ==
    /\ cpuPc[p] = "call"
    /\ calling' = [calling EXCEPT ![p] = descriptor[<<BootProcessor, number[p]>>]]
    /\ cpuPc' = [cpuPc EXCEPT ![p] = "handler"]
    /\ UNCHANGED <<irqTables, installing, number>>

EndOfInterrupt(p) ==
    /\ cpuPc[p] = "handler"
    /\ cpuPc' = [cpuPc EXCEPT ![p] = "running"]
    /\ calling' = [calling EXCEPT ![p] = NoHandler]
    /\ UNCHANGED <<irqTables, installing, number>>

-------------------------------------------------------------------------------

Install(d) ==
    \/ SelectProcessor(d)
    \/ LookAtVector(d)
    \/ TryVectorLock(d)
    \/ LookAgain(d)
    \/ SetDescriptor(d)
    \/ SetPresent(d)
    \/ CpuSetInterrupt(d)

NosIrqHandler(p) ==
    \/ \E d \in Drivers : Interrupt(p, d)
    \/ ReadPresent(p)
    \/ CallHandler(p)
    \/ EndOfInterrupt(p)

VectorsNext ==
    \/ \E d \in Drivers : Install(d)
    \/ \E p \in Cpus : NosIrqHandler(p)

VectorsSpec == VectorsInit /\ [][VectorsNext]_vectorVars

-------------------------------------------------------------------------------
(* Properties.                                                                *)

\* No installation is lost: whatever drivers install at the same time, a vector
\* returned to one of them still holds its handler, is marked present and has
\* its IDT entry (KiAllocateIV, interrupts.c:63-88).
HandlersKept ==
    \A d \in Drivers : driverPc[d] = "installed" =>
        /\ descriptor[Slot(d)] = d
        /\ present[Slot(d)]
        /\ idt[Slot(d)]

\* The interrupt handler, which takes no lock and reads the table of another
\* processor while drivers fill it, never calls through an empty descriptor
\* (NosIrqHandler, interrupts.c:314-320).
NoNullHandler ==
    \A p \in Cpus : cpuPc[p] = "handler" => calling[p] # NoHandler

================================================================================
