--------------------------------- MODULE Ahci ---------------------------------
(***************************************************************************)
(* The command protocol of the AHCI driver (src/src/drivers/ahci): threads *)
(* that allocate command slots of a port and issue commands, waiting for   *)
(* one (AhciIssueCommandSync) or for the count of several (AhciSataRead    *)
(* and AhciSataWrite), and the interrupt handler that finds out which      *)
(* commands have completed.                                                *)
(*                                                                         *)
(* The handler runs on one processor, where its message-signalled          *)
(* interrupt is routed, with interrupts off: threads of that processor do  *)
(* not run meanwhile, threads of the others do.  The controller and its    *)
(* device, which execute commands in any order, are external.              *)
(***************************************************************************)
EXTENDS Integers, Sequences, FiniteSets

CONSTANTS
  Ports,          \* implemented ports, numbered without gaps from 0
  Slots,          \* command slots of a port, 0 .. MaxSlotNumber
  WordBits,       \* bits of the word AllocatedCmd, 0 .. 31
  StackResidue,   \* what AhciAllocateSlot's uninitialised Ret may hold: anything
  Threads,
  Processors,
  Home,           \* [Threads -> Processors]: where a thread runs
  PortOf,         \* [Threads -> Ports]: the port a thread uses
  Program,        \* [Threads -> Seq(Nat)]: the calls it makes, Identify or the
                  \* number of commands of a transfer
  IrqProcessor,   \* where the interrupt of the controller is routed
  None

ASSUME AhciAssumption ==
  /\ Slots \subseteq WordBits /\ WordBits \subseteq Nat /\ StackResidue \subseteq Nat
  /\ Ports \subseteq Nat /\ IsFiniteSet(Slots) /\ None \notin Nat
  /\ None \notin Threads /\ None \notin Ports
  /\ Home \in [Threads -> Processors] /\ PortOf \in [Threads -> Ports]
  /\ IrqProcessor \in Processors

VARIABLES
  pc,             \* where the thread is in its call
  call,           \* index in Program of the call it is in, or will make next
  slot,           \* CommandSlot / Ret of AhciAllocateSlot
  left,           \* commands the call has still to issue
  done,           \* the counter Done of the call
  retSet,         \* Ret of AhciIssueCommandSync has been written
  off,            \* the thread has disabled interrupts
  suspended,      \* THREAD_SUSPENDED
  resume,         \* a request to resume the thread is on its way
  allocated, pending,   \* [Ports -> SUBSET Slots] AllocatedCmd but for the bits
                        \* beyond the slots, which are always set; PendingCmd
  commands,       \* [Ports -> [Slots -> [async, thread]]] Commands
  commandIssue,   \* [Ports -> SUBSET Slots] the port's CI register
  d2h,            \* [Ports -> BOOLEAN] D2HRegisterFisInterrupt of the port
  gis,            \* InterruptStatus of the controller
  msi,            \* an interrupt message waits for the processor
  handler         \* the activation of AhciInterruptHandler

thread == <<pc, call, slot, left, done, retSet, off, suspended, resume>>
port   == <<allocated, pending, commands>>
device == <<commandIssue, d2h, gis, msi>>
vars   == <<thread, port, device, handler>>

\* The identification of the device, by AhciIssueCommandSync.
Identify == 0

Idle == [at |-> "Idle", ports |-> {}, port |-> None, gis |-> {}, issued |-> {}, seen |-> {},
         thread |-> None]
-----------------------------------------------------------------------------
(* Threads.                                                                 *)

\* The processor of t takes its next step for t: no handler runs there and no
\* other thread has disabled interrupts, and t itself is not suspended.
Executes(t) ==
  /\ ~suspended[t]
  /\ Home[t] = IrqProcessor => handler.at = "Idle"
  /\ \A u \in Threads : Home[u] = Home[t] /\ off[u] => u = t

At(t, label) == Executes(t) /\ pc[t] = label
Goto(t, label) == pc' = [pc EXCEPT ![t] = label]

\* The call: AhciIssueCommandSync, or a transfer of so many commands.
Current(t) == Program[t][call[t]]
Sync(t) == Current(t) = Identify

\* The thread that initialises a port makes the first call of its program a
\* synchronous one; the others get the drive from it.
Initialises(t) == Program[t][1] = Identify

\* AhciInitSataDevice runs once for a port, in the thread of the port, before its
\* drive exists; nothing else calls AhciIssueCommandSync.
ASSUME ProgramAssumption ==
  /\ Program \in [Threads -> Seq(Nat)]
  /\ \A t \in Threads : /\ Program[t] # <<>>
                        /\ \A i \in 2 .. Len(Program[t]) : Program[t][i] # Identify
  /\ \A t, u \in Threads :
       Initialises(t) /\ Initialises(u) /\ PortOf[t] = PortOf[u] => t = u

Returned(t) == call[t] > Len(Program[t])
Attached(p) == \A t \in Threads : Initialises(t) /\ PortOf[t] = p => Returned(t)

\* The next call, with the counters of its frame.
Begin(t) ==
  /\ At(t, "Idle") /\ ~Returned(t)
  /\ Initialises(t) \/ Attached(PortOf[t])
  /\ left' = [left EXCEPT ![t] = IF Sync(t) THEN 1 ELSE Current(t)]
  /\ done' = [done EXCEPT ![t] = 0]
  /\ retSet' = [retSet EXCEPT ![t] = FALSE]
  /\ Goto(t, "Allocate")
  /\ UNCHANGED <<call, slot, off, suspended, resume, port, device, handler>>

Free(p) == Slots \ allocated[p]
Lowest(S) == CHOOSE c \in S : \A d \in S : c <= d

\* AhciAllocateSlot scans for a clear bit.
Scan(t) ==
  /\ At(t, "Allocate") /\ Free(PortOf[t]) # {}
  /\ slot' = [slot EXCEPT ![t] = Lowest(Free(PortOf[t]))]
  /\ Goto(t, "Take")
  /\ UNCHANGED <<call, left, done, retSet, off, suspended, resume, port, device, handler>>

\* With no clear bit the scan does not write Ret: what it holds is the result of
\* an earlier scan or whatever the stack held, any number.
ScanFull(t) ==
  /\ At(t, "Allocate") /\ Free(PortOf[t]) = {}
  /\ \E r \in StackResidue \cup ({slot[t]} \ {None}) : slot' = [slot EXCEPT ![t] = r]
  /\ Goto(t, "Take")
  /\ UNCHANGED <<call, left, done, retSet, off, suspended, resume, port, device, handler>>

\* Mutant: the result of the interlocked test is ignored.
TakeAnyway(t) ==
  /\ At(t, "Take") /\ slot[t] \in Slots
  /\ allocated' = [allocated EXCEPT ![PortOf[t]] = @ \cup {slot[t]}]
  /\ Goto(t, "Issue")
  /\ UNCHANGED <<call, slot, left, done, retSet, off, suspended, resume, pending, commands,
                 device, handler>>

\* Mutant: the bits beyond the slots were clear.
TakeUnimplemented(t) ==
  /\ At(t, "Take") /\ slot[t] \in WordBits \ allocated[PortOf[t]]
  /\ allocated' = [allocated EXCEPT ![PortOf[t]] = @ \cup ({slot[t]} \cap Slots)]
  /\ Goto(t, "Issue")
  /\ UNCHANGED <<call, slot, left, done, retSet, off, suspended, resume, pending, commands,
                 device, handler>>

\* The interlocked set of a bit that is still clear.
Take(t) ==
  /\ At(t, "Take") /\ slot[t] \in Slots \ allocated[PortOf[t]]
  /\ allocated' = [allocated EXCEPT ![PortOf[t]] = @ \cup {slot[t]}]
  /\ Goto(t, "Issue")
  /\ UNCHANGED <<call, slot, left, done, retSet, off, suspended, resume, pending, commands,
                 device, handler>>

\* A number beyond the bits of the word names a bit of other memory.  If that is
\* clear it is set, and the caller describes a command beyond the command list,
\* tables and Commands: what follows is undefined, and the behaviour ends here.
TakeBeyond(t) ==
  /\ At(t, "Take") /\ slot[t] \notin WordBits
  /\ Goto(t, "Stray")
  /\ UNCHANGED <<call, slot, left, done, retSet, off, suspended, resume, port, device, handler>>

\* The bit is set, if it is a slot's since the scan, beyond the slots always, in
\* other memory perhaps: scan again, in another time slice if none is clear.
Retry(t) ==
  /\ At(t, "Take") /\ slot[t] \notin Slots \ allocated[PortOf[t]]
  /\ off' = [off EXCEPT ![t] = @ /\ Free(PortOf[t]) # {}]
  /\ Goto(t, "Allocate")
  /\ UNCHANGED <<call, slot, left, done, retSet, suspended, resume, port, device, handler>>

\* Mutant: interrupts stay enabled.
IssueEnabled(t) ==
  /\ At(t, "Issue")
  /\ LET p == PortOf[t] IN
     /\ commands' = [commands EXCEPT ![p][slot[t]] = [async |-> @.async \/ ~Sync(t), thread |-> t]]
     /\ commandIssue' = [commandIssue EXCEPT ![p] = @ \cup {slot[t]}]
  /\ left' = [left EXCEPT ![t] = @ - 1]
  /\ Goto(t, "SetPending")
  /\ UNCHANGED <<call, slot, done, retSet, off, suspended, resume, allocated, pending, d2h, gis,
                 msi, handler>>

\* The slot is described (Async is set, never reset) and handed to the device;
\* AhciIssueCommandSync disables interrupts first.
Issue(t) ==
  /\ At(t, "Issue")
  /\ LET p == PortOf[t] IN
     /\ commands' = [commands EXCEPT ![p][slot[t]] = [async |-> @.async \/ ~Sync(t), thread |-> t]]
     /\ commandIssue' = [commandIssue EXCEPT ![p] = @ \cup {slot[t]}]
  /\ off' = [off EXCEPT ![t] = @ \/ Sync(t)]
  /\ left' = [left EXCEPT ![t] = @ - 1]
  /\ Goto(t, "SetPending")
  /\ UNCHANGED <<call, slot, done, retSet, suspended, resume, allocated, pending, d2h, gis, msi,
                 handler>>

\* Only then is it marked as pending.
SetPending(t) ==
  /\ At(t, "SetPending")
  /\ pending' = [pending EXCEPT ![PortOf[t]] = @ \cup {slot[t]}]
  /\ slot' = [slot EXCEPT ![t] = IF Sync(t) THEN @ ELSE None]
  /\ Goto(t, IF Sync(t) THEN "Test" ELSE IF left[t] > 0 THEN "Allocate" ELSE "Poll")
  /\ UNCHANGED <<call, left, done, retSet, off, suspended, resume, allocated, commands, device,
                 handler>>

\* while (pending) KeSuspendThread().
Test(t) ==
  /\ At(t, "Test")
  /\ Goto(t, IF slot[t] \in pending[PortOf[t]] THEN "Suspend" ELSE "Release")
  /\ UNCHANGED <<call, slot, left, done, retSet, off, suspended, resume, port, device, handler>>

\* It is back at the test, with interrupts enabled, once it has been resumed.
KeSuspendThread(t) ==
  /\ At(t, "Suspend")
  /\ suspended' = [suspended EXCEPT ![t] = TRUE]
  /\ off' = [off EXCEPT ![t] = FALSE]
  /\ Goto(t, "Test")
  /\ UNCHANGED <<call, slot, left, done, retSet, resume, port, device, handler>>

\* AhciIssueCommandSync frees the slot and returns Ret.
Release(t) ==
  /\ At(t, "Release")
  /\ allocated' = [allocated EXCEPT ![PortOf[t]] = @ \ {slot[t]}]
  /\ slot' = [slot EXCEPT ![t] = None]
  /\ call' = [call EXCEPT ![t] = @ + 1]
  /\ Goto(t, "Idle")
  /\ UNCHANGED <<left, done, retSet, off, suspended, resume, pending, commands, device, handler>>

\* while (Done != Operations) Sleep(1).
Poll(t) ==
  /\ At(t, "Poll") /\ done[t] = Current(t)
  /\ call' = [call EXCEPT ![t] = @ + 1]
  /\ Goto(t, "Idle")
  /\ UNCHANGED <<slot, left, done, retSet, off, suspended, resume, port, device, handler>>

\* Sleep enables interrupts again if the call was entered without them.
PollSleep(t) ==
  /\ At(t, "Poll") /\ done[t] # Current(t) /\ off[t]
  /\ off' = [off EXCEPT ![t] = FALSE]
  /\ UNCHANGED <<pc, call, slot, left, done, retSet, suspended, resume, port, device, handler>>

\* KiThreadResumeRoutine on the processor of t.
KiThreadResumeRoutine(t) ==
  /\ resume[t]
  /\ Home[t] = IrqProcessor => handler.at = "Idle"
  /\ \A u \in Threads : Home[u] = Home[t] => ~off[u]
  /\ resume' = [resume EXCEPT ![t] = FALSE]
  /\ suspended' = [suspended EXCEPT ![t] = FALSE]
  /\ UNCHANGED <<pc, call, slot, left, done, retSet, off, port, device, handler>>
-----------------------------------------------------------------------------
(* The controller and its device.                                           *)

\* The device executes a command: its CI bit is cleared and a D2H FIS raises
\* the interrupt of the port, which sends a message if it was not raised.
DeviceExecute(p, c) ==
  /\ c \in commandIssue[p]
  /\ commandIssue' = [commandIssue EXCEPT ![p] = @ \ {c}]
  /\ d2h' = [d2h EXCEPT ![p] = TRUE]
  /\ gis' = gis \cup {p}
  /\ msi' = (msi \/ p \notin gis)
  /\ UNCHANGED <<thread, port, handler>>
-----------------------------------------------------------------------------
(* AhciInterruptHandler.                                                    *)

HandlerAt(label) == handler.at = label

\* The interrupt is taken when the processor has interrupts enabled.
AhciInterruptHandler ==
  /\ HandlerAt("Idle") /\ msi
  /\ \A t \in Threads : Home[t] = IrqProcessor => ~off[t]
  /\ msi' = FALSE
  /\ handler' = [Idle EXCEPT !.at = IF gis = {} THEN "Idle" ELSE "Ports",
                             !.ports = gis, !.gis = gis]
  /\ UNCHANGED <<thread, port, commandIssue, d2h, gis>>

\* The lowest port of those read first: its CI register, if it has posted a D2H.
ReadCommandIssue ==
  /\ HandlerAt("Ports") /\ handler.ports # {}
  /\ LET p == Lowest(handler.ports) IN
     handler' = [handler EXCEPT !.ports = @ \ {p}, !.port = p,
                                !.at = IF d2h[p] THEN "Pending" ELSE "Acknowledge",
                                !.issued = commandIssue[p]]
  /\ UNCHANGED <<thread, port, device>>

\* Then its pending commands.
ReadPending ==
  /\ HandlerAt("Pending")
  /\ handler' = [handler EXCEPT !.at = "Commands", !.seen = pending[handler.port]]
  /\ UNCHANGED <<thread, port, device>>

\* Mutant: every pending command is taken for completed.
CompletedAll == handler.seen

\* Those of them that are not issued any more are taken for completed.
Completed == handler.seen \ handler.issued

\* Mutant: a counted command stays pending.
CountStillPending ==
  /\ HandlerAt("Commands") /\ Completed # {}
  /\ LET p == handler.port
         c == Lowest(Completed)
     IN  /\ commands[p][c].async
         /\ done' = [done EXCEPT ![commands[p][c].thread] = @ + 1]
         /\ allocated' = [allocated EXCEPT ![p] = @ \ {c}]
         /\ handler' = [handler EXCEPT !.seen = @ \ {c}]
  /\ UNCHANGED <<pc, call, slot, left, retSet, off, suspended, resume, pending, commands, device>>

\* Mutant: the slot is left for the issuer to free.
CountLeavingSlot ==
  /\ HandlerAt("Commands") /\ Completed # {}
  /\ LET p == handler.port
         c == Lowest(Completed)
     IN  /\ commands[p][c].async
         /\ pending' = [pending EXCEPT ![p] = @ \ {c}]
         /\ done' = [done EXCEPT ![commands[p][c].thread] = @ + 1]
         /\ handler' = [handler EXCEPT !.seen = @ \ {c}]
  /\ UNCHANGED <<pc, call, slot, left, retSet, off, suspended, resume, allocated, commands, device>>

\* The lowest completed command is not pending any more.  An asynchronous one
\* is counted and its slot freed.
CountAsync ==
  /\ HandlerAt("Commands") /\ Completed # {}
  /\ LET p == handler.port
         c == Lowest(Completed)
     IN  /\ commands[p][c].async
         /\ pending' = [pending EXCEPT ![p] = @ \ {c}]
         /\ done' = [done EXCEPT ![commands[p][c].thread] = @ + 1]
         /\ allocated' = [allocated EXCEPT ![p] = @ \ {c}]
         /\ handler' = [handler EXCEPT !.seen = @ \ {c}]
  /\ UNCHANGED <<pc, call, slot, left, retSet, off, suspended, resume, commands, device>>

\* Mutant: the thread is resumed before its return code is stored.
CompleteWithoutCode ==
  /\ HandlerAt("Commands") /\ Completed # {}
  /\ LET p == handler.port
         c == Lowest(Completed)
     IN  /\ ~commands[p][c].async
         /\ pending' = [pending EXCEPT ![p] = @ \ {c}]
         /\ handler' = [handler EXCEPT !.at = "Resume", !.thread = commands[p][c].thread,
                                       !.seen = @ \ {c}]
  /\ UNCHANGED <<thread, allocated, commands, device>>

CompleteSync ==
  /\ HandlerAt("Commands") /\ Completed # {}
  /\ LET p == handler.port
         c == Lowest(Completed)
     IN  /\ ~commands[p][c].async
         /\ pending' = [pending EXCEPT ![p] = @ \ {c}]
         /\ handler' = [handler EXCEPT !.at = "Store", !.thread = commands[p][c].thread,
                                       !.seen = @ \ {c}]
  /\ UNCHANGED <<thread, allocated, commands, device>>

\* The issuer of a synchronous one gets its return code.
StoreReturnCode ==
  /\ HandlerAt("Store")
  /\ retSet' = [retSet EXCEPT ![handler.thread] = TRUE]
  /\ handler' = [handler EXCEPT !.at = "Resume"]
  /\ UNCHANGED <<pc, call, slot, left, done, off, suspended, resume, port, device>>

\* It waits until the thread is suspended and resumes it: the routine itself on
\* its own processor, an IPI to any other.
Resume ==
  /\ HandlerAt("Resume")
  /\ LET t == handler.thread IN
     /\ suspended[t]
     /\ IF Home[t] = IrqProcessor
        THEN suspended' = [suspended EXCEPT ![t] = FALSE] /\ UNCHANGED resume
        ELSE resume' = [resume EXCEPT ![t] = TRUE] /\ UNCHANGED suspended
  /\ handler' = [handler EXCEPT !.at = "Commands", !.thread = None]
  /\ UNCHANGED <<pc, call, slot, left, done, retSet, off, port, device>>

\* No more completed commands.
CommandsDone ==
  /\ HandlerAt("Commands") /\ Completed = {}
  /\ handler' = [handler EXCEPT !.at = "Acknowledge"]
  /\ UNCHANGED <<thread, port, device>>

\* The interrupt status of the port is written back to itself.
Acknowledge ==
  /\ HandlerAt("Acknowledge")
  /\ d2h' = [d2h EXCEPT ![handler.port] = FALSE]
  /\ handler' = [handler EXCEPT !.at = "Ports"]
  /\ UNCHANGED <<thread, port, commandIssue, gis, msi>>

\* Mutant: the handler acknowledges every port, also those it has not read.
ExitAll ==
  /\ HandlerAt("Ports") /\ handler.ports = {}
  /\ gis' = {}
  /\ handler' = Idle
  /\ UNCHANGED <<thread, port, commandIssue, d2h, msi>>

\* Last the status of the controller, as it was read; a port that has raised
\* its interrupt again meanwhile sends another message.
HandlerExit ==
  /\ HandlerAt("Ports") /\ handler.ports = {}
  /\ gis' = (gis \ handler.gis) \cup {p \in Ports : d2h[p]}
  /\ msi' = (msi \/ \E p \in handler.gis : d2h[p])
  /\ handler' = Idle
  /\ UNCHANGED <<thread, port, commandIssue, d2h>>
-----------------------------------------------------------------------------
Init ==
  /\ pc = [t \in Threads |-> "Idle"] /\ call = [t \in Threads |-> 1]
  /\ slot = [t \in Threads |-> None] /\ left = [t \in Threads |-> 0]
  /\ done = [t \in Threads |-> 0] /\ retSet = [t \in Threads |-> FALSE]
  /\ off = [t \in Threads |-> FALSE]
  /\ suspended = [t \in Threads |-> FALSE] /\ resume = [t \in Threads |-> FALSE]
  /\ allocated = [p \in Ports |-> {}] /\ pending = [p \in Ports |-> {}]
  /\ commands = [p \in Ports |-> [c \in Slots |-> [async |-> FALSE, thread |-> None]]]
  /\ commandIssue = [p \in Ports |-> {}] /\ d2h = [p \in Ports |-> FALSE]
  /\ gis = {} /\ msi = FALSE
  /\ handler = Idle

Step(t) ==
  \/ Begin(t) \/ Scan(t) \/ ScanFull(t) \/ Take(t) \/ TakeBeyond(t) \/ Retry(t) \/ Issue(t)
  \/ SetPending(t) \/ Test(t) \/ KeSuspendThread(t) \/ Release(t) \/ Poll(t) \/ PollSleep(t)

Handler ==
  \/ ReadCommandIssue \/ ReadPending \/ CountAsync \/ CompleteSync \/ StoreReturnCode
  \/ Resume \/ CommandsDone \/ Acknowledge \/ HandlerExit

\* No thread has gone beyond the slots.
Intact == \A t \in Threads : pc[t] # "Stray"

Next ==
  /\ Intact
  /\ \/ \E t \in Threads : Step(t) \/ KiThreadResumeRoutine(t)
     \/ \E p \in Ports, c \in Slots : DeviceExecute(p, c)
     \/ AhciInterruptHandler \/ Handler

Spec == Init /\ [][Next]_vars

\* The device executes what it is given; the handler goes on by itself; an
\* interrupt message or an IPI stays latched until the processor takes it; a
\* thread that is ready is run again and again (EventuallyRuns of Scheduler).
Fairness ==
  /\ \A p \in Ports, c \in Slots : WF_vars(Intact /\ DeviceExecute(p, c))
  /\ WF_vars(Intact /\ Handler) /\ SF_vars(Intact /\ AhciInterruptHandler)
  /\ \A t \in Threads : /\ SF_vars(Intact /\ Step(t))
                        /\ SF_vars(Intact /\ KiThreadResumeRoutine(t))

FairSpec == Spec /\ Fairness
-----------------------------------------------------------------------------
(* Properties.                                                              *)

\* From taking a slot to leaving it.
Served == {"Issue", "SetPending", "Test", "Suspend", "Release"}
Labels == {"Idle", "Allocate", "Take", "Stray", "Poll"} \cup Served

\* Threads stand at a step of the driver's functions, the driver's and the
\* controller's words name slots, and who describes, issues or waits for a command
\* has a slot that exists, whatever number the full scan of AhciAllocateSlot left,
\* or the thread is known to have gone beyond them (Stray).
TypeOK ==
  /\ pc \in [Threads -> Labels]
  /\ slot \in [Threads -> Slots \cup StackResidue \cup {None}]
  /\ \A t \in Threads : pc[t] \in Served => slot[t] \in Slots
  /\ off \in [Threads -> BOOLEAN] /\ suspended \in [Threads -> BOOLEAN]
  /\ resume \in [Threads -> BOOLEAN] /\ retSet \in [Threads -> BOOLEAN]
  /\ allocated \in [Ports -> SUBSET Slots] /\ pending \in [Ports -> SUBSET Slots]
  /\ commandIssue \in [Ports -> SUBSET Slots]
  /\ d2h \in [Ports -> BOOLEAN] /\ gis \subseteq Ports /\ msi \in BOOLEAN
  /\ \A t \in Threads : /\ call[t] \in 1 .. Len(Program[t]) + 1
                        /\ pc[t] # "Idle" => call[t] <= Len(Program[t])
                        /\ left[t] \in Nat /\ done[t] \in Nat

\* The device never executes a command whose slot is free: nobody can describe
\* another command there while the first one still transfers its data.
BusySlotsAllocated == \A p \in Ports : commandIssue[p] \subseteq allocated[p]

Holding(t) == {c \in Slots : slot[t] = c /\ pc[t] \in Served}

\* Two threads never describe, issue or wait for the same slot, although the
\* scan for a free one and the setting of its bit are two steps.
SlotsExclusive ==
  \A t, u \in Threads :
    t # u /\ PortOf[t] = PortOf[u] => Holding(t) \cap Holding(u) = {}

\* No slot is lost: what is allocated has a thread that will free it, or is still
\* pending, for the handler to free it or to give it back to the thread that waits
\* (cmd.c:38-40, interrupt.c:24-37: the issuer frees the slot of a synchronous
\* command, the handler that of an asynchronous one).
NoSlotLost ==
  \A p \in Ports : \A c \in allocated[p] \ pending[p] :
    \E t \in Threads : PortOf[t] = p /\ c \in Holding(t)

\* AhciIssueCommandSync returns what the handler has stored in its frame.
ReturnCodeStored == \A t \in Threads : pc[t] = "Release" => retSet[t]

\* On the thread's own processor the handler never has to wait until the
\* thread it resumes is suspended.
ResumesSuspended == HandlerAt("Resume") => suspended[handler.thread]

\* Done never passes the number of operations it is compared with.
DoneBounded ==
  \A t \in Threads : pc[t] = "Poll" => done[t] <= Current(t)

\* A call returns only after the device has executed all its commands.
ReturnsAfterDevice ==
  \A t \in Threads :
    (pc[t] = "Release" => slot[t] \notin commandIssue[PortOf[t]])
    /\ (pc[t] = "Poll" /\ done[t] = Current(t) =>
          \A c \in commandIssue[PortOf[t]] : commands[PortOf[t]][c].thread # t)

\* A command issued and waited for is returned from, unless a thread goes beyond
\* the slots.
SyncReturns ==
  \A t \in Threads : pc[t] = "Test" ~> (pc[t] = "Release" \/ ~Intact)

\* "Allocate cmd automatically reset on async operations": the slot of an
\* asynchronous command is freed.
AsyncFreed ==
  \A p \in Ports, c \in Slots :
    c \in pending[p] /\ commands[p][c].async ~> c \notin allocated[p]
=============================================================================
