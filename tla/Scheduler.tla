------------------------------ MODULE Scheduler ------------------------------
(***************************************************************************)
(* The thread scheduler of the kernel (src/src/nos/task): the ready and    *)
(* sleep queues of every processor, Schedule(), and the services that move *)
(* threads between the queues, some of them from another processor through *)
(* KeRemoteExecute and an inter-processor interrupt.                       *)
(*                                                                         *)
(* A processor runs its current thread with interrupts enabled (cpu[p] =   *)
(* "Run") or is at a named point of a path that has them disabled.  Two    *)
(* such points are visible to other processors and so are states of their  *)
(* own: the thread unlinked but not yet flagged suspended ("Suspend"), and *)
(* the chosen thread unlinked but not yet linked again ("Link").           *)
(***************************************************************************)
EXTENDS Integers, FiniteSets, SequencesExt

CONSTANTS
  Threads,            \* the thread objects an instance may use
  NumProcessors,      \* registered processors (processor.c: NumProcessors)
  IrqProcessors,      \* processors that device interrupts are routed to
  StaticPriorities,   \* values given to KeSetStaticPriority
  BootQueue,          \* [Processors -> Seq(Threads)]: threads created at start
  Services,           \* the names of the kernel services below
  Uses,               \* [Services -> SUBSET Threads]: who calls each service
  Idle, None          \* model values: an idle thread; no thread, no request

Processors == 0 .. NumProcessors - 1
BootThreads == UNION {ToSet(BootQueue[p]) : p \in Processors}

ASSUME ProcessorsAssumption ==
  /\ NumProcessors \in Nat \ {0}
  /\ IrqProcessors \subseteq Processors

ASSUME ThreadsAssumption ==
  /\ IsFiniteSet(Threads)
  /\ Idle \notin Threads /\ None \notin Threads /\ Idle # None

ASSUME PrioritiesAssumption == StaticPriorities \subseteq Nat /\ StaticPriorities # {}

ASSUME ServicesAssumption ==
  /\ Services = {"KeCreateThread", "Sleep", "KeSuspendThread", "KeExitThread",
                 "KeSetOwnPriority", "KeSetPriority", "KeResumeThread"}
  /\ Uses \in [Services -> SUBSET Threads]

\* Every boot thread is queued once, on one processor.
ASSUME BootQueueAssumption ==
  /\ BootQueue \in [Processors -> Seq(Threads)]
  /\ \A p \in Processors : IsInjective(BootQueue[p])
  /\ \A p, q \in Processors :
       p # q => ToSet(BootQueue[p]) \cap ToSet(BootQueue[q]) = {}

VARIABLES
  threadQueue,     \* [Processors -> Seq(Threads)]   PROCESSOR.ThreadQueue
  sleepQueue,      \* [Processors -> Seq(Threads)]   PROCESSOR.SleepQueue
  currentThread,   \* [Processors -> Threads or Idle]
  cpu,             \* where the processor is: Run, or a point with interrupts off
  chosen,          \* the thread the path of the processor is working on
  ready,           \* THREAD_READY bit
  suspended,       \* THREAD_SUSPENDED bit
  staticPriority, dynamicPriority,
  life,            \* "free" (not created), "live", "exited"
  processor,       \* Thread->Processor
  lastCreateProcessorId,
  pc,              \* how far the thread is in KeSetStaticPriority/KeResumeThread
  request,         \* the routine and thread it is about to execute
  control,         \* PROCESSOR_CONTROL_EXECUTE bit of the processor
  remoteExecute,   \* the processor's RemoteExecute block, sent with an IPI
  expired,         \* the counter has reached Thread->SleepUntil
  completed,       \* threads the interrupt handler of a processor still has to resume
  waiting          \* nobody has yet noticed that the suspended thread may go on

queues     == <<threadQueue, sleepQueue>>
flags      == <<ready, suspended>>
priorities == <<staticPriority, dynamicPriority>>
births     == <<life, processor, lastCreateProcessorId>>
calls      == <<pc, request>>
remote     == <<control, remoteExecute>>
wakeups    == <<completed, waiting>>
vars == <<queues, currentThread, cpu, chosen, flags, priorities, births, calls,
          remote, expired, wakeups>>

Modes == {"Run", "Suspend", "Schedule", "Link", "Irq", "Resume", "Halt", "SC_BUG0"}

\* What KeRemoteExecute, or a local call with interrupts off, is asked to run.
Routines == {"KiSetThreadInReadyQueue", "KiThreadResumeRoutine"}
Requests == [routine : Routines, thread : Threads]

ASSUME NoneAssumption == None \notin Requests
-----------------------------------------------------------------------------
(* Queue operations.                                                        *)

Live == {t \in Threads : life[t] = "live"}

\* The thread executing on p, at a point where p takes interrupts.
Running(p, t) == cpu[p] = "Run" /\ currentThread[p] = t /\ t \in Threads

\* It is between two kernel calls and one of its uses is the service s.
Calling(p, t, s) == Running(p, t) /\ pc[t] = "Body" /\ t \in Uses[s]

Goto(p, m) == cpu' = [cpu EXCEPT ![p] = m]

\* An SC_BUG0 check failed: the processor prints and halts for ever.
ScBug0(p) == Goto(p, "SC_BUG0") /\ UNCHANGED <<queues, flags>>

\* Mutant: the entry is linked but the READY bit is not set.
LinkWithoutFlag(p, t, m) ==
  IF ready[t]
  THEN ScBug0(p)
  ELSE /\ threadQueue' = [threadQueue EXCEPT ![processor[t]] = Append(@, t)]
       /\ Goto(p, m)
       /\ UNCHANGED <<sleepQueue, flags>>

\* Processor p links t at the bottom of the ready queue of t's processor and
\* goes on at m, or stops at the check that t is not READY.
ScLinkReadyThreadBottom(p, t, m) ==
  IF ready[t]
  THEN ScBug0(p)
  ELSE /\ threadQueue' = [threadQueue EXCEPT ![processor[t]] = Append(@, t)]
       /\ ready' = [ready EXCEPT ![t] = TRUE]
       /\ Goto(p, m)
       /\ UNCHANGED <<sleepQueue, suspended>>

\* Mutant: the READY bit survives the unlinking.
UnlinkKeepsFlag(p, t) ==
  /\ \E i \in DOMAIN threadQueue[p] :
       /\ threadQueue[p][i] = t
       /\ threadQueue' = [threadQueue EXCEPT ![p] = RemoveAt(@, i)]
  /\ ready' = ready

\* threadQueue of processor p without t, t's READY bit reset.
ScUnlinkReadyThread(p, t) ==
  /\ \E i \in DOMAIN threadQueue[p] :
       /\ threadQueue[p][i] = t
       /\ threadQueue' = [threadQueue EXCEPT ![p] = RemoveAt(@, i)]
  /\ ready' = [ready EXCEPT ![t] = FALSE]

\* Mutant: the routine does not reset the SUSPENDED bit.
RoutineKeepsSuspended(p, r, m) == ScLinkReadyThreadBottom(p, r.thread, m)

\* The routine of a request, run with interrupts off on the processor p the
\* thread belongs to; p then goes on at m.
RunRoutine(p, r, m) ==
  IF ready[r.thread]
  THEN ScBug0(p)
  ELSE /\ threadQueue' = [threadQueue EXCEPT ![processor[r.thread]] = Append(@, r.thread)]
       /\ ready' = [ready EXCEPT ![r.thread] = TRUE]
       /\ suspended' = IF r.routine = "KiThreadResumeRoutine"
                       THEN [suspended EXCEPT ![r.thread] = FALSE] ELSE suspended
       /\ Goto(p, m)
       /\ UNCHANGED sleepQueue
-----------------------------------------------------------------------------
(* Schedule(): entered from the timer, an IPI, a device interrupt or        *)
(* __Schedule().  Threads are only ever chosen from the processor's queues. *)

\* The APIC timer of the processor fires (SchedulerEntry).
TimerInterrupt(p) ==
  /\ cpu[p] = "Run"
  /\ Goto(p, "Schedule")
  /\ UNCHANGED <<queues, currentThread, chosen, flags, priorities, births, calls,
                 remote, expired, wakeups>>

\* Mutant: the scan of the sleep queue does not stop at the first due thread.
LastDue(p, i) ==
  /\ i \in DOMAIN sleepQueue[p]
  /\ expired[sleepQueue[p][i]]
  /\ \A j \in i + 1 .. Len(sleepQueue[p]) : ~expired[sleepQueue[p][j]]

\* Index i is the first thread of the sleep queue whose time has come.
FirstDue(p, i) ==
  /\ i \in DOMAIN sleepQueue[p]
  /\ expired[sleepQueue[p][i]]
  /\ \A j \in 1 .. i - 1 : ~expired[sleepQueue[p][j]]

SleeperDue(p) == \E t \in ToSet(sleepQueue[p]) : expired[t]

\* The sleeper at index i is linked in the ready queue and runs.
WakeSleeper(p, i) ==
  LET t == sleepQueue[p][i] IN
  IF ready[t]
  THEN ScBug0(p) /\ UNCHANGED <<currentThread, dynamicPriority, expired>>
  ELSE /\ sleepQueue' = [sleepQueue EXCEPT ![p] = RemoveAt(@, i)]
       /\ threadQueue' = [threadQueue EXCEPT ![p] = Append(@, t)]
       /\ ready' = [ready EXCEPT ![t] = TRUE]
       /\ expired' = [expired EXCEPT ![t] = FALSE]
       /\ dynamicPriority' = [dynamicPriority EXCEPT ![t] = staticPriority[t]]
       /\ currentThread' = [currentThread EXCEPT ![p] = t]
       /\ Goto(p, "Run")
       /\ UNCHANGED suspended

\* A due sleeper is taken whatever its priority, and nothing is aged.
ScheduleSleeper(p) ==
  /\ cpu[p] = "Schedule"
  /\ \E i \in DOMAIN sleepQueue[p] : FirstDue(p, i) /\ WakeSleeper(p, i)
  /\ UNCHANGED <<chosen, staticPriority, births, calls, remote, wakeups>>

\* Mutant: the processor idles but the sleeping thread stays its current one.
IdleKeepsCurrent(p) ==
  /\ cpu[p] = "Schedule"
  /\ ~SleeperDue(p)
  /\ threadQueue[p] = <<>>
  /\ Goto(p, "Run")
  /\ UNCHANGED <<queues, currentThread, chosen, flags, priorities, births, calls, remote,
                 expired, wakeups>>

\* Nothing is ready: the processor halts in __idle until the next interrupt.
ScheduleIdle(p) ==
  /\ cpu[p] = "Schedule"
  /\ ~SleeperDue(p)
  /\ threadQueue[p] = <<>>
  /\ currentThread' = [currentThread EXCEPT ![p] = Idle]
  /\ Goto(p, "Run")
  /\ UNCHANGED <<queues, chosen, flags, priorities, births, calls, remote,
                 expired, wakeups>>

\* The scan of the ready queue starts from the current thread if it may go on.
Candidate(p) ==
  IF currentThread[p] \in Threads /\ ready[currentThread[p]]
  THEN currentThread[p] ELSE Head(threadQueue[p])

\* The scan raises the priority of every thread it passes but the current one,
\* so the candidate it holds is compared with its raised priority.
Preferred(p, best, t) ==
  IF dynamicPriority[t] > dynamicPriority[best] + (IF best = currentThread[p] THEN 0 ELSE 1)
  THEN t ELSE best

Selected(p) == FoldLeft(LAMBDA best, t : Preferred(p, best, t), Candidate(p), threadQueue[p])

\* Mutant: only the threads behind the current one in the queue age.
AgedFromCurrent(p) ==
  [t \in Threads |-> dynamicPriority[t] +
     (IF \E i, j \in DOMAIN threadQueue[p] :
           i < j /\ threadQueue[p][i] = currentThread[p] /\ threadQueue[p][j] = t
      THEN 1 ELSE 0)]

\* Every ready thread but the current one ages by one, the selected one too.
Aged(p) ==
  [t \in Threads |-> dynamicPriority[t] +
     (IF t \in ToSet(threadQueue[p]) \ {currentThread[p]} THEN 1 ELSE 0)]

\* The selected thread leaves the queue.
ScheduleReady(p) ==
  /\ cpu[p] = "Schedule"
  /\ ~SleeperDue(p)
  /\ \E t \in ToSet(threadQueue[p]) :
       /\ t = Selected(p)
       /\ ScUnlinkReadyThread(p, t)
       /\ chosen' = [chosen EXCEPT ![p] = t]
  /\ dynamicPriority' = Aged(p)
  /\ Goto(p, "Link")
  /\ UNCHANGED <<sleepQueue, currentThread, suspended, staticPriority, births, calls,
                 remote, expired, wakeups>>

\* Mutant: the chosen thread keeps the priority it has aged to.
LinkKeepsPriority(p) ==
  /\ cpu[p] = "Link"
  /\ ScLinkReadyThreadBottom(p, chosen[p], "Run")
  /\ currentThread' = [currentThread EXCEPT ![p] = chosen[p]]
  /\ chosen' = [chosen EXCEPT ![p] = None]
  /\ UNCHANGED <<priorities, births, calls, remote, expired, wakeups>>

\* It goes back to the end of the list and becomes the current thread.
LinkChosen(p) ==
  /\ cpu[p] = "Link"
  /\ LET t == chosen[p] IN
     /\ ScLinkReadyThreadBottom(p, t, "Run")
     /\ dynamicPriority' = [dynamicPriority EXCEPT ![t] = staticPriority[t]]
     /\ currentThread' = [currentThread EXCEPT ![p] = t]
  /\ chosen' = [chosen EXCEPT ![p] = None]
  /\ UNCHANGED <<staticPriority, births, calls, remote, expired, wakeups>>

\* The tick count and the counter reach the time a sleeper waits for.
KeTimerTick(t) ==
  /\ \E p \in Processors : t \in ToSet(sleepQueue[p])
  /\ ~expired[t]
  /\ expired' = [expired EXCEPT ![t] = TRUE]
  /\ UNCHANGED <<queues, currentThread, cpu, chosen, flags, priorities, births,
                 calls, remote, wakeups>>
-----------------------------------------------------------------------------
(* Services a thread calls for itself.                                      *)

\* Mutant: the sleeper stays linked in the ready queue.
SleepStillReady(p, t) ==
  /\ Calling(p, t, "Sleep")
  /\ ready' = [ready EXCEPT ![t] = FALSE]
  /\ sleepQueue' = [sleepQueue EXCEPT ![p] = Append(@, t)]
  /\ expired' = [expired EXCEPT ![t] = FALSE]
  /\ Goto(p, "Schedule")
  /\ UNCHANGED <<threadQueue, currentThread, chosen, suspended, priorities, births,
                 calls, remote, wakeups>>

\* Sleep: from the ready queue to the sleep queue with interrupts off.
Sleep(p, t) ==
  /\ Calling(p, t, "Sleep")
  /\ ScUnlinkReadyThread(p, t)
  /\ sleepQueue' = [sleepQueue EXCEPT ![p] = Append(@, t)]
  /\ expired' = [expired EXCEPT ![t] = FALSE]
  /\ Goto(p, "Schedule")
  /\ UNCHANGED <<currentThread, chosen, suspended, priorities, births, calls,
                 remote, wakeups>>

\* KeSuspendThread, called by a driver that has started a device operation
\* whose completion will resume the thread.
KeSuspendThread(p, t) ==
  /\ Calling(p, t, "KeSuspendThread")
  /\ ScUnlinkReadyThread(p, t)
  /\ waiting' = [waiting EXCEPT ![t] = TRUE]
  /\ Goto(p, "Suspend")
  /\ UNCHANGED <<sleepQueue, currentThread, chosen, suspended, priorities, births,
                 calls, remote, expired, completed>>

SetSuspended(p) ==
  /\ cpu[p] = "Suspend"
  /\ suspended' = [suspended EXCEPT ![currentThread[p]] = TRUE]
  /\ Goto(p, "Schedule")
  /\ UNCHANGED <<queues, currentThread, chosen, ready, priorities, births, calls,
                 remote, expired, wakeups>>

\* KeExitThread(NULL): the thread object is destroyed; the last thread of the
\* process stops the processor instead ("EXIT_THREAD EXIT_PROCESS").
KeExitThread(p, t) ==
  /\ Calling(p, t, "KeExitThread")
  /\ ScUnlinkReadyThread(p, t)
  /\ life' = [life EXCEPT ![t] = "exited"]
  /\ Goto(p, IF Live = {t} THEN "Halt" ELSE "Schedule")
  /\ UNCHANGED <<sleepQueue, currentThread, chosen, suspended, priorities,
                 processor, lastCreateProcessorId, calls, remote, expired, wakeups>>
-----------------------------------------------------------------------------
(* Services that act on another thread.  Only the routine itself runs with  *)
(* interrupts off: the flag tests before it do not, so the calling thread   *)
(* can be preempted between the test (pc) and what the test led to.         *)

\* Thread t goes on to run the routine for u: here, or on u's processor.
Execute(t, routine, u) ==
  /\ pc' = [pc EXCEPT ![t] = "Execute"]
  /\ request' = [request EXCEPT ![t] = [routine |-> routine, thread |-> u]]

\* KeSetStaticPriority(u, s) up to its test of u's flags.
KeSetStaticPriority(t, u, s) ==
  /\ staticPriority' = [staticPriority EXCEPT ![u] = s]
  /\ dynamicPriority' = [dynamicPriority EXCEPT ![u] = IF @ < s THEN s ELSE @]
  /\ IF ~ready[u] /\ ~suspended[u]
     THEN Execute(t, "KiSetThreadInReadyQueue", u)
     ELSE UNCHANGED calls

\* Mutant: the turn does not wrap after the last processor.
TurnWithoutWrap == lastCreateProcessorId + 1

\* The processor whose turn comes after this one.
NextTurn == IF lastCreateProcessorId + 1 = NumProcessors THEN 0 ELSE lastCreateProcessorId + 1

\* KeCreateThread: the next processor in turn, then the priority of the thread.
KeCreateThread(p, t, u, s) ==
  /\ Calling(p, t, "KeCreateThread")
  /\ life[u] = "free"
  /\ life' = [life EXCEPT ![u] = "live"]
  /\ processor' = [processor EXCEPT ![u] = lastCreateProcessorId]
  /\ lastCreateProcessorId' = NextTurn
  /\ KeSetStaticPriority(t, u, s)
  /\ UNCHANGED <<queues, currentThread, cpu, chosen, flags, remote, expired, wakeups>>

\* A thread sets its own priority (init.c does).
KeSetOwnPriority(p, t, s) ==
  /\ Calling(p, t, "KeSetOwnPriority")
  /\ KeSetStaticPriority(t, t, s)
  /\ UNCHANGED <<queues, currentThread, cpu, chosen, flags, births, remote, expired,
                 wakeups>>

\* A thread sets the priority of another one.
KeSetPriority(p, t, u, s) ==
  /\ Calling(p, t, "KeSetPriority")
  /\ u \in Live \ {t}
  /\ KeSetStaticPriority(t, u, s)
  /\ UNCHANGED <<queues, currentThread, cpu, chosen, flags, births, remote, expired,
                 wakeups>>

\* A thread, not the completion of the device, resumes another one.
KeResumeThread(p, t, u) ==
  /\ Calling(p, t, "KeResumeThread")
  /\ u \in Live /\ suspended[u]
  /\ Execute(t, "KiThreadResumeRoutine", u)
  /\ waiting' = [waiting EXCEPT ![u] = FALSE]
  /\ UNCHANGED <<queues, currentThread, cpu, chosen, flags, priorities, births, remote,
                 expired, completed>>

\* The routine runs here, between _disable and the restored flags.
ExecuteLocally(p, t) ==
  /\ Running(p, t) /\ pc[t] = "Execute" /\ processor[request[t].thread] = p
  /\ RunRoutine(p, request[t], "Run")
  /\ pc' = [pc EXCEPT ![t] = "Body"]
  /\ request' = [request EXCEPT ![t] = None]
  /\ UNCHANGED <<currentThread, chosen, priorities, births, remote, expired, wakeups>>

\* Mutant: the bit is set without testing that it was clear.
AcquireWithoutTest(p, t) ==
  /\ Running(p, t) /\ pc[t] = "Execute"
  /\ LET q == processor[request[t].thread] IN
     /\ q # p
     /\ control' = [control EXCEPT ![q] = TRUE]
  /\ pc' = [pc EXCEPT ![t] = "Post"]
  /\ UNCHANGED <<queues, currentThread, cpu, chosen, flags, priorities, births,
                 request, remoteExecute, expired, wakeups>>

\* KeRemoteExecute, first half: spin for the control bit of the target.  The
\* macro leaves interrupts enabled.
AcquireProcessorControl(p, t) ==
  /\ Running(p, t) /\ pc[t] = "Execute"
  /\ LET q == processor[request[t].thread] IN
     /\ q # p /\ ~control[q]
     /\ control' = [control EXCEPT ![q] = TRUE]
  /\ pc' = [pc EXCEPT ![t] = "Post"]
  /\ UNCHANGED <<queues, currentThread, cpu, chosen, flags, priorities, births,
                 request, remoteExecute, expired, wakeups>>

\* Second half: fill the block of the target and send SYSINT_EXECUTE.
KeRemoteExecute(p, t) ==
  /\ Running(p, t) /\ pc[t] = "Post"
  /\ remoteExecute' = [remoteExecute EXCEPT ![processor[request[t].thread]] = request[t]]
  /\ pc' = [pc EXCEPT ![t] = "Body"]
  /\ request' = [request EXCEPT ![t] = None]
  /\ UNCHANGED <<queues, currentThread, cpu, chosen, flags, priorities, births,
                 control, expired, wakeups>>

\* Mutant: the handler never releases the control bit.
HandlerKeepsControl(p) ==
  /\ cpu[p] = "Run" /\ remoteExecute[p] # None
  /\ RunRoutine(p, remoteExecute[p], "Schedule")
  /\ remoteExecute' = [remoteExecute EXCEPT ![p] = None]
  /\ UNCHANGED <<currentThread, chosen, priorities, births, calls, control, expired, wakeups>>

\* SYSINT_EXECUTE on the target: run the routine, release the control bit, and
\* reschedule, as every system interrupt does.
KiRemoteExecuteHandler(p) ==
  /\ cpu[p] = "Run" /\ remoteExecute[p] # None
  /\ RunRoutine(p, remoteExecute[p], "Schedule")
  /\ control' = [control EXCEPT ![p] = FALSE]
  /\ remoteExecute' = [remoteExecute EXCEPT ![p] = None]
  /\ UNCHANGED <<currentThread, chosen, priorities, births, calls, expired, wakeups>>
-----------------------------------------------------------------------------
(* Device interrupts: a handler that resumes the threads whose operations   *)
(* have completed, as AhciInterruptHandler does.                            *)

\* The handler reads which operations, those of the threads in done, completed.
NosIrqHandler(p, done) ==
  /\ p \in IrqProcessors /\ cpu[p] = "Run"
  /\ \A t \in done : waiting[t]
  /\ waiting' = [t \in Threads |-> waiting[t] /\ t \notin done]
  /\ completed' = [completed EXCEPT ![p] = done]
  /\ Goto(p, "Irq")
  /\ UNCHANGED <<queues, currentThread, chosen, flags, priorities, births, calls,
                 remote, expired>>

\* The next thread of those to be resumed.
IrqComplete(p, t) ==
  /\ cpu[p] = "Irq" /\ t \in completed[p]
  /\ completed' = [completed EXCEPT ![p] = @ \ {t}]
  /\ chosen' = [chosen EXCEPT ![p] = t]
  /\ Goto(p, "Resume")
  /\ UNCHANGED <<queues, currentThread, flags, priorities, births, calls, remote,
                 expired, waiting>>

\* It waits until the thread is suspended, then calls KeResumeThread: the
\* routine itself on the thread's own processor, an IPI to any other.
IrqResumeLocal(p) ==
  /\ cpu[p] = "Resume"
  /\ LET t == chosen[p] IN
     /\ suspended[t] /\ processor[t] = p
     /\ RunRoutine(p, [routine |-> "KiThreadResumeRoutine", thread |-> t], "Irq")
  /\ chosen' = [chosen EXCEPT ![p] = None]
  /\ UNCHANGED <<currentThread, priorities, births, calls, remote, expired, wakeups>>

IrqResumeRemote(p) ==
  /\ cpu[p] = "Resume"
  /\ LET t == chosen[p]
         q == processor[t] IN
     /\ suspended[t] /\ q # p /\ ~control[q]
     /\ control' = [control EXCEPT ![q] = TRUE]
     /\ remoteExecute' = [remoteExecute EXCEPT
          ![q] = [routine |-> "KiThreadResumeRoutine", thread |-> t]]
  /\ chosen' = [chosen EXCEPT ![p] = None]
  /\ Goto(p, "Irq")
  /\ UNCHANGED <<queues, currentThread, flags, priorities, births, calls, expired,
                 wakeups>>

\* Every device interrupt ends in the scheduler too.
IrqExit(p) ==
  /\ cpu[p] = "Irq" /\ completed[p] = {}
  /\ Goto(p, "Schedule")
  /\ UNCHANGED <<queues, currentThread, chosen, flags, priorities, births, calls,
                 remote, expired, wakeups>>
-----------------------------------------------------------------------------
MaxOf(S) == CHOOSE m \in S : \A n \in S : n <= m

Init ==
  /\ threadQueue = BootQueue
  /\ sleepQueue = [p \in Processors |-> <<>>]
  /\ currentThread = [p \in Processors |-> Idle]
  /\ cpu = [p \in Processors |-> "Schedule"]
  /\ chosen = [p \in Processors |-> None]
  /\ ready = [t \in Threads |-> t \in BootThreads]
  /\ suspended = [t \in Threads |-> FALSE]
  /\ \E s \in StaticPriorities : staticPriority = [t \in Threads |-> IF t \in BootThreads THEN s ELSE 0]
  /\ dynamicPriority = staticPriority
  /\ life = [t \in Threads |-> IF t \in BootThreads THEN "live" ELSE "free"]
  /\ processor \in [Threads -> Processors]
  /\ \A t \in Threads : IF t \in BootThreads THEN t \in ToSet(BootQueue[processor[t]])
                        ELSE processor[t] = 0
  /\ lastCreateProcessorId \in Processors
  /\ pc = [t \in Threads |-> "Body"]
  /\ request = [t \in Threads |-> None]
  /\ control = [p \in Processors |-> FALSE]
  /\ remoteExecute = [p \in Processors |-> None]
  /\ expired = [t \in Threads |-> FALSE]
  /\ waiting = [t \in Threads |-> FALSE]
  /\ completed = [p \in Processors |-> {}]

\* With interrupts off: the processor goes on by itself.
Scheduling(p) == ScheduleSleeper(p) \/ ScheduleIdle(p) \/ ScheduleReady(p) \/ LinkChosen(p)
Kernel(p) == Scheduling(p) \/ SetSuspended(p)
Interrupt(p) == IrqExit(p) \/ IrqResumeLocal(p) \/ IrqResumeRemote(p)
                \/ \E t \in Threads : IrqComplete(p, t)

\* What the thread executes between two interrupts.
Pending(p, t) == ExecuteLocally(p, t) \/ AcquireProcessorControl(p, t) \/ KeRemoteExecute(p, t)
Call(p, t) ==
  \/ Sleep(p, t) \/ KeSuspendThread(p, t) \/ KeExitThread(p, t)
  \/ \E s \in StaticPriorities : KeSetOwnPriority(p, t, s)
  \/ \E u \in Threads, s \in StaticPriorities : KeCreateThread(p, t, u, s)
  \/ \E u \in Threads, s \in StaticPriorities : KeSetPriority(p, t, u, s)
  \/ \E u \in Threads : KeResumeThread(p, t, u)

Next ==
  \/ \E p \in Processors : Kernel(p) \/ Interrupt(p) \/ TimerInterrupt(p)
                           \/ KiRemoteExecuteHandler(p)
                           \/ \E done \in SUBSET Threads : NosIrqHandler(p, done)
  \/ \E p \in Processors, t \in Threads : Pending(p, t) \/ Call(p, t)
  \/ \E t \in Threads : KeTimerTick(t)

Spec == Init /\ [][Next]_vars

\* A processor with interrupts off goes on executing; its timer is re-armed at
\* every switch and fires; a pending IPI outranks every other vector and a
\* device line stays asserted, so both are taken although the timer interrupts
\* in between; a thread that is run again and again executes its next step; and
\* every operation of a device completes and is seen by a handler.
Fairness ==
  /\ \A p \in Processors :
       /\ WF_vars(Kernel(p)) /\ WF_vars(Interrupt(p)) /\ WF_vars(TimerInterrupt(p))
       /\ SF_vars(KiRemoteExecuteHandler(p))
  /\ \A t \in Threads : SF_vars(\E p \in Processors : Pending(p, t))
  /\ \A t \in Threads : WF_vars(KeTimerTick(t))
  /\ \A t \in Threads : SF_vars(\E p \in IrqProcessors, done \in SUBSET Threads :
                                t \in done /\ NosIrqHandler(p, done))

FairSpec == Spec /\ Fairness
-----------------------------------------------------------------------------
(* Properties.                                                              *)

\* The queues and the current thread of a processor are threads, the processor
\* is in one of its modes, and the requests posted to it are requests.
TypeOK ==
  /\ threadQueue \in [Processors -> Seq(Threads)]
  /\ sleepQueue \in [Processors -> Seq(Threads)]
  /\ currentThread \in [Processors -> Threads \cup {Idle}]
  /\ cpu \in [Processors -> Modes]
  /\ chosen \in [Processors -> Threads \cup {None}]
  /\ ready \in [Threads -> BOOLEAN]
  /\ suspended \in [Threads -> BOOLEAN]
  /\ staticPriority \in [Threads -> Nat]
  /\ dynamicPriority \in [Threads -> Nat]
  /\ life \in [Threads -> {"free", "live", "exited"}]
  /\ processor \in [Threads -> Processors]
  /\ lastCreateProcessorId \in Processors
  /\ pc \in [Threads -> {"Body", "Execute", "Post"}]
  /\ request \in [Threads -> Requests \cup {None}]
  /\ control \in [Processors -> BOOLEAN]
  /\ remoteExecute \in [Processors -> Requests \cup {None}]
  /\ expired \in [Threads -> BOOLEAN]
  /\ waiting \in [Threads -> BOOLEAN]
  /\ completed \in [Processors -> SUBSET Threads]

\* No processor ever fails one of the SC_BUG0 checks of the queue operations:
\* a thread is never linked twice nor unlinked from the wrong queue, although
\* one queue entry serves both queues and other processors post links.
NoScBug0 == \A p \in Processors : cpu[p] # "SC_BUG0"

Asked(t, routine) ==
  \/ \E u \in Threads : request[u] = [routine |-> routine, thread |-> t]
  \/ \E p \in Processors : remoteExecute[p] = [routine |-> routine, thread |-> t]

Suspending(t) == \E p \in Processors : cpu[p] = "Suspend" /\ currentThread[p] = t
Linking(t) == \E p \in Processors : cpu[p] = "Link" /\ chosen[p] = t

\* Where a thread is: exactly one of these names applies to a live thread.
Places(t) ==
  {w \in {"ready", "sleeping", "suspended", "suspending", "linking", "starting"} :
     CASE w = "ready"      -> t \in ToSet(threadQueue[processor[t]])
       [] w = "sleeping"   -> t \in ToSet(sleepQueue[processor[t]])
       [] w = "suspended"  -> suspended[t]
       [] w = "suspending" -> Suspending(t)
       [] w = "linking"    -> Linking(t)
       [] w = "starting"   -> Asked(t, "KiSetThreadInReadyQueue")}

\* No thread is lost and none is in two places at once, whatever the order of
\* preemptions, remote links and resumptions; one that exited is nowhere.
OnePlace ==
  \A t \in Threads : Cardinality(Places(t)) = IF life[t] = "live" THEN 1 ELSE 0

\* The READY bit is set for exactly the threads in the ready queue of their own
\* processor, each queued there once, and no queue holds a foreign thread.
QueueDiscipline ==
  /\ \A p \in Processors :
       /\ IsInjective(threadQueue[p]) /\ IsInjective(sleepQueue[p])
       /\ \A t \in ToSet(threadQueue[p]) \cup ToSet(sleepQueue[p]) : processor[t] = p
  /\ \A t \in Threads : ready[t] <=> t \in ToSet(threadQueue[processor[t]])

\* The queues of every processor behave as ThreadLists promises: whatever is
\* posted from elsewhere, a thread joins a queue at its bottom, never one while
\* it is in another of any processor, and the others keep their order.
Lists == INSTANCE ThreadLists WITH ready <- threadQueue, sleeping <- sleepQueue
QueuesImplementLists == Lists!Spec

\* A processor taking interrupts runs its idle thread or a ready thread of its
\* own: no thread keeps running after it was put to sleep, suspended or destroyed.
CurrentIsReady ==
  \A p \in Processors :
    cpu[p] = "Run" /\ currentThread[p] # Idle =>
      ready[currentThread[p]] /\ processor[currentThread[p]] = p

\* The ways a suspended thread may still be resumed.
Owed(t) ==
  {w \in {"event", "handler", "routine"} :
     CASE w = "event"   -> waiting[t]
       [] w = "handler" -> \E p \in Processors :
                             t \in completed[p] \/ (cpu[p] = "Resume" /\ chosen[p] = t)
       [] w = "routine" -> Asked(t, "KiThreadResumeRoutine")}

\* A thread that suspends is owed exactly one resumption until it is resumed:
\* no wake-up is lost between the two processors, none is delivered twice.
OneResumption ==
  \A t \in Threads :
    Cardinality(Owed(t)) = IF suspended[t] \/ Suspending(t) THEN 1 ELSE 0

\* Threads between the two halves of KeRemoteExecute on processor q.
Posting(q) ==
  {t \in Threads : pc[t] = "Post" /\ processor[request[t].thread] = q}

\* The execute bit has one owner, the thread filling the block or the IPI in
\* flight, so that no request overwrites another one.
ControlOwner ==
  \A q \in Processors :
    Cardinality(Posting(q)) + (IF remoteExecute[q] # None THEN 1 ELSE 0)
      = IF control[q] THEN 1 ELSE 0

\* Aging stays within the number of threads: no ready thread is passed over
\* often enough for its priority to exceed the highest static one by more.
AgingBound ==
  \A t \in Threads :
    dynamicPriority[t] <= MaxOf(StaticPriorities) + Cardinality(Threads)

\* No thread assigned to the processor of t sleeps.
AmongNonSleepers(t) ==
  \A u \in Uses["Sleep"] : life[u] = "live" => processor[u] # processor[t]

\* Aging works: on a processor whose threads do not sleep every ready thread is
\* run again, whatever the static priorities of the others.
EventuallyRuns ==
  \A t \in Threads :
    ready[t] /\ AmongNonSleepers(t) ~> \E p \in Processors : Running(p, t)

\* A suspended thread whose operation completes becomes ready, through an
\* interrupt on its own processor or on another one.
EventuallyResumed == \A t \in Threads : suspended[t] ~> ready[t]

\* A sleeper whose time has come becomes ready, although every call of Schedule
\* wakes one thread only.
EventuallyWoken == \A t \in Threads : expired[t] ~> ready[t]

\* The execute bit of a processor never stays set: "Processor will
\* automatically releasse the control bit when the routine is done".
ControlReleased == \A q \in Processors : control[q] ~> ~control[q]
=============================================================================
