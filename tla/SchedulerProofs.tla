--------------------------- MODULE SchedulerProofs ---------------------------
(* Proofs about Scheduler for any number of processors, threads, priorities   *)
(* and boot queues.                                                           *)
EXTENDS SchedulerInvariant, QueueLemmas, FiniteSetTheorems

\* The state the scheduler starts in is well typed.
LEMMA TypeInit == Init => TypeOK
<1> SUFFICES ASSUME Init PROVE TypeOK
  OBVIOUS
<1>1. PICK s \in StaticPriorities :
        staticPriority = [t \in Threads |-> IF t \in BootThreads THEN s ELSE 0]
  BY DEF Init
<1>2. s \in Nat /\ staticPriority \in [Threads -> Nat]
  BY <1>1, PrioritiesAssumption
<1>3. <<>> \in Seq(Threads)
  OBVIOUS
<1>4. QED BY <1>2, <1>3, BootQueueAssumption, ProcessorsAssumption DEF Init, TypeOK, Modes

\* What ScUnlinkReadyThread leaves of the queues is a queue.
LEMMA UnlinkType ==
  ASSUME TypeOK, NEW p \in Processors, NEW t \in Threads, ScUnlinkReadyThread(p, t)
  PROVE  /\ threadQueue' \in [Processors -> Seq(Threads)]
         /\ ready' \in [Threads -> BOOLEAN]
<1>1. PICK i \in DOMAIN threadQueue[p] :
        threadQueue' = [threadQueue EXCEPT ![p] = RemoveAt(@, i)]
  BY DEF ScUnlinkReadyThread
<1>2. RemoveAt(threadQueue[p], i) \in Seq(Threads)
  BY RemoveShifts DEF TypeOK
<1>3. QED BY <1>1, <1>2 DEF TypeOK, ScUnlinkReadyThread

\* So does linking, whether its check fails or not.
LEMMA LinkType ==
  ASSUME TypeOK, NEW p \in Processors, NEW t \in Threads, NEW m \in Modes,
         ScLinkReadyThreadBottom(p, t, m)
  PROVE  /\ threadQueue' \in [Processors -> Seq(Threads)]
         /\ sleepQueue' = sleepQueue
         /\ ready' \in [Threads -> BOOLEAN] /\ suspended' = suspended
         /\ cpu' = [cpu EXCEPT ![p] = m] \/ cpu' = [cpu EXCEPT ![p] = "SC_BUG0"]
<1>1. Append(threadQueue[processor[t]], t) \in Seq(Threads)
  BY DEF TypeOK
<1>2. "SC_BUG0" \in Modes
  BY DEF Modes
<1>3. CASE ready[t]
  BY <1>2, <1>3 DEF TypeOK, ScLinkReadyThreadBottom, ScBug0, Goto, queues, flags
<1>4. CASE ~ready[t]
  BY ZenonT(60), <1>1, <1>4 DEF TypeOK, ScLinkReadyThreadBottom, Goto
<1>5. QED BY <1>3, <1>4

\* A processor that leaves a handler or ends in SC_BUG0 keeps its mode typed,
\* and no mode that works on a chosen thread is left without one.
LEMMA LeaveType ==
  ASSUME TypeInv, NEW p \in Processors, NEW m \in Modes \ {"Link", "Resume"},
         cpu' = [cpu EXCEPT ![p] = m] \/ cpu' = [cpu EXCEPT ![p] = "SC_BUG0"],
         chosen' = chosen \/ chosen' = [chosen EXCEPT ![p] = None]
  PROVE  /\ cpu' \in [Processors -> Modes]
         /\ chosen' \in [Processors -> Threads \cup {None}]
         /\ \A q \in Processors : cpu'[q] \in {"Link", "Resume"} => chosen'[q] \in Threads
<1>1. PICK n \in Modes \ {"Link", "Resume"} : cpu' = [cpu EXCEPT ![p] = n]
  BY DEF Modes
<1>2. cpu' \in [Processors -> Modes]
  BY <1>1 DEF TypeInv, TypeOK
<1>3. chosen' \in [Processors -> Threads \cup {None}]
  <2>1. chosen \in [Processors -> Threads \cup {None}]
    BY DEF TypeInv, TypeOK
  <2>2. CASE chosen' = chosen
    BY <2>1, <2>2
  <2>3. CASE chosen' = [chosen EXCEPT ![p] = None]
    BY <2>1, <2>3
  <2>4. QED BY <2>2, <2>3
<1>4. ASSUME NEW q \in Processors, cpu'[q] \in {"Link", "Resume"}
      PROVE  chosen'[q] \in Threads
  <2>1. q # p /\ cpu'[q] = cpu[q]
    BY <1>1, <1>4 DEF TypeInv, TypeOK
  <2>2. chosen'[q] = chosen[q]
    BY <2>1 DEF TypeInv, TypeOK
  <2>3. QED BY <1>4, <2>1, <2>2 DEF TypeInv
<1>5. QED BY <1>2, <1>3, <1>4

\* So does the routine of a request, which may also reset the SUSPENDED bit.
LEMMA RoutineType ==
  ASSUME TypeOK, NEW p \in Processors, NEW r \in Requests, NEW m \in Modes, RunRoutine(p, r, m)
  PROVE  /\ threadQueue' \in [Processors -> Seq(Threads)]
         /\ sleepQueue' = sleepQueue
         /\ ready' \in [Threads -> BOOLEAN] /\ suspended' \in [Threads -> BOOLEAN]
         /\ cpu' = [cpu EXCEPT ![p] = m] \/ cpu' = [cpu EXCEPT ![p] = "SC_BUG0"]
<1>1. r.thread \in Threads /\ Append(threadQueue[processor[r.thread]], r.thread) \in Seq(Threads)
  BY DEF TypeOK, Requests
<1>2. "SC_BUG0" \in Modes
  BY DEF Modes
<1>3. CASE ready[r.thread]
  BY <1>2, <1>3 DEF TypeOK, RunRoutine, ScBug0, Goto, queues, flags
<1>4. CASE ~ready[r.thread]
  BY ZenonT(60), <1>1, <1>4 DEF TypeOK, RunRoutine, Goto
<1>5. QED BY <1>3, <1>4

\* Every step keeps the types, and the paths that work on a thread have one.
LEMMA TypeNext == TypeInv /\ [Next]_vars => TypeInv'
<1> SUFFICES ASSUME TypeInv, [Next]_vars PROVE TypeInv'
  OBVIOUS
<1> USE DEF Goto, Modes, queues, flags, priorities, births, calls, remote, wakeups
<1>1. ASSUME NEW p \in Processors, ScheduleSleeper(p) PROVE TypeInv'
  <2>1. PICK i \in DOMAIN sleepQueue[p] : WakeSleeper(p, i)
    BY <1>1 DEF ScheduleSleeper
  <2> DEFINE t == sleepQueue[p][i]
  <2>2. UNCHANGED <<chosen, staticPriority, births, calls, remote, wakeups>>
    BY <1>1 DEF ScheduleSleeper
  <2>3. CASE ready[t]
    <3>1. ScBug0(p) /\ UNCHANGED <<currentThread, dynamicPriority, expired>>
      BY <2>1, <2>3 DEF WakeSleeper
    <3>2. QED BY <2>2, <3>1 DEF TypeInv, TypeOK, ScBug0
  <2>4. CASE ~ready[t]
    <3>1. t \in Threads /\ RemoveAt(sleepQueue[p], i) \in Seq(Threads)
      BY RemoveShifts DEF TypeInv, TypeOK
    <3>2. Append(threadQueue[p], t) \in Seq(Threads)
      BY <3>1 DEF TypeInv, TypeOK
    <3> HIDE DEF t
    <3>3. /\ sleepQueue' = [sleepQueue EXCEPT ![p] = RemoveAt(@, i)]
          /\ threadQueue' = [threadQueue EXCEPT ![p] = Append(@, t)]
          /\ ready' = [ready EXCEPT ![t] = TRUE]
          /\ expired' = [expired EXCEPT ![t] = FALSE]
          /\ dynamicPriority' = [dynamicPriority EXCEPT ![t] = staticPriority[t]]
          /\ currentThread' = [currentThread EXCEPT ![p] = t]
          /\ cpu' = [cpu EXCEPT ![p] = "Run"]
          /\ UNCHANGED suspended
      BY <2>1, <2>4 DEF WakeSleeper, t
    <3>4. QED BY <2>2, <3>1, <3>2, <3>3 DEF TypeInv, TypeOK
  <2>5. QED BY <2>3, <2>4
<1>2. ASSUME NEW p \in Processors, ScheduleIdle(p) PROVE TypeInv'
  BY <1>2 DEF TypeInv, TypeOK, ScheduleIdle
<1>3. ASSUME NEW p \in Processors, ScheduleReady(p) PROVE TypeInv'
  <2>1. PICK t \in ToSet(threadQueue[p]) :
          ScUnlinkReadyThread(p, t) /\ chosen' = [chosen EXCEPT ![p] = t]
    BY <1>3 DEF ScheduleReady
  <2>2. t \in Threads
    BY DEF TypeInv, TypeOK, ToSet
  <2>3. /\ threadQueue' \in [Processors -> Seq(Threads)]
        /\ ready' \in [Threads -> BOOLEAN]
    BY <2>1, <2>2, UnlinkType DEF TypeInv
  <2>4. dynamicPriority' \in [Threads -> Nat]
    BY <1>3 DEF TypeInv, TypeOK, ScheduleReady, Aged
  <2>5. QED BY <1>3, <2>1, <2>2, <2>3, <2>4 DEF TypeInv, TypeOK, ScheduleReady
<1>4. ASSUME NEW p \in Processors, LinkChosen(p) PROVE TypeInv'
  <2> DEFINE t == chosen[p]
  <2>1. t \in Threads
    BY <1>4 DEF TypeInv, LinkChosen
  <2>2. ScLinkReadyThreadBottom(p, t, "Run")
    BY <1>4 DEF LinkChosen
  <2>3. /\ threadQueue' \in [Processors -> Seq(Threads)]
        /\ sleepQueue' = sleepQueue
        /\ ready' \in [Threads -> BOOLEAN] /\ suspended' = suspended
        /\ cpu' = [cpu EXCEPT ![p] = "Run"] \/ cpu' = [cpu EXCEPT ![p] = "SC_BUG0"]
    BY <2>1, <2>2, LinkType DEF TypeInv
  <2>4. /\ dynamicPriority' = [dynamicPriority EXCEPT ![t] = staticPriority[t]]
        /\ currentThread' = [currentThread EXCEPT ![p] = t]
        /\ chosen' = [chosen EXCEPT ![p] = None]
        /\ UNCHANGED <<staticPriority, births, calls, remote, expired, wakeups>>
    BY <1>4 DEF LinkChosen
  <2> HIDE DEF t
  <2>5. /\ dynamicPriority' \in [Threads -> Nat]
        /\ currentThread' \in [Processors -> Threads \cup {Idle}]
    BY <2>1, <2>4 DEF TypeInv, TypeOK
  <2>6. /\ cpu' \in [Processors -> Modes]
        /\ chosen' \in [Processors -> Threads \cup {None}]
        /\ \A q \in Processors : cpu'[q] \in {"Link", "Resume"} => chosen'[q] \in Threads
    <3>1. "Run" \in Modes \ {"Link", "Resume"}
      BY DEF Modes
    <3>2. chosen' = chosen \/ chosen' = [chosen EXCEPT ![p] = None]
      BY <2>4
    <3>3. QED BY <2>3, <3>1, <3>2, LeaveType
  <2>7. TypeOK'
    BY <2>3, <2>4, <2>5, <2>6 DEF TypeInv, TypeOK, births, calls, remote, wakeups
  <2>8. \A u \in Threads : pc'[u] # "Body" => request'[u] \in Requests
    BY <2>4 DEF TypeInv, calls
  <2>9. QED
    BY <2>6, <2>7, <2>8 DEF TypeInv
<1>5. ASSUME NEW p \in Processors, SetSuspended(p) PROVE TypeInv'
  BY <1>5 DEF TypeInv, TypeOK, SetSuspended
<1>6. ASSUME NEW p \in Processors, IrqExit(p) PROVE TypeInv'
  BY <1>6 DEF TypeInv, TypeOK, IrqExit
<1>7. ASSUME NEW p \in Processors, IrqResumeLocal(p) PROVE TypeInv'
  <2> DEFINE r == [routine |-> "KiThreadResumeRoutine", thread |-> chosen[p]]
  <2>1. r \in Requests
    BY <1>7 DEF TypeInv, IrqResumeLocal, Requests, Routines
  <2>2. RunRoutine(p, r, "Irq")
    BY <1>7 DEF IrqResumeLocal
  <2> HIDE DEF r
  <2>3. /\ threadQueue' \in [Processors -> Seq(Threads)]
        /\ sleepQueue' = sleepQueue
        /\ ready' \in [Threads -> BOOLEAN] /\ suspended' \in [Threads -> BOOLEAN]
        /\ cpu' = [cpu EXCEPT ![p] = "Irq"] \/ cpu' = [cpu EXCEPT ![p] = "SC_BUG0"]
    BY <2>1, <2>2, RoutineType DEF TypeInv
  <2>4. /\ chosen' = [chosen EXCEPT ![p] = None]
        /\ UNCHANGED <<currentThread, priorities, births, calls, remote, expired, wakeups>>
    BY <1>7 DEF IrqResumeLocal
  <2>5. /\ cpu' \in [Processors -> Modes]
        /\ chosen' \in [Processors -> Threads \cup {None}]
        /\ \A q \in Processors : cpu'[q] \in {"Link", "Resume"} => chosen'[q] \in Threads
    <3>1. "Irq" \in Modes \ {"Link", "Resume"}
      BY DEF Modes
    <3>2. chosen' = chosen \/ chosen' = [chosen EXCEPT ![p] = None]
      BY <2>4
    <3>3. QED BY <2>3, <3>1, <3>2, LeaveType
  <2>6. TypeOK'
    BY <2>3, <2>4, <2>5 DEF TypeInv, TypeOK, priorities, births, calls, remote, wakeups
  <2>7. \A u \in Threads : pc'[u] # "Body" => request'[u] \in Requests
    BY <2>4 DEF TypeInv, calls
  <2>8. QED BY <2>5, <2>6, <2>7 DEF TypeInv
<1>8. ASSUME NEW p \in Processors, IrqResumeRemote(p) PROVE TypeInv'
  <2>1. chosen[p] \in Threads /\ processor[chosen[p]] \in Processors
    BY <1>8 DEF TypeInv, TypeOK, IrqResumeRemote
  <2>2. [routine |-> "KiThreadResumeRoutine", thread |-> chosen[p]] \in Requests
    BY <2>1 DEF Requests, Routines
  <2>3. QED BY <1>8, <2>1, <2>2 DEF TypeInv, TypeOK, IrqResumeRemote
<1>9. ASSUME NEW p \in Processors, NEW t \in Threads, IrqComplete(p, t) PROVE TypeInv'
  BY <1>9 DEF TypeInv, TypeOK, IrqComplete
<1>10. ASSUME NEW p \in Processors, NEW done \in SUBSET Threads, NosIrqHandler(p, done)
       PROVE  TypeInv'
  BY <1>10 DEF TypeInv, TypeOK, NosIrqHandler
<1>11. ASSUME NEW p \in Processors, TimerInterrupt(p) PROVE TypeInv'
  BY <1>11 DEF TypeInv, TypeOK, TimerInterrupt
<1>12. ASSUME NEW p \in Processors, KiRemoteExecuteHandler(p) PROVE TypeInv'
  <2>1. remoteExecute[p] \in Requests
    BY <1>12 DEF TypeInv, TypeOK, KiRemoteExecuteHandler
  <2>2. RunRoutine(p, remoteExecute[p], "Schedule")
    BY <1>12 DEF KiRemoteExecuteHandler
  <2>3. /\ threadQueue' \in [Processors -> Seq(Threads)]
        /\ sleepQueue' = sleepQueue
        /\ ready' \in [Threads -> BOOLEAN] /\ suspended' \in [Threads -> BOOLEAN]
        /\ \/ cpu' = [cpu EXCEPT ![p] = "Schedule"]
           \/ cpu' = [cpu EXCEPT ![p] = "SC_BUG0"]
    BY <2>1, <2>2, RoutineType DEF TypeInv
  <2>4. /\ control' = [control EXCEPT ![p] = FALSE]
        /\ remoteExecute' = [remoteExecute EXCEPT ![p] = None]
        /\ UNCHANGED <<currentThread, chosen, priorities, births, calls, expired, wakeups>>
    BY <1>12 DEF KiRemoteExecuteHandler
  <2>5. /\ cpu' \in [Processors -> Modes]
        /\ chosen' \in [Processors -> Threads \cup {None}]
        /\ \A q \in Processors : cpu'[q] \in {"Link", "Resume"} => chosen'[q] \in Threads
    <3>1. "Schedule" \in Modes \ {"Link", "Resume"}
      BY DEF Modes
    <3>2. chosen' = chosen \/ chosen' = [chosen EXCEPT ![p] = None]
      BY <2>4
    <3>3. QED BY <2>3, <3>1, <3>2, LeaveType
  <2>6. TypeOK'
    BY <2>3, <2>4, <2>5 DEF TypeInv, TypeOK, priorities, births, calls, wakeups
  <2>7. \A u \in Threads : pc'[u] # "Body" => request'[u] \in Requests
    BY <2>4 DEF TypeInv, calls
  <2>8. QED BY <2>5, <2>6, <2>7 DEF TypeInv
<1>13. ASSUME NEW p \in Processors, NEW t \in Threads, ExecuteLocally(p, t) PROVE TypeInv'
  <2>1. request[t] \in Requests
    BY <1>13 DEF TypeInv, ExecuteLocally
  <2>2. RunRoutine(p, request[t], "Run")
    BY <1>13 DEF ExecuteLocally
  <2>3. /\ threadQueue' \in [Processors -> Seq(Threads)]
        /\ sleepQueue' = sleepQueue
        /\ ready' \in [Threads -> BOOLEAN] /\ suspended' \in [Threads -> BOOLEAN]
        /\ cpu' = [cpu EXCEPT ![p] = "Run"] \/ cpu' = [cpu EXCEPT ![p] = "SC_BUG0"]
    BY <2>1, <2>2, RoutineType DEF TypeInv
  <2>4. /\ pc' = [pc EXCEPT ![t] = "Body"]
        /\ request' = [request EXCEPT ![t] = None]
        /\ UNCHANGED <<currentThread, chosen, priorities, births, remote, expired, wakeups>>
    BY <1>13 DEF ExecuteLocally
  <2>5. /\ cpu' \in [Processors -> Modes]
        /\ chosen' \in [Processors -> Threads \cup {None}]
        /\ \A q \in Processors : cpu'[q] \in {"Link", "Resume"} => chosen'[q] \in Threads
    <3>1. "Run" \in Modes \ {"Link", "Resume"}
      BY DEF Modes
    <3>2. chosen' = chosen \/ chosen' = [chosen EXCEPT ![p] = None]
      BY <2>4
    <3>3. QED BY <2>3, <3>1, <3>2, LeaveType
  <2>6. TypeOK'
    BY <2>3, <2>4, <2>5 DEF TypeInv, TypeOK, priorities, births, remote, wakeups
  <2>7. \A u \in Threads : pc'[u] # "Body" => request'[u] \in Requests
    BY <2>4 DEF TypeInv, TypeOK
  <2>8. QED BY <2>5, <2>6, <2>7 DEF TypeInv
<1>14. ASSUME NEW p \in Processors, NEW t \in Threads, AcquireProcessorControl(p, t)
       PROVE  TypeInv'
  BY <1>14 DEF TypeInv, TypeOK, AcquireProcessorControl
<1>15. ASSUME NEW p \in Processors, NEW t \in Threads, KeRemoteExecute(p, t) PROVE TypeInv'
  BY <1>15 DEF TypeInv, TypeOK, KeRemoteExecute
<1>16. ASSUME NEW p \in Processors, NEW t \in Threads, ScUnlinkReadyThread(p, t),
              \/ Sleep(p, t) \/ KeSuspendThread(p, t) \/ KeExitThread(p, t)
       PROVE  TypeInv'
  <2>1. /\ threadQueue' \in [Processors -> Seq(Threads)]
        /\ ready' \in [Threads -> BOOLEAN]
    BY <1>16, UnlinkType DEF TypeInv
  <2>2. CASE Sleep(p, t)
    <3>1. Append(sleepQueue[p], t) \in Seq(Threads)
      BY DEF TypeInv, TypeOK
    <3>2. QED BY <2>1, <2>2, <3>1 DEF TypeInv, TypeOK, Sleep
  <2>3. CASE KeSuspendThread(p, t)
    BY <2>1, <2>3 DEF TypeInv, TypeOK, KeSuspendThread
  <2>4. CASE KeExitThread(p, t)
    <3>1. \/ cpu' = [cpu EXCEPT ![p] = "Halt"] \/ cpu' = [cpu EXCEPT ![p] = "Schedule"]
      BY <2>4 DEF KeExitThread
    <3>2. QED BY <2>1, <2>4, <3>1 DEF TypeInv, TypeOK, KeExitThread
  <2>5. QED BY <1>16, <2>2, <2>3, <2>4
<1>17. ASSUME NEW t \in Threads, KeTimerTick(t) PROVE TypeInv'
  BY <1>17 DEF TypeInv, TypeOK, KeTimerTick
<1>18. ASSUME NEW t \in Threads, NEW u \in Threads, NEW s \in StaticPriorities,
              KeSetStaticPriority(t, u, s)
       PROVE  /\ staticPriority' \in [Threads -> Nat] /\ dynamicPriority' \in [Threads -> Nat]
              /\ \/ UNCHANGED calls
                 \/ Execute(t, "KiSetThreadInReadyQueue", u)
  BY <1>18, PrioritiesAssumption DEF TypeInv, TypeOK, KeSetStaticPriority
<1>19. ASSUME NEW t \in Threads, NEW u \in Threads, NEW routine \in Routines,
              Execute(t, routine, u)
       PROVE  /\ pc' \in [Threads -> {"Body", "Execute", "Post"}]
              /\ request' \in [Threads -> Requests \cup {None}]
              /\ \A v \in Threads : pc'[v] # "Body" => request'[v] \in Requests
  <2>1. [routine |-> routine, thread |-> u] \in Requests
    BY DEF Requests
  <2>2. QED BY <1>19, <2>1 DEF TypeInv, TypeOK, Execute
<1>20. ASSUME NEW t \in Threads, NEW u \in Threads, NEW s \in StaticPriorities,
              KeSetStaticPriority(t, u, s)
       PROVE  /\ staticPriority' \in [Threads -> Nat] /\ dynamicPriority' \in [Threads -> Nat]
              /\ pc' \in [Threads -> {"Body", "Execute", "Post"}]
              /\ request' \in [Threads -> Requests \cup {None}]
              /\ \A v \in Threads : pc'[v] # "Body" => request'[v] \in Requests
  <2>1. CASE UNCHANGED calls
    BY <1>18, <1>20, <2>1 DEF TypeInv, TypeOK
  <2>2. CASE Execute(t, "KiSetThreadInReadyQueue", u)
    BY <1>18, <1>19, <1>20, <2>2 DEF Routines
  <2>3. QED BY <1>18, <1>20, <2>1, <2>2
<1>21. ASSUME NEW p \in Processors, NEW t \in Threads, NEW u \in Threads,
              NEW s \in StaticPriorities, KeCreateThread(p, t, u, s)
       PROVE  TypeInv'
  <2>1. NextTurn \in Processors
    BY ProcessorsAssumption DEF TypeInv, TypeOK, NextTurn, Processors
  <2>2. KeSetStaticPriority(t, u, s)
    BY <1>21 DEF KeCreateThread
  <2>3. QED BY <1>20, <1>21, <2>1, <2>2 DEF TypeInv, TypeOK, KeCreateThread
<1>22. ASSUME NEW p \in Processors, NEW t \in Threads, NEW s \in StaticPriorities,
              KeSetOwnPriority(p, t, s)
       PROVE  TypeInv'
  BY <1>20, <1>22 DEF TypeInv, TypeOK, KeSetOwnPriority
<1>23. ASSUME NEW p \in Processors, NEW t \in Threads, NEW u \in Threads,
              NEW s \in StaticPriorities, KeSetPriority(p, t, u, s)
       PROVE  TypeInv'
  BY <1>20, <1>23 DEF TypeInv, TypeOK, KeSetPriority
<1>24. ASSUME NEW p \in Processors, NEW t \in Threads, NEW u \in Threads,
              KeResumeThread(p, t, u)
       PROVE  TypeInv'
  <2>1. Execute(t, "KiThreadResumeRoutine", u)
    BY <1>24 DEF KeResumeThread
  <2>2. QED BY <1>19, <1>24, <2>1 DEF TypeInv, TypeOK, KeResumeThread, Routines
<1>25. CASE UNCHANGED vars
  BY <1>25 DEF TypeInv, TypeOK, vars
<1>26. ASSUME NEW p \in Processors, NEW t \in Threads,
              Sleep(p, t) \/ KeSuspendThread(p, t) \/ KeExitThread(p, t)
       PROVE  ScUnlinkReadyThread(p, t)
  BY <1>26 DEF Sleep, KeSuspendThread, KeExitThread
<1>27. QED
  BY <1>1, <1>2, <1>3, <1>4, <1>5, <1>6, <1>7, <1>8, <1>9, <1>10, <1>11, <1>12, <1>13,
     <1>14, <1>15, <1>16, <1>17, <1>21, <1>22, <1>23, <1>24, <1>25, <1>26
  DEF Next, Kernel, Scheduling, Interrupt, Pending, Call

\* Type correctness holds whatever the threads do.
THEOREM TypeCorrect == Spec => []TypeOK
<1>1. Init => TypeInv
  BY TypeInit DEF TypeInv, Init
<1>2. TypeInv => TypeOK
  BY DEF TypeInv
<1>3. QED BY <1>1, <1>2, TypeNext, PTL DEF Spec

\* Unlinking t removes it from its queue and leaves all the others as they are.
LEMMA UnlinkEffect ==
  ASSUME TypeOK, QueueDiscipline, NEW p \in Processors, NEW t \in Threads,
         ScUnlinkReadyThread(p, t)
  PROVE  /\ processor[t] = p /\ ready[t] /\ ready' = [ready EXCEPT ![t] = FALSE]
         /\ \A q \in Processors :
              /\ IsInjective(threadQueue'[q]) /\ ToSet(threadQueue'[q]) \subseteq Threads
              /\ \A u \in Threads :
                   u \in ToSet(threadQueue'[q]) <=> u \in ToSet(threadQueue[q]) /\ u # t
<1>1. PICK i \in DOMAIN threadQueue[p] :
        threadQueue[p][i] = t /\ threadQueue' = [threadQueue EXCEPT ![p] = RemoveAt(@, i)]
  BY DEF ScUnlinkReadyThread
<1>2. t \in ToSet(threadQueue[p])
  BY <1>1 DEF ToSet
<1>3. processor[t] = p /\ ready[t]
  BY <1>2 DEF QueueDiscipline
<1>4. /\ threadQueue \in [Processors -> Seq(Threads)]
      /\ \A q \in Processors : IsInjective(threadQueue[q])
      /\ \A q \in Processors \ {p} : threadQueue[p][i] \notin ToSet(threadQueue[q])
  BY <1>1, <1>3 DEF TypeOK, QueueDiscipline
<1>5. \A q \in Processors :
        /\ IsInjective(threadQueue'[q]) /\ ToSet(threadQueue'[q]) \subseteq Threads
        /\ \A u \in Threads :
             u \in ToSet(threadQueue'[q]) <=> u \in ToSet(threadQueue[q]) /\ u # threadQueue[p][i]
  <2>1. Unlinked(Processors, Threads, threadQueue, threadQueue', p, i)
    BY <1>1, <1>4 DEF Unlinked, Family
  <2>2. QED BY <2>1, RemoveFromFamily
<1>6. QED BY <1>1, <1>3, <1>5 DEF ScUnlinkReadyThread

\* Linking t, which is not READY, adds it to the queue of its processor.
LEMMA LinkEffect ==
  ASSUME TypeOK, QueueDiscipline, NEW t \in Threads, ~ready[t]
  PROVE  threadQueue' = [threadQueue EXCEPT ![processor[t]] = Append(@, t)] =>
           \A q \in Processors :
             /\ IsInjective(threadQueue'[q]) /\ ToSet(threadQueue'[q]) \subseteq Threads
             /\ \A u \in Threads :
                  u \in ToSet(threadQueue'[q])
                    <=> u \in ToSet(threadQueue[q]) \/ (u = t /\ q = processor[t])
<1>1. HAVE threadQueue' = [threadQueue EXCEPT ![processor[t]] = Append(@, t)]
<1>2. /\ threadQueue \in [Processors -> Seq(Threads)] /\ processor[t] \in Processors
      /\ \A q \in Processors : IsInjective(threadQueue[q])
      /\ t \notin ToSet(threadQueue[processor[t]])
  BY DEF TypeOK, QueueDiscipline
<1>3. Linked(Processors, Threads, threadQueue, threadQueue', processor[t], t)
  BY <1>1, <1>2 DEF Linked, Family
<1>4. QED BY <1>3, AppendToFamily

\* While threads behave like drivers, no step breaks the invariant.
LEMMA SafeNext == DriverWorkload /\ IInv /\ TypeInv' /\ [Next]_vars => IInv'
<1> SUFFICES ASSUME DriverWorkload, IInv, TypeInv', [Next]_vars PROVE IInv'
  OBVIOUS
<1> USE DEF Goto, queues, flags, priorities, births, calls, remote, wakeups
<1>0. /\ \A u \in Threads : pc[u] # "Body" =>
           request[u].thread \in Threads /\ request[u].routine \in Routines
      /\ \A p \in Processors : remoteExecute[p] # None =>
           remoteExecute[p].thread \in Threads /\ remoteExecute[p].routine \in Routines
  BY DEF IInv, TypeInv, TypeOK, Requests
<1>b. /\ cpu \in [Processors -> Modes] /\ chosen \in [Processors -> Threads \cup {None}]
      /\ currentThread \in [Processors -> Threads \cup {Idle}]
      /\ ready \in [Threads -> BOOLEAN] /\ suspended \in [Threads -> BOOLEAN]
      /\ life \in [Threads -> {"free", "live", "exited"}]
      /\ processor \in [Threads -> Processors] /\ processor' \in [Threads -> Processors]
      /\ waiting \in [Threads -> BOOLEAN] /\ completed \in [Processors -> SUBSET Threads]
      /\ pc \in [Threads -> {"Body", "Execute", "Post"}]
      /\ remoteExecute \in [Processors -> Requests \cup {None}]
      /\ \A q \in Processors : cpu[q] \in {"Link", "Resume"} => chosen[q] \in Threads
      /\ \A q \in Processors : cpu'[q] \in {"Link", "Resume"} => chosen'[q] \in Threads
  BY DEF IInv, TypeInv, TypeOK
<1>1. ASSUME NEW p \in Processors, TimerInterrupt(p)
      PROVE  IInv'
  <2>1. \A u \in Threads : Unplaced(u) => Unplaced(u)'
    BY <1>1, <1>b DEF IInv, Unplaced, Loose, Asleep, Parked, Relinked, PointsAreHome, TimerInterrupt
  <2>2. \A u \in Threads : Posted(u)' => Posted(u)
    BY <1>1, <1>b DEF IInv, Posted, TimerInterrupt
  <2>3. \A u \in Threads : (suspended[u] \/ Parked(u)) => (suspended[u] \/ Parked(u))'
    BY <1>1, <1>b DEF IInv, Parked, PointsAreHome, Loose, TimerInterrupt
  <2>4. NoScBug0'
    BY <1>1, <1>b DEF IInv, NoScBug0, TimerInterrupt
  <2>5. QueueDiscipline'
    BY <1>1, <1>b DEF IInv, QueueDiscipline, TimerInterrupt
  <2>6. CurrentIsReady'
    BY <1>1, <1>b DEF IInv, CurrentIsReady, TimerInterrupt
  <2>7. PointsAreHome'
    BY <1>1, <1>b DEF IInv, PointsAreHome, Loose, Asleep, TimerInterrupt
  <2>8. FlagsExclude'
    BY <1>1, <1>b DEF IInv, FlagsExclude, Asleep, TimerInterrupt
  <2>9. RequestsAreStarts'
    BY <1>1, <1>b, <1>0, <2>1 DEF IInv, RequestsAreStarts, TimerInterrupt
  <2>10. PostsAreDue'
    BY <1>1, <1>b, <1>0, <2>1 DEF IInv, PostsAreDue, TimerInterrupt
  <2>11. StartsOnce'
    BY <1>1, <1>b, <1>0, <2>2 DEF IInv, StartsOnce, TimerInterrupt
  <2>12. OwedAreSuspended'
    BY <1>1, <1>b, <2>3 DEF IInv, OwedAreSuspended, TimerInterrupt
  <2>13. OwedOnce'
    BY <1>1, <1>b, <2>2 DEF IInv, OwedOnce, TimerInterrupt
  <2>14. QED BY <2>4, <2>5, <2>6, <2>7, <2>8, <2>9, <2>10, <2>11, <2>12, <2>13 DEF IInv
<1>2. ASSUME NEW p \in Processors, ScheduleIdle(p)
      PROVE  IInv'
  <2>1. \A u \in Threads : Unplaced(u) => Unplaced(u)'
    BY <1>2, <1>b DEF IInv, Unplaced, Loose, Asleep, Parked, Relinked, PointsAreHome, ScheduleIdle
  <2>2. \A u \in Threads : Posted(u)' => Posted(u)
    BY <1>2, <1>b DEF IInv, Posted, ScheduleIdle
  <2>3. \A u \in Threads : (suspended[u] \/ Parked(u)) => (suspended[u] \/ Parked(u))'
    BY <1>2, <1>b DEF IInv, Parked, PointsAreHome, Loose, ScheduleIdle
  <2>4. NoScBug0'
    BY <1>2, <1>b DEF IInv, NoScBug0, ScheduleIdle
  <2>5. QueueDiscipline'
    BY <1>2, <1>b DEF IInv, QueueDiscipline, ScheduleIdle
  <2>6. CurrentIsReady'
    BY <1>2, <1>b DEF IInv, CurrentIsReady, ScheduleIdle
  <2>7. PointsAreHome'
    BY <1>2, <1>b DEF IInv, PointsAreHome, Loose, Asleep, ScheduleIdle
  <2>8. FlagsExclude'
    BY <1>2, <1>b DEF IInv, FlagsExclude, Asleep, ScheduleIdle
  <2>9. RequestsAreStarts'
    BY <1>2, <1>b, <1>0, <2>1 DEF IInv, RequestsAreStarts, ScheduleIdle
  <2>10. PostsAreDue'
    BY <1>2, <1>b, <1>0, <2>1 DEF IInv, PostsAreDue, ScheduleIdle
  <2>11. StartsOnce'
    BY <1>2, <1>b, <1>0, <2>2 DEF IInv, StartsOnce, ScheduleIdle
  <2>12. OwedAreSuspended'
    BY <1>2, <1>b, <2>3 DEF IInv, OwedAreSuspended, ScheduleIdle
  <2>13. OwedOnce'
    BY <1>2, <1>b, <2>2 DEF IInv, OwedOnce, ScheduleIdle
  <2>14. QED BY <2>4, <2>5, <2>6, <2>7, <2>8, <2>9, <2>10, <2>11, <2>12, <2>13 DEF IInv
<1>3. ASSUME NEW p \in Processors, IrqExit(p)
      PROVE  IInv'
  <2>1. \A u \in Threads : Unplaced(u) => Unplaced(u)'
    BY <1>3, <1>b DEF IInv, Unplaced, Loose, Asleep, Parked, Relinked, PointsAreHome, IrqExit
  <2>2. \A u \in Threads : Posted(u)' => Posted(u)
    BY <1>3, <1>b DEF IInv, Posted, IrqExit
  <2>3. \A u \in Threads : (suspended[u] \/ Parked(u)) => (suspended[u] \/ Parked(u))'
    BY <1>3, <1>b DEF IInv, Parked, PointsAreHome, Loose, IrqExit
  <2>4. NoScBug0'
    BY <1>3, <1>b DEF IInv, NoScBug0, IrqExit
  <2>5. QueueDiscipline'
    BY <1>3, <1>b DEF IInv, QueueDiscipline, IrqExit
  <2>6. CurrentIsReady'
    BY <1>3, <1>b DEF IInv, CurrentIsReady, IrqExit
  <2>7. PointsAreHome'
    BY <1>3, <1>b DEF IInv, PointsAreHome, Loose, Asleep, IrqExit
  <2>8. FlagsExclude'
    BY <1>3, <1>b DEF IInv, FlagsExclude, Asleep, IrqExit
  <2>9. RequestsAreStarts'
    BY <1>3, <1>b, <1>0, <2>1 DEF IInv, RequestsAreStarts, IrqExit
  <2>10. PostsAreDue'
    BY <1>3, <1>b, <1>0, <2>1 DEF IInv, PostsAreDue, IrqExit
  <2>11. StartsOnce'
    BY <1>3, <1>b, <1>0, <2>2 DEF IInv, StartsOnce, IrqExit
  <2>12. OwedAreSuspended'
    BY <1>3, <1>b, <2>3 DEF IInv, OwedAreSuspended, IrqExit
  <2>13. OwedOnce'
    BY <1>3, <1>b, <2>2 DEF IInv, OwedOnce, IrqExit
  <2>14. QED BY <2>4, <2>5, <2>6, <2>7, <2>8, <2>9, <2>10, <2>11, <2>12, <2>13 DEF IInv
<1>4. ASSUME NEW p \in Processors, NEW t \in Threads, IrqComplete(p, t)
      PROVE  IInv'
  <2>1. \A u \in Threads : Unplaced(u) => Unplaced(u)'
    BY <1>4, <1>b DEF IInv, Unplaced, Loose, Asleep, Parked, Relinked, PointsAreHome, IrqComplete
  <2>2. \A u \in Threads : Posted(u)' => Posted(u)
    BY <1>4, <1>b DEF IInv, Posted, IrqComplete
  <2>3. \A u \in Threads : (suspended[u] \/ Parked(u)) => (suspended[u] \/ Parked(u))'
    BY <1>4, <1>b DEF IInv, Parked, PointsAreHome, Loose, IrqComplete
  <2>4. NoScBug0'
    BY <1>4, <1>b DEF IInv, NoScBug0, IrqComplete
  <2>5. QueueDiscipline'
    BY <1>4, <1>b DEF IInv, QueueDiscipline, IrqComplete
  <2>6. CurrentIsReady'
    BY <1>4, <1>b DEF IInv, CurrentIsReady, IrqComplete
  <2>7. PointsAreHome'
    BY <1>4, <1>b DEF IInv, PointsAreHome, Loose, Asleep, IrqComplete
  <2>8. FlagsExclude'
    BY <1>4, <1>b DEF IInv, FlagsExclude, Asleep, IrqComplete
  <2>9. RequestsAreStarts'
    BY <1>4, <1>b, <1>0, <2>1 DEF IInv, RequestsAreStarts, IrqComplete
  <2>10. PostsAreDue'
    BY <1>4, <1>b, <1>0, <2>1 DEF IInv, PostsAreDue, IrqComplete
  <2>11. StartsOnce'
    BY <1>4, <1>b, <1>0, <2>2 DEF IInv, StartsOnce, IrqComplete
  <2>12. OwedAreSuspended'
    BY <1>4, <1>b, <2>3 DEF IInv, OwedAreSuspended, IrqComplete
  <2>13. OwedOnce'
    BY <1>4, <1>b, <2>2 DEF IInv, OwedOnce, IrqComplete
  <2>14. QED BY <2>4, <2>5, <2>6, <2>7, <2>8, <2>9, <2>10, <2>11, <2>12, <2>13 DEF IInv
<1>5. ASSUME NEW p \in Processors, NEW done \in SUBSET Threads, NosIrqHandler(p, done)
      PROVE  IInv'
  <2>1. \A u \in Threads : Unplaced(u) => Unplaced(u)'
    BY <1>5, <1>b DEF IInv, Unplaced, Loose, Asleep, Parked, Relinked, PointsAreHome, NosIrqHandler
  <2>2. \A u \in Threads : Posted(u)' => Posted(u)
    BY <1>5, <1>b DEF IInv, Posted, NosIrqHandler
  <2>3. \A u \in Threads : (suspended[u] \/ Parked(u)) => (suspended[u] \/ Parked(u))'
    BY <1>5, <1>b DEF IInv, Parked, PointsAreHome, Loose, NosIrqHandler
  <2>4. NoScBug0'
    BY <1>5, <1>b DEF IInv, NoScBug0, NosIrqHandler
  <2>5. QueueDiscipline'
    BY <1>5, <1>b DEF IInv, QueueDiscipline, NosIrqHandler
  <2>6. CurrentIsReady'
    BY <1>5, <1>b DEF IInv, CurrentIsReady, NosIrqHandler
  <2>7. PointsAreHome'
    BY <1>5, <1>b DEF IInv, PointsAreHome, Loose, Asleep, NosIrqHandler
  <2>8. FlagsExclude'
    BY <1>5, <1>b DEF IInv, FlagsExclude, Asleep, NosIrqHandler
  <2>9. RequestsAreStarts'
    BY <1>5, <1>b, <1>0, <2>1 DEF IInv, RequestsAreStarts, NosIrqHandler
  <2>10. PostsAreDue'
    BY <1>5, <1>b, <1>0, <2>1 DEF IInv, PostsAreDue, NosIrqHandler
  <2>11. StartsOnce'
    BY <1>5, <1>b, <1>0, <2>2 DEF IInv, StartsOnce, NosIrqHandler
  <2>12. OwedAreSuspended'
    BY <1>5, <1>b, <2>3 DEF IInv, OwedAreSuspended, NosIrqHandler
  <2>13. OwedOnce'
    <3>0. completed \in [Processors -> SUBSET Threads] /\ done \in SUBSET Threads
      BY DEF IInv, TypeInv, TypeOK
    <3>1. /\ \A u \in Threads : waiting'[u] <=> waiting[u] /\ u \notin done
          /\ \A u \in done : waiting[u]
          /\ \A q \in Processors : completed'[q] = IF q = p THEN done ELSE completed[q]
      <4>1. \A u \in done : waiting[u]
        BY <1>5 DEF NosIrqHandler
      <4>2. \A u \in Threads : waiting'[u] <=> waiting[u] /\ u \notin done
        BY <1>5 DEF NosIrqHandler
      <4>3. \A q \in Processors : completed'[q] = IF q = p THEN done ELSE completed[q]
        BY <1>5, <3>0 DEF NosIrqHandler
      <4>4. QED BY <4>1, <4>2, <4>3
    <3>2. /\ \A q \in Processors : cpu'[q] = "Resume" <=> cpu[q] = "Resume"
          /\ chosen' = chosen
      BY <1>5 DEF IInv, TypeInv, TypeOK, NosIrqHandler
    <3>3. QED BY <3>1, <3>2, <2>2 DEF IInv, OwedOnce
  <2>14. QED BY <2>4, <2>5, <2>6, <2>7, <2>8, <2>9, <2>10, <2>11, <2>12, <2>13 DEF IInv
<1>6. ASSUME NEW p \in Processors, NEW t \in Threads, AcquireProcessorControl(p, t)
      PROVE  IInv'
  <2>1. /\ pc[t] = "Execute" /\ pc' = [pc EXCEPT ![t] = "Post"]
        /\ UNCHANGED <<queues, currentThread, cpu, chosen, flags, priorities, births,
                       request, remoteExecute, expired, wakeups>>
    BY <1>6 DEF AcquireProcessorControl
  <2>2. \A u \in Threads : Unplaced(u) => Unplaced(u)'
    BY <2>1, <1>b DEF IInv, Unplaced, Loose, Asleep, Parked, Relinked, PointsAreHome
  <2>3. \A u \in Threads : Posted(u)' => Posted(u)
    BY <2>1, <1>b DEF IInv, Posted
  <2>4. \A u \in Threads : (suspended[u] \/ Parked(u)) => (suspended[u] \/ Parked(u))'
    BY <2>1, <1>b DEF IInv, Parked, PointsAreHome, Loose
  <2>5. NoScBug0'
    BY <2>1, <1>b DEF IInv, NoScBug0
  <2>6. QueueDiscipline'
    BY <2>1, <1>b DEF IInv, QueueDiscipline
  <2>7. CurrentIsReady'
    BY <2>1, <1>b DEF IInv, CurrentIsReady
  <2>8. PointsAreHome'
    BY <2>1, <1>b DEF IInv, PointsAreHome, Loose, Asleep
  <2>9. FlagsExclude'
    BY <2>1, <1>b DEF IInv, FlagsExclude, Asleep
  <2>10. RequestsAreStarts'
    BY <2>1, <1>b, <1>0, <2>2 DEF IInv, RequestsAreStarts
  <2>11. PostsAreDue'
    BY <2>1, <1>b, <1>0, <2>2 DEF IInv, PostsAreDue
  <2>12. StartsOnce'
    BY <2>1, <1>b, <1>0, <2>3 DEF IInv, StartsOnce
  <2>13. OwedAreSuspended'
    BY <2>1, <1>b, <2>4 DEF IInv, OwedAreSuspended
  <2>14. OwedOnce'
    BY <2>1, <1>b, <2>3 DEF IInv, OwedOnce
  <2>15. QED BY <2>5, <2>6, <2>7, <2>8, <2>9, <2>10, <2>11, <2>12, <2>13, <2>14 DEF IInv
<1>7. ASSUME NEW p \in Processors, NEW t \in Threads, KeRemoteExecute(p, t)
      PROVE  IInv'
  <2>1. /\ pc[t] = "Post" /\ request[t].thread \in Threads
        /\ \A u \in Threads : pc'[u] # "Body" =>
             u # t /\ pc[u] # "Body" /\ request'[u] = request[u]
        /\ \A q \in Processors :
             remoteExecute'[q] = IF q = processor[request[t].thread] THEN request[t]
                                 ELSE remoteExecute[q]
        /\ UNCHANGED <<queues, currentThread, cpu, chosen, flags, births, wakeups>>
    BY SMTT(30), <1>7, <1>0 DEF IInv, TypeInv, TypeOK, KeRemoteExecute
  <2>2. \A u \in Threads : Unplaced(u) => Unplaced(u)'
    BY <2>1, <1>b DEF IInv, Unplaced, Loose, Asleep, Parked, Relinked, PointsAreHome
  <2>3. \A u \in Threads : Posted(u)' => Posted(u) \/ u = request[t].thread
    BY <2>1, <1>b DEF IInv, Posted
  <2>4. \A u \in Threads : (suspended[u] \/ Parked(u)) => (suspended[u] \/ Parked(u))'
    BY <2>1, <1>b DEF IInv, Parked, PointsAreHome, Loose
  <2>5. NoScBug0'
    BY <2>1, <1>b DEF IInv, NoScBug0
  <2>6. QueueDiscipline'
    BY <2>1, <1>b DEF IInv, QueueDiscipline
  <2>7. CurrentIsReady'
    BY <2>1, <1>b DEF IInv, CurrentIsReady
  <2>8. PointsAreHome'
    BY <2>1, <1>b DEF IInv, PointsAreHome, Loose, Asleep
  <2>9. FlagsExclude'
    BY <2>1, <1>b DEF IInv, FlagsExclude, Asleep
  <2>10. RequestsAreStarts'
    BY <2>1, <1>b, <1>0, <2>2 DEF IInv, RequestsAreStarts
  <2>11. PostsAreDue'
    BY <2>1, <1>b, <1>0, <2>2 DEF IInv, PostsAreDue, RequestsAreStarts
  <2>12. StartsOnce'
    BY <2>1, <1>b, <1>0, <2>3 DEF IInv, StartsOnce
  <2>13. OwedAreSuspended'
    BY <2>1, <1>b, <2>4 DEF IInv, OwedAreSuspended
  <2>14. OwedOnce'
    BY SMTT(30), <2>1, <1>b, <2>3 DEF IInv, OwedOnce, RequestsAreStarts, OwedAreSuspended, Unplaced, Loose
  <2>15. QED BY <2>5, <2>6, <2>7, <2>8, <2>9, <2>10, <2>11, <2>12, <2>13, <2>14 DEF IInv
<1>8. ASSUME NEW p \in Processors, IrqResumeRemote(p)
      PROVE  IInv'
  <2>1. \A u \in Threads : Unplaced(u) => Unplaced(u)'
    BY <1>8, <1>b DEF IInv, Unplaced, Loose, Asleep, Parked, Relinked, PointsAreHome, IrqResumeRemote
  <2>2. \A u \in Threads : Posted(u)' => Posted(u) \/ u = chosen[p]
    BY <1>8, <1>b DEF IInv, Posted, IrqResumeRemote
  <2>3. \A u \in Threads : (suspended[u] \/ Parked(u)) => (suspended[u] \/ Parked(u))'
    BY <1>8, <1>b DEF IInv, Parked, PointsAreHome, Loose, IrqResumeRemote
  <2>4. NoScBug0'
    BY <1>8, <1>b DEF IInv, NoScBug0, IrqResumeRemote
  <2>5. QueueDiscipline'
    BY <1>8, <1>b DEF IInv, QueueDiscipline, IrqResumeRemote
  <2>6. CurrentIsReady'
    BY <1>8, <1>b DEF IInv, CurrentIsReady, IrqResumeRemote
  <2>7. PointsAreHome'
    BY <1>8, <1>b DEF IInv, PointsAreHome, Loose, Asleep, IrqResumeRemote
  <2>8. FlagsExclude'
    BY <1>8, <1>b DEF IInv, FlagsExclude, Asleep, IrqResumeRemote
  <2>9. RequestsAreStarts'
    BY <1>8, <1>b, <1>0, <2>1 DEF IInv, RequestsAreStarts, IrqResumeRemote
  <2>10. PostsAreDue'
    BY <1>8, <1>b, <1>0, <2>1 DEF IInv, PostsAreDue, IrqResumeRemote
  <2>11. StartsOnce'
    <3>1. \A u \in Threads : pc[u] # "Body" => ~suspended[request[u].thread]
      BY DEF IInv, RequestsAreStarts, Unplaced, Loose
    <3>2. suspended[chosen[p]] /\ UNCHANGED <<pc, request>>
      BY <1>8 DEF IrqResumeRemote
    <3>3. QED BY <3>1, <3>2, <1>0, <2>2 DEF IInv, StartsOnce
  <2>12. OwedAreSuspended'
    BY <1>8, <1>b, <2>3 DEF IInv, OwedAreSuspended, IrqResumeRemote
  <2>13. OwedOnce'
    BY <1>8, <1>b, <2>2 DEF IInv, OwedOnce, IrqResumeRemote
  <2>14. QED BY <2>4, <2>5, <2>6, <2>7, <2>8, <2>9, <2>10, <2>11, <2>12, <2>13 DEF IInv
<1>9. ASSUME NEW t \in Threads, KeTimerTick(t)
      PROVE  IInv'
  <2>1. \A u \in Threads : Unplaced(u) => Unplaced(u)'
    BY <1>9, <1>b DEF IInv, Unplaced, Loose, Asleep, Parked, Relinked, PointsAreHome, KeTimerTick
  <2>2. \A u \in Threads : Posted(u)' => Posted(u)
    BY <1>9, <1>b DEF IInv, Posted, KeTimerTick
  <2>3. \A u \in Threads : (suspended[u] \/ Parked(u)) => (suspended[u] \/ Parked(u))'
    BY <1>9, <1>b DEF IInv, Parked, PointsAreHome, Loose, KeTimerTick
  <2>4. NoScBug0'
    BY <1>9, <1>b DEF IInv, NoScBug0, KeTimerTick
  <2>5. QueueDiscipline'
    BY <1>9, <1>b DEF IInv, QueueDiscipline, KeTimerTick
  <2>6. CurrentIsReady'
    BY <1>9, <1>b DEF IInv, CurrentIsReady, KeTimerTick
  <2>7. PointsAreHome'
    BY <1>9, <1>b DEF IInv, PointsAreHome, Loose, Asleep, KeTimerTick
  <2>8. FlagsExclude'
    BY <1>9, <1>b DEF IInv, FlagsExclude, Asleep, KeTimerTick
  <2>9. RequestsAreStarts'
    BY <1>9, <1>b, <1>0, <2>1 DEF IInv, RequestsAreStarts, KeTimerTick
  <2>10. PostsAreDue'
    BY <1>9, <1>b, <1>0, <2>1 DEF IInv, PostsAreDue, KeTimerTick
  <2>11. StartsOnce'
    BY <1>9, <1>b, <1>0, <2>2 DEF IInv, StartsOnce, KeTimerTick
  <2>12. OwedAreSuspended'
    BY <1>9, <1>b, <2>3 DEF IInv, OwedAreSuspended, KeTimerTick
  <2>13. OwedOnce'
    BY <1>9, <1>b, <2>2 DEF IInv, OwedOnce, KeTimerTick
  <2>14. QED BY <2>4, <2>5, <2>6, <2>7, <2>8, <2>9, <2>10, <2>11, <2>12, <2>13 DEF IInv
<1>10. ASSUME UNCHANGED vars
      PROVE  IInv'
  <2>1. \A u \in Threads : Unplaced(u) => Unplaced(u)'
    BY <1>10, <1>b DEF IInv, Unplaced, Loose, Asleep, Parked, Relinked, PointsAreHome, vars
  <2>2. \A u \in Threads : Posted(u)' => Posted(u)
    BY <1>10, <1>b DEF IInv, Posted, vars
  <2>3. \A u \in Threads : (suspended[u] \/ Parked(u)) => (suspended[u] \/ Parked(u))'
    BY <1>10, <1>b DEF IInv, Parked, PointsAreHome, Loose, vars
  <2>4. NoScBug0'
    BY <1>10, <1>b DEF IInv, NoScBug0, vars
  <2>5. QueueDiscipline'
    BY <1>10, <1>b DEF IInv, QueueDiscipline, vars
  <2>6. CurrentIsReady'
    BY <1>10, <1>b DEF IInv, CurrentIsReady, vars
  <2>7. PointsAreHome'
    BY <1>10, <1>b DEF IInv, PointsAreHome, Loose, Asleep, vars
  <2>8. FlagsExclude'
    BY <1>10, <1>b DEF IInv, FlagsExclude, Asleep, vars
  <2>9. RequestsAreStarts'
    BY <1>10, <1>b, <1>0, <2>1 DEF IInv, RequestsAreStarts, vars
  <2>10. PostsAreDue'
    BY <1>10, <1>b, <1>0, <2>1 DEF IInv, PostsAreDue, vars
  <2>11. StartsOnce'
    BY <1>10, <1>b, <1>0, <2>2 DEF IInv, StartsOnce, vars
  <2>12. OwedAreSuspended'
    BY <1>10, <1>b, <2>3 DEF IInv, OwedAreSuspended, vars
  <2>13. OwedOnce'
    BY <1>10, <1>b, <2>2 DEF IInv, OwedOnce, vars
  <2>14. QED BY <2>4, <2>5, <2>6, <2>7, <2>8, <2>9, <2>10, <2>11, <2>12, <2>13 DEF IInv
<1>11. ASSUME NEW p \in Processors, SetSuspended(p)
      PROVE  IInv'
  <2>1. PICK t \in Threads : t = currentThread[p] /\ processor[t] = p /\ Loose(t) /\ Parked(t)
    BY <1>11 DEF IInv, PointsAreHome, SetSuspended, Parked
  <2>2. /\ suspended' = [suspended EXCEPT ![t] = TRUE]
        /\ cpu[p] = "Suspend" /\ cpu' = [cpu EXCEPT ![p] = "Schedule"]
        /\ UNCHANGED <<queues, currentThread, chosen, ready, priorities, births, calls,
                       remote, expired, wakeups>>
    BY <1>11, <2>1 DEF SetSuspended
  <2>3. \A u \in Threads : Unplaced(u) => Unplaced(u)'
    BY <2>1, <2>2, <1>b DEF IInv, Unplaced, Loose, Asleep, Parked, Relinked, PointsAreHome
  <2>4. \A u \in Threads : Posted(u)' => Posted(u)
    BY <2>1, <2>2, <1>b DEF IInv, Posted
  <2>5. \A u \in Threads : (suspended[u] \/ Parked(u)) => (suspended[u] \/ Parked(u))'
    BY <2>1, <2>2, <1>b DEF IInv, Parked, PointsAreHome, Loose
  <2>6. NoScBug0'
    BY <2>1, <2>2, <1>b DEF IInv, NoScBug0
  <2>7. QueueDiscipline'
    BY <2>1, <2>2, <1>b DEF IInv, QueueDiscipline
  <2>8. CurrentIsReady'
    BY <2>1, <2>2, <1>b DEF IInv, CurrentIsReady
  <2>9. PointsAreHome'
    BY <2>1, <2>2, <1>b DEF IInv, PointsAreHome, Loose, Asleep
  <2>10. FlagsExclude'
    BY <2>1, <2>2, <1>b DEF IInv, FlagsExclude, Asleep, Loose
  <2>11. RequestsAreStarts'
    BY <2>1, <2>2, <1>b, <1>0, <2>3 DEF IInv, RequestsAreStarts
  <2>12. PostsAreDue'
    BY <2>1, <2>2, <1>b, <1>0, <2>3 DEF IInv, PostsAreDue
  <2>13. StartsOnce'
    BY <2>1, <2>2, <1>b, <1>0, <2>4 DEF IInv, StartsOnce
  <2>14. OwedAreSuspended'
    BY <2>1, <2>2, <1>b, <2>5 DEF IInv, OwedAreSuspended
  <2>15. OwedOnce'
    BY <2>1, <2>2, <1>b, <2>4 DEF IInv, OwedOnce
  <2>16. QED BY <2>6, <2>7, <2>8, <2>9, <2>10, <2>11, <2>12, <2>13, <2>14, <2>15 DEF IInv
<1>12. ASSUME NEW p \in Processors, LinkChosen(p)
      PROVE  IInv'
  <2>1. PICK t \in Threads : t = chosen[p] /\ processor[t] = p /\ Loose(t) /\ Relinked(t)
    BY <1>12 DEF IInv, TypeInv, PointsAreHome, LinkChosen, Relinked
  <2>2. ~ready[t] /\ ~suspended[t] /\ life[t] = "live" /\ ~Asleep(t) /\ cpu[p] = "Link"
    BY <1>12, <2>1 DEF LinkChosen, Loose
  <2>3. ScLinkReadyThreadBottom(p, t, "Run")
    BY <1>12, <2>1 DEF LinkChosen
  <2>4. threadQueue' = [threadQueue EXCEPT ![processor[t]] = Append(@, t)]
    BY <2>2, <2>3 DEF ScLinkReadyThreadBottom
  <2>5. /\ ready' = [ready EXCEPT ![t] = TRUE]
        /\ cpu' = [cpu EXCEPT ![p] = "Run"] /\ UNCHANGED <<sleepQueue, suspended>>
    BY <2>2, <2>3 DEF ScLinkReadyThreadBottom
  <2>6. /\ currentThread' = [currentThread EXCEPT ![p] = t]
        /\ chosen' = [chosen EXCEPT ![p] = None]
        /\ UNCHANGED <<births, calls, remote, wakeups>>
    BY <1>12, <2>1 DEF LinkChosen
  <2>7. \A q \in Processors :
          /\ IsInjective(threadQueue'[q]) /\ ToSet(threadQueue'[q]) \subseteq Threads
          /\ \A u \in Threads :
               u \in ToSet(threadQueue'[q])
                 <=> u \in ToSet(threadQueue[q]) \/ (u = t /\ q = processor[t])
    BY <2>2, <2>4, LinkEffect DEF IInv, TypeInv
  <2>8. \A u \in Threads : Unplaced(u) => Unplaced(u)'
    BY <2>1, <2>2, <2>5, <2>6, <1>b DEF IInv, Unplaced, Loose, Asleep, Parked, Relinked, PointsAreHome
  <2>9. \A u \in Threads : Posted(u)' => Posted(u)
    BY <2>1, <2>2, <2>5, <2>6, <1>b DEF IInv, Posted
  <2>10. \A u \in Threads : (suspended[u] \/ Parked(u)) => (suspended[u] \/ Parked(u))'
    BY <2>1, <2>2, <2>5, <2>6, <1>b DEF IInv, Parked, PointsAreHome, Loose
  <2>11. NoScBug0'
    BY <2>1, <2>2, <2>5, <2>6, <1>b DEF IInv, NoScBug0
  <2>12. QueueDiscipline'
    BY <2>1, <2>2, <2>5, <2>6, <1>b, <2>7 DEF IInv, QueueDiscipline
  <2>13. CurrentIsReady'
    BY <2>1, <2>2, <2>5, <2>6, <1>b,ThreadsAssumption DEF IInv, CurrentIsReady
  <2>14. PointsAreHome'
    BY <2>1, <2>2, <2>5, <2>6, <1>b DEF IInv, PointsAreHome, Loose, Asleep
  <2>15. FlagsExclude'
    BY <2>1, <2>2, <2>5, <2>6, <1>b DEF IInv, FlagsExclude, Asleep
  <2>16. RequestsAreStarts'
    BY <2>1, <2>2, <2>5, <2>6, <1>b, <1>0, <2>8 DEF IInv, RequestsAreStarts
  <2>17. PostsAreDue'
    BY <2>1, <2>2, <2>5, <2>6, <1>b, <1>0, <2>8 DEF IInv, PostsAreDue
  <2>18. StartsOnce'
    BY <2>1, <2>2, <2>5, <2>6, <1>b, <1>0, <2>9 DEF IInv, StartsOnce
  <2>19. OwedAreSuspended'
    BY <2>1, <2>2, <2>5, <2>6, <1>b, <2>10 DEF IInv, OwedAreSuspended
  <2>20. OwedOnce'
    BY <2>1, <2>2, <2>5, <2>6, <1>b, <2>9 DEF IInv, OwedOnce
  <2>21. QED BY <2>11, <2>12, <2>13, <2>14, <2>15, <2>16, <2>17, <2>18, <2>19, <2>20 DEF IInv
<1>13. ASSUME NEW p \in Processors, ScheduleSleeper(p)
      PROVE  IInv'
  <2>1. PICK i \in DOMAIN sleepQueue[p] : WakeSleeper(p, i)
    BY <1>13 DEF ScheduleSleeper
  <2>2. PICK t \in Threads : t = sleepQueue[p][i]
    BY DEF IInv, TypeInv, TypeOK
  <2>3. t \in ToSet(sleepQueue[p]) /\ processor[t] = p /\ Asleep(t)
    BY <2>2 DEF IInv, QueueDiscipline, ToSet, Asleep
  <2>4. ~ready[t] /\ ~suspended[t] /\ life[t] = "live" /\ cpu[p] = "Schedule"
    BY <1>13, <2>3 DEF IInv, FlagsExclude, ScheduleSleeper
  <2>5. /\ threadQueue' = [threadQueue EXCEPT ![processor[t]] = Append(@, t)]
        /\ sleepQueue' = [sleepQueue EXCEPT ![p] = RemoveAt(@, i)]
    BY <2>1, <2>2, <2>3, <2>4 DEF WakeSleeper
  <2>6. /\ ready' = [ready EXCEPT ![t] = TRUE]
        /\ cpu' = [cpu EXCEPT ![p] = "Run"] /\ UNCHANGED suspended
        /\ currentThread' = [currentThread EXCEPT ![p] = t]
    BY <2>1, <2>2, <2>3, <2>4 DEF WakeSleeper
  <2>7. UNCHANGED <<chosen, births, calls, remote, wakeups>>
    BY <1>13 DEF ScheduleSleeper
  <2>8. \A q \in Processors :
          /\ IsInjective(threadQueue'[q]) /\ ToSet(threadQueue'[q]) \subseteq Threads
          /\ \A u \in Threads :
               u \in ToSet(threadQueue'[q])
                 <=> u \in ToSet(threadQueue[q]) \/ (u = t /\ q = processor[t])
    BY <2>4, <2>5, LinkEffect DEF IInv, TypeInv
  <2>9. \A q \in Processors :
          /\ IsInjective(sleepQueue'[q]) /\ ToSet(sleepQueue'[q]) \subseteq Threads
          /\ \A u \in Threads :
               u \in ToSet(sleepQueue'[q]) <=> u \in ToSet(sleepQueue[q]) /\ u # t
    <3>1. /\ sleepQueue \in [Processors -> Seq(Threads)]
          /\ \A q \in Processors : IsInjective(sleepQueue[q])
          /\ \A q \in Processors \ {p} : sleepQueue[p][i] \notin ToSet(sleepQueue[q])
      BY <2>2, <2>3 DEF IInv, TypeInv, TypeOK, QueueDiscipline
    <3>2. \A q \in Processors :
            /\ IsInjective(sleepQueue'[q]) /\ ToSet(sleepQueue'[q]) \subseteq Threads
            /\ \A u \in Threads :
                 u \in ToSet(sleepQueue'[q]) <=> u \in ToSet(sleepQueue[q]) /\ u # sleepQueue[p][i]
      <4>1. Unlinked(Processors, Threads, sleepQueue, sleepQueue', p, i)
        BY <2>5, <3>1 DEF Unlinked, Family
      <4>2. QED BY <4>1, RemoveFromFamily
    <3>3. QED BY <2>2, <3>2
  <2>10. UNCHANGED processor
    BY <2>7
  <2>11. \A u \in Threads : Asleep(u)' <=> Asleep(u) /\ u # t
    BY <2>9, <2>10, <1>b DEF Asleep
  <2>12. \A u \in Threads : Unplaced(u) => Unplaced(u)'
    BY <2>3, <2>4, <2>6, <2>7, <2>11, <1>b DEF IInv, Unplaced, Loose, Parked, Relinked, PointsAreHome
  <2>13. \A u \in Threads : Posted(u)' => Posted(u)
    BY <2>3, <2>4, <2>6, <2>7, <2>11, <1>b DEF IInv, Posted
  <2>14. \A u \in Threads : (suspended[u] \/ Parked(u)) => (suspended[u] \/ Parked(u))'
    BY <2>3, <2>4, <2>6, <2>7, <2>11, <1>b DEF IInv, Parked, PointsAreHome, Loose
  <2>15. NoScBug0'
    BY <2>3, <2>4, <2>6, <2>7, <2>11, <1>b DEF IInv, NoScBug0
  <2>16. QueueDiscipline'
    BY <2>3, <2>4, <2>6, <2>7, <2>11, <1>b, <2>8, <2>9 DEF IInv, QueueDiscipline
  <2>17. CurrentIsReady'
    BY <2>3, <2>4, <2>6, <2>7, <2>11, <1>b,ThreadsAssumption DEF IInv, CurrentIsReady
  <2>18. PointsAreHome'
    BY <2>3, <2>4, <2>6, <2>7, <2>11, <1>b DEF IInv, PointsAreHome, Loose
  <2>19. FlagsExclude'
    BY <2>3, <2>4, <2>6, <2>7, <2>11, <1>b DEF IInv, FlagsExclude
  <2>20. RequestsAreStarts'
    BY <2>3, <2>4, <2>6, <2>7, <2>11, <1>b, <1>0, <2>12 DEF IInv, RequestsAreStarts
  <2>21. PostsAreDue'
    BY <2>3, <2>4, <2>6, <2>7, <2>11, <1>b, <1>0, <2>12 DEF IInv, PostsAreDue
  <2>22. StartsOnce'
    BY <2>3, <2>4, <2>6, <2>7, <2>11, <1>b, <1>0, <2>13 DEF IInv, StartsOnce
  <2>23. OwedAreSuspended'
    BY <2>3, <2>4, <2>6, <2>7, <2>11, <1>b, <2>14 DEF IInv, OwedAreSuspended
  <2>24. OwedOnce'
    BY <2>3, <2>4, <2>6, <2>7, <2>11, <1>b, <2>13 DEF IInv, OwedOnce
  <2>25. QED BY <2>15, <2>16, <2>17, <2>18, <2>19, <2>20, <2>21, <2>22, <2>23, <2>24 DEF IInv
<1>14. ASSUME NEW p \in Processors, ScheduleReady(p)
      PROVE  IInv'
  <2>1. PICK t \in ToSet(threadQueue[p]) :
          ScUnlinkReadyThread(p, t) /\ chosen' = [chosen EXCEPT ![p] = t]
    BY <1>14 DEF ScheduleReady
  <2>2. t \in Threads
    BY QueueMembers DEF IInv, TypeInv, TypeOK
  <2>3. processor[t] = p /\ ready[t] /\ ready' = [ready EXCEPT ![t] = FALSE]
    BY <2>1, <2>2, UnlinkEffect DEF IInv, TypeInv
  <2>4. life[t] = "live" /\ ~suspended[t] /\ ~Asleep(t) /\ cpu[p] = "Schedule"
    BY <1>14, <2>2, <2>3 DEF IInv, FlagsExclude, ScheduleReady
  <2>5. /\ cpu' = [cpu EXCEPT ![p] = "Link"] /\ chosen' = [chosen EXCEPT ![p] = t]
        /\ UNCHANGED <<sleepQueue, currentThread, suspended, births, calls, remote, wakeups>>
    BY <1>14, <2>1 DEF ScheduleReady
  <2>6. \A q \in Processors :
          /\ IsInjective(threadQueue'[q]) /\ ToSet(threadQueue'[q]) \subseteq Threads
          /\ \A u \in Threads :
               u \in ToSet(threadQueue'[q]) <=> u \in ToSet(threadQueue[q]) /\ u # t
    BY <2>1, <2>2, UnlinkEffect DEF IInv, TypeInv
  <2>7. \A u \in Threads : Unplaced(u) => Unplaced(u)'
    BY <2>2, <2>3, <2>4, <2>5, <1>b DEF IInv, Unplaced, Loose, Asleep, Parked, Relinked, PointsAreHome
  <2>8. \A u \in Threads : Posted(u)' => Posted(u)
    BY <2>2, <2>3, <2>4, <2>5, <1>b DEF IInv, Posted
  <2>9. \A u \in Threads : (suspended[u] \/ Parked(u)) => (suspended[u] \/ Parked(u))'
    BY <2>2, <2>3, <2>4, <2>5, <1>b DEF IInv, Parked, PointsAreHome, Loose
  <2>10. NoScBug0'
    BY <2>2, <2>3, <2>4, <2>5, <1>b DEF IInv, NoScBug0
  <2>11. QueueDiscipline'
    BY <2>2, <2>3, <2>4, <2>5, <1>b, <2>6 DEF IInv, QueueDiscipline
  <2>12. CurrentIsReady'
    BY <2>2, <2>3, <2>4, <2>5, <1>b DEF IInv, CurrentIsReady
  <2>13. PointsAreHome'
    BY <2>2, <2>3, <2>4, <2>5, <1>b DEF IInv, PointsAreHome, Loose, Asleep
  <2>14. FlagsExclude'
    BY <2>2, <2>3, <2>4, <2>5, <1>b DEF IInv, FlagsExclude, Asleep
  <2>15. RequestsAreStarts'
    BY <2>2, <2>3, <2>4, <2>5, <1>b, <1>0, <2>7 DEF IInv, RequestsAreStarts
  <2>16. PostsAreDue'
    BY <2>2, <2>3, <2>4, <2>5, <1>b, <1>0, <2>7 DEF IInv, PostsAreDue
  <2>17. StartsOnce'
    BY <2>2, <2>3, <2>4, <2>5, <1>b, <1>0, <2>8 DEF IInv, StartsOnce
  <2>18. OwedAreSuspended'
    BY <2>2, <2>3, <2>4, <2>5, <1>b, <2>9 DEF IInv, OwedAreSuspended
  <2>19. OwedOnce'
    BY <2>2, <2>3, <2>4, <2>5, <1>b, <2>8 DEF IInv, OwedOnce
  <2>20. QED BY <2>10, <2>11, <2>12, <2>13, <2>14, <2>15, <2>16, <2>17, <2>18, <2>19 DEF IInv
<1>15. ASSUME NEW p \in Processors, IrqResumeLocal(p)
      PROVE  IInv'
  <2>1. PICK t \in Threads : t = chosen[p] /\ suspended[t] /\ processor[t] = p
    BY <1>15 DEF IInv, TypeInv, IrqResumeLocal
  <2>2. ~ready[t] /\ life[t] = "live" /\ ~Asleep(t)
    BY <2>1 DEF IInv, FlagsExclude
  <2>3. RunRoutine(p, [routine |-> "KiThreadResumeRoutine", thread |-> t], "Irq")
    BY <1>15, <2>1 DEF IrqResumeLocal
  <2>4. threadQueue' = [threadQueue EXCEPT ![processor[t]] = Append(@, t)]
    BY <2>2, <2>3 DEF RunRoutine
  <2>5. /\ ready' = [ready EXCEPT ![t] = TRUE]
        /\ cpu' = [cpu EXCEPT ![p] = "Irq"] /\ UNCHANGED sleepQueue
        /\ suspended' = [suspended EXCEPT ![t] = FALSE]
    BY <2>2, <2>3 DEF RunRoutine
  <2>6. /\ cpu[p] = "Resume" /\ chosen' = [chosen EXCEPT ![p] = None]
        /\ UNCHANGED <<currentThread, births, calls, remote, wakeups>>
    BY <1>15 DEF IrqResumeLocal
  <2>7. \A q \in Processors :
          /\ IsInjective(threadQueue'[q]) /\ ToSet(threadQueue'[q]) \subseteq Threads
          /\ \A u \in Threads :
               u \in ToSet(threadQueue'[q])
                 <=> u \in ToSet(threadQueue[q]) \/ (u = t /\ q = processor[t])
    BY <2>2, <2>4, LinkEffect DEF IInv, TypeInv
  <2>8. \A u \in Threads : Unplaced(u) => Unplaced(u)'
    BY <2>1, <2>2, <2>5, <2>6, <1>b DEF IInv, Unplaced, Loose, Asleep, Parked, Relinked, PointsAreHome
  <2>9. \A u \in Threads : Posted(u)' => Posted(u)
    BY <2>1, <2>2, <2>5, <2>6, <1>b DEF IInv, Posted
  <2>10. \A u \in Threads : (suspended[u] \/ Parked(u)) /\ u # t => (suspended[u] \/ Parked(u))'
    BY <2>1, <2>2, <2>5, <2>6, <1>b DEF IInv, Parked, PointsAreHome, Loose
  <2>11. NoScBug0'
    BY <2>1, <2>2, <2>5, <2>6, <1>b DEF IInv, NoScBug0
  <2>12. QueueDiscipline'
    BY <2>1, <2>2, <2>5, <2>6, <1>b, <2>7 DEF IInv, QueueDiscipline
  <2>13. CurrentIsReady'
    BY <2>1, <2>2, <2>5, <2>6, <1>b DEF IInv, CurrentIsReady
  <2>14. PointsAreHome'
    BY <2>1, <2>2, <2>5, <2>6, <1>b DEF IInv, PointsAreHome, Loose, Asleep
  <2>15. FlagsExclude'
    BY <2>1, <2>2, <2>5, <2>6, <1>b DEF IInv, FlagsExclude, Asleep
  <2>16. RequestsAreStarts'
    BY <2>1, <2>2, <2>5, <2>6, <1>b, <1>0, <2>8 DEF IInv, RequestsAreStarts
  <2>17. PostsAreDue'
    BY <2>1, <2>2, <2>5, <2>6, <1>b, <1>0, <2>8 DEF IInv, PostsAreDue, OwedOnce, Posted
  <2>18. StartsOnce'
    BY <2>1, <2>2, <2>5, <2>6, <1>b, <1>0, <2>9 DEF IInv, StartsOnce
  <2>19. OwedAreSuspended'
    BY <2>1, <2>2, <2>5, <2>6, <1>b, <2>10 DEF IInv, OwedAreSuspended, OwedOnce
  <2>20. OwedOnce'
    BY <2>1, <2>2, <2>5, <2>6, <1>b, <2>9 DEF IInv, OwedOnce
  <2>21. QED BY <2>11, <2>12, <2>13, <2>14, <2>15, <2>16, <2>17, <2>18, <2>19, <2>20 DEF IInv
<1>16. ASSUME NEW p \in Processors, KiRemoteExecuteHandler(p)
      PROVE  IInv'
  <2>1. PICK t \in Threads : t = remoteExecute[p].thread /\ remoteExecute[p] # None
    BY <1>16, <1>0 DEF KiRemoteExecuteHandler
  <2>2. /\ processor[t] = p /\ Posted(t) /\ ~ready[t] /\ life[t] = "live" /\ ~Asleep(t)
        /\ remoteExecute[p].routine # "KiThreadResumeRoutine" => ~suspended[t]
    BY <2>1, <1>0 DEF IInv, PostsAreDue, Unplaced, Loose, FlagsExclude, Posted, Routines
  <2>3. RunRoutine(p, remoteExecute[p], "Schedule")
    BY <1>16 DEF KiRemoteExecuteHandler
  <2>4. threadQueue' = [threadQueue EXCEPT ![processor[t]] = Append(@, t)]
    BY <2>1, <2>2, <2>3 DEF RunRoutine
  <2>5. /\ ready' = [ready EXCEPT ![t] = TRUE]
        /\ cpu' = [cpu EXCEPT ![p] = "Schedule"] /\ UNCHANGED sleepQueue
        /\ suspended' = IF remoteExecute[p].routine = "KiThreadResumeRoutine"
                        THEN [suspended EXCEPT ![t] = FALSE] ELSE suspended
    BY <2>1, <2>2, <2>3 DEF RunRoutine
  <2>6. suspended' = [suspended EXCEPT ![t] = FALSE]
    <3>1. CASE remoteExecute[p].routine = "KiThreadResumeRoutine"
      BY <2>5, <3>1
    <3>2. CASE remoteExecute[p].routine # "KiThreadResumeRoutine"
      BY <2>2, <2>5, <3>2, <1>b
    <3>3. QED BY <3>1, <3>2
  <2>7. /\ cpu[p] = "Run" /\ remoteExecute' = [remoteExecute EXCEPT ![p] = None]
        /\ UNCHANGED <<currentThread, chosen, births, calls, wakeups>>
    BY <1>16 DEF KiRemoteExecuteHandler
  <2>8. /\ ready' = [ready EXCEPT ![t] = TRUE]
        /\ cpu' = [cpu EXCEPT ![p] = "Schedule"] /\ UNCHANGED sleepQueue
    BY <2>5
  <2>9. \A q \in Processors :
          /\ IsInjective(threadQueue'[q]) /\ ToSet(threadQueue'[q]) \subseteq Threads
          /\ \A u \in Threads :
               u \in ToSet(threadQueue'[q])
                 <=> u \in ToSet(threadQueue[q]) \/ (u = t /\ q = processor[t])
    BY <2>2, <2>4, LinkEffect DEF IInv, TypeInv
  <2>10. \A u \in Threads : Unplaced(u) /\ u # t => Unplaced(u)'
    BY <2>1, <2>2, <2>6, <2>7, <2>8, <1>b DEF IInv, Unplaced, Loose, Asleep, Parked, Relinked, PointsAreHome
  <2>11. \A u \in Threads : Posted(u)' => Posted(u)
    BY <2>1, <2>2, <2>6, <2>7, <2>8, <1>b DEF IInv, Posted
  <2>12. \A u \in Threads : (suspended[u] \/ Parked(u)) /\ u # t => (suspended[u] \/ Parked(u))'
    BY <2>1, <2>2, <2>6, <2>7, <2>8, <1>b DEF IInv, Parked, PointsAreHome, Loose
  <2>13. NoScBug0'
    BY <2>1, <2>2, <2>6, <2>7, <2>8, <1>b DEF IInv, NoScBug0
  <2>14. QueueDiscipline'
    BY <2>1, <2>2, <2>6, <2>7, <2>8, <1>b, <2>9 DEF IInv, QueueDiscipline
  <2>15. CurrentIsReady'
    BY <2>1, <2>2, <2>6, <2>7, <2>8, <1>b DEF IInv, CurrentIsReady
  <2>16. PointsAreHome'
    BY <2>1, <2>2, <2>6, <2>7, <2>8, <1>b DEF IInv, PointsAreHome, Loose, Asleep
  <2>17. FlagsExclude'
    BY <2>1, <2>2, <2>6, <2>7, <2>8, <1>b DEF IInv, FlagsExclude, Asleep
  <2>18. RequestsAreStarts'
    BY <2>1, <2>2, <2>6, <2>7, <2>8, <1>b, <1>0, <2>10 DEF IInv, RequestsAreStarts, StartsOnce
  <2>19. PostsAreDue'
    BY <2>1, <2>2, <2>6, <2>7, <2>8, <1>b, <1>0, <2>10 DEF IInv, PostsAreDue
  <2>20. StartsOnce'
    BY <2>1, <2>2, <2>6, <2>7, <2>8, <1>b, <1>0, <2>11 DEF IInv, StartsOnce
  <2>21. OwedAreSuspended'
    BY <2>1, <2>2, <2>6, <2>7, <2>8, <1>b, <2>12 DEF IInv, OwedAreSuspended, OwedOnce
  <2>22. OwedOnce'
    BY <2>1, <2>2, <2>6, <2>7, <2>8, <1>b, <2>11 DEF IInv, OwedOnce
  <2>23. QED BY <2>13, <2>14, <2>15, <2>16, <2>17, <2>18, <2>19, <2>20, <2>21, <2>22 DEF IInv
<1>17. ASSUME NEW p \in Processors, NEW c \in Threads, ExecuteLocally(p, c)
      PROVE  IInv'
  <2>1. PICK t \in Threads : t = request[c].thread /\ pc[c] # "Body" /\ Unplaced(t)
    BY <1>17, <1>0 DEF IInv, RequestsAreStarts, ExecuteLocally
  <2>2. /\ processor[t] = p /\ ~ready[t] /\ life[t] = "live" /\ ~Asleep(t) /\ ~suspended[t]
        /\ cpu[p] = "Run"
    BY <1>17, <2>1 DEF ExecuteLocally, Unplaced, Loose, Running
  <2>3. /\ RunRoutine(p, request[c], "Run")
        /\ request[c].routine = "KiSetThreadInReadyQueue"
    BY <1>17, <2>1 DEF IInv, RequestsAreStarts, ExecuteLocally
  <2>4. threadQueue' = [threadQueue EXCEPT ![processor[t]] = Append(@, t)]
    BY <2>1, <2>2, <2>3 DEF RunRoutine
  <2>5. /\ ready' = [ready EXCEPT ![t] = TRUE]
        /\ cpu' = [cpu EXCEPT ![p] = "Run"] /\ UNCHANGED sleepQueue
        /\ UNCHANGED suspended
    BY <2>1, <2>2, <2>3 DEF RunRoutine
  <2>6. /\ pc' = [pc EXCEPT ![c] = "Body"] /\ request' = [request EXCEPT ![c] = None]
        /\ UNCHANGED <<currentThread, chosen, births, remote, wakeups>>
    BY <1>17 DEF ExecuteLocally
  <2>7. \A u \in Threads : pc'[u] # "Body" =>
          u # c /\ pc[u] # "Body" /\ request'[u] = request[u]
    BY <2>6 DEF IInv, TypeInv, TypeOK
  <2>8. UNCHANGED <<currentThread, chosen, births, remote, wakeups>>
    BY <2>6
  <2>9. \A q \in Processors :
          /\ IsInjective(threadQueue'[q]) /\ ToSet(threadQueue'[q]) \subseteq Threads
          /\ \A u \in Threads :
               u \in ToSet(threadQueue'[q])
                 <=> u \in ToSet(threadQueue[q]) \/ (u = t /\ q = processor[t])
    BY <2>2, <2>4, LinkEffect DEF IInv, TypeInv
  <2>10. \A u \in Threads : Unplaced(u) /\ u # t => Unplaced(u)'
    BY <2>1, <2>2, <2>5, <2>7, <2>8, <1>b DEF IInv, Unplaced, Loose, Asleep, Parked, Relinked, PointsAreHome
  <2>11. \A u \in Threads : Posted(u)' => Posted(u)
    BY <2>1, <2>2, <2>5, <2>7, <2>8, <1>b DEF IInv, Posted
  <2>12. \A u \in Threads : (suspended[u] \/ Parked(u)) => (suspended[u] \/ Parked(u))'
    BY <2>1, <2>2, <2>5, <2>7, <2>8, <1>b DEF IInv, Parked, PointsAreHome, Loose
  <2>13. NoScBug0'
    BY <2>1, <2>2, <2>5, <2>7, <2>8, <1>b DEF IInv, NoScBug0
  <2>14. QueueDiscipline'
    BY <2>1, <2>2, <2>5, <2>7, <2>8, <1>b, <2>9 DEF IInv, QueueDiscipline
  <2>15. CurrentIsReady'
    BY <2>1, <2>2, <2>5, <2>7, <2>8, <1>b DEF IInv, CurrentIsReady
  <2>16. PointsAreHome'
    BY <2>1, <2>2, <2>5, <2>7, <2>8, <1>b DEF IInv, PointsAreHome, Loose, Asleep
  <2>17. FlagsExclude'
    BY <2>1, <2>2, <2>5, <2>7, <2>8, <1>b DEF IInv, FlagsExclude, Asleep
  <2>18. RequestsAreStarts'
    BY <2>1, <2>2, <2>5, <2>7, <2>8, <1>b, <1>0, <2>10 DEF IInv, RequestsAreStarts, StartsOnce
  <2>19. PostsAreDue'
    BY <2>1, <2>2, <2>5, <2>7, <2>8, <1>b, <1>0, <2>10 DEF IInv, PostsAreDue, StartsOnce, Posted
  <2>20. StartsOnce'
    BY <2>1, <2>2, <2>5, <2>7, <2>8, <1>b, <1>0, <2>11 DEF IInv, StartsOnce
  <2>21. OwedAreSuspended'
    BY <2>1, <2>2, <2>5, <2>7, <2>8, <1>b, <2>12 DEF IInv, OwedAreSuspended
  <2>22. OwedOnce'
    BY <2>1, <2>2, <2>5, <2>7, <2>8, <1>b, <2>11 DEF IInv, OwedOnce
  <2>23. QED BY <2>13, <2>14, <2>15, <2>16, <2>17, <2>18, <2>19, <2>20, <2>21, <2>22 DEF IInv
<1>18. ASSUME NEW p \in Processors, NEW t \in Threads, Sleep(p, t)
      PROVE  IInv'
  <2>1. ScUnlinkReadyThread(p, t) /\ cpu[p] = "Run" /\ currentThread[p] = t
    BY <1>18 DEF Sleep, Calling, Running
  <2>2. processor[t] = p /\ ready[t] /\ ready' = [ready EXCEPT ![t] = FALSE]
    BY <2>1, UnlinkEffect DEF IInv, TypeInv
  <2>3. life[t] = "live" /\ ~suspended[t] /\ ~Asleep(t) /\ cpu[p] = "Run" /\ currentThread[p] = t
    BY <2>1, <2>2 DEF IInv, FlagsExclude
  <2>4. \A q \in Processors :
          /\ IsInjective(threadQueue'[q]) /\ ToSet(threadQueue'[q]) \subseteq Threads
          /\ \A u \in Threads :
               u \in ToSet(threadQueue'[q]) <=> u \in ToSet(threadQueue[q]) /\ u # t
    BY <2>1, UnlinkEffect DEF IInv, TypeInv
  <2>5. /\ cpu' = [cpu EXCEPT ![p] = "Schedule"]
        /\ UNCHANGED <<currentThread, chosen, suspended, births, calls, remote, wakeups>>
    BY <1>18 DEF Sleep
  <2>6. \A q \in Processors :
          /\ IsInjective(sleepQueue'[q]) /\ ToSet(sleepQueue'[q]) \subseteq Threads
          /\ \A u \in Threads :
               u \in ToSet(sleepQueue'[q])
                 <=> u \in ToSet(sleepQueue[q]) \/ (u = t /\ q = p)
    <3>1. sleepQueue' = [sleepQueue EXCEPT ![p] = Append(@, t)]
      BY <1>18 DEF Sleep
    <3>2. /\ sleepQueue \in [Processors -> Seq(Threads)] /\ t \notin ToSet(sleepQueue[p])
          /\ \A q \in Processors : IsInjective(sleepQueue[q])
      BY <2>2, <2>3 DEF IInv, TypeInv, TypeOK, QueueDiscipline, Asleep
    <3>3. Linked(Processors, Threads, sleepQueue, sleepQueue', p, t)
      BY <3>1, <3>2 DEF Linked, Family
    <3>4. QED BY <3>3, AppendToFamily
  <2>7. UNCHANGED processor
    BY <2>5
  <2>8. \A u \in Threads : Asleep(u)' <=> Asleep(u) \/ u = t
    BY <2>2, <2>6, <2>7, <1>b DEF Asleep
  <2>9. \A u \in Threads : Unplaced(u) => Unplaced(u)'
    BY <2>2, <2>3, <2>5, <2>8, <1>b DEF IInv, Unplaced, Loose, Parked, Relinked, PointsAreHome
  <2>10. \A u \in Threads : Posted(u)' => Posted(u)
    BY <2>2, <2>3, <2>5, <2>8, <1>b DEF IInv, Posted
  <2>11. \A u \in Threads : (suspended[u] \/ Parked(u)) => (suspended[u] \/ Parked(u))'
    BY <2>2, <2>3, <2>5, <2>8, <1>b DEF IInv, Parked, PointsAreHome, Loose
  <2>12. NoScBug0'
    BY <2>2, <2>3, <2>5, <2>8, <1>b DEF IInv, NoScBug0
  <2>13. QueueDiscipline'
    BY <2>2, <2>3, <2>5, <2>8, <1>b, <2>4, <2>6 DEF IInv, QueueDiscipline
  <2>14. CurrentIsReady'
    BY <2>2, <2>3, <2>5, <2>8, <1>b DEF IInv, CurrentIsReady
  <2>15. PointsAreHome'
    BY <2>2, <2>3, <2>5, <2>8, <1>b DEF IInv, PointsAreHome, Loose
  <2>16. FlagsExclude'
    BY <2>2, <2>3, <2>5, <2>8, <1>b DEF IInv, FlagsExclude
  <2>17. RequestsAreStarts'
    BY <2>2, <2>3, <2>5, <2>8, <1>b, <1>0, <2>9 DEF IInv, RequestsAreStarts
  <2>18. PostsAreDue'
    BY <2>2, <2>3, <2>5, <2>8, <1>b, <1>0, <2>9 DEF IInv, PostsAreDue
  <2>19. StartsOnce'
    BY <2>2, <2>3, <2>5, <2>8, <1>b, <1>0, <2>10 DEF IInv, StartsOnce
  <2>20. OwedAreSuspended'
    BY <2>2, <2>3, <2>5, <2>8, <1>b, <2>11 DEF IInv, OwedAreSuspended
  <2>21. OwedOnce'
    BY <2>2, <2>3, <2>5, <2>8, <1>b, <2>10 DEF IInv, OwedOnce
  <2>22. QED BY <2>12, <2>13, <2>14, <2>15, <2>16, <2>17, <2>18, <2>19, <2>20, <2>21 DEF IInv
<1>19. ASSUME NEW p \in Processors, NEW t \in Threads, KeSuspendThread(p, t)
      PROVE  IInv'
  <2>1. ScUnlinkReadyThread(p, t) /\ cpu[p] = "Run" /\ currentThread[p] = t
    BY <1>19 DEF KeSuspendThread, Calling, Running
  <2>2. processor[t] = p /\ ready[t] /\ ready' = [ready EXCEPT ![t] = FALSE]
    BY <2>1, UnlinkEffect DEF IInv, TypeInv
  <2>3. life[t] = "live" /\ ~suspended[t] /\ ~Asleep(t) /\ cpu[p] = "Run" /\ currentThread[p] = t
    BY <2>1, <2>2 DEF IInv, FlagsExclude
  <2>4. \A q \in Processors :
          /\ IsInjective(threadQueue'[q]) /\ ToSet(threadQueue'[q]) \subseteq Threads
          /\ \A u \in Threads :
               u \in ToSet(threadQueue'[q]) <=> u \in ToSet(threadQueue[q]) /\ u # t
    BY <2>1, UnlinkEffect DEF IInv, TypeInv
  <2>5. /\ cpu' = [cpu EXCEPT ![p] = "Suspend"]
        /\ waiting' = [waiting EXCEPT ![t] = TRUE]
        /\ UNCHANGED <<sleepQueue, currentThread, chosen, suspended, births, calls, remote,
                       completed>>
    BY <1>19 DEF KeSuspendThread
  <2>6. ~waiting[t] /\ ~Posted(t)
    BY <2>2, <2>3 DEF IInv, OwedAreSuspended, PostsAreDue, Posted, Parked, Unplaced, Loose
  <2>7. \A q \in Processors : t \notin completed[q] /\ ~(cpu[q] = "Resume" /\ chosen[q] = t)
    BY <2>2, <2>3 DEF IInv, OwedAreSuspended, Parked
  <2>8. \A u \in Threads : Unplaced(u) => Unplaced(u)'
    BY <2>2, <2>3, <2>5, <2>6, <2>7, <1>b DEF IInv, Unplaced, Loose, Asleep, Parked, Relinked, PointsAreHome
  <2>9. \A u \in Threads : Posted(u)' => Posted(u)
    BY <2>2, <2>3, <2>5, <2>6, <2>7, <1>b DEF IInv, Posted
  <2>10. \A u \in Threads : (suspended[u] \/ Parked(u)) => (suspended[u] \/ Parked(u))'
    BY <2>2, <2>3, <2>5, <2>6, <2>7, <1>b DEF IInv, Parked, PointsAreHome, Loose
  <2>11. NoScBug0'
    BY <2>2, <2>3, <2>5, <2>6, <2>7, <1>b DEF IInv, NoScBug0
  <2>12. QueueDiscipline'
    BY <2>2, <2>3, <2>5, <2>6, <2>7, <1>b, <2>4 DEF IInv, QueueDiscipline
  <2>13. CurrentIsReady'
    BY <2>2, <2>3, <2>5, <2>6, <2>7, <1>b DEF IInv, CurrentIsReady
  <2>14. PointsAreHome'
    BY <2>2, <2>3, <2>5, <2>6, <2>7, <1>b DEF IInv, PointsAreHome, Loose, Asleep
  <2>15. FlagsExclude'
    BY <2>2, <2>3, <2>5, <2>6, <2>7, <1>b DEF IInv, FlagsExclude, Asleep
  <2>16. RequestsAreStarts'
    BY <2>2, <2>3, <2>5, <2>6, <2>7, <1>b, <1>0, <2>8 DEF IInv, RequestsAreStarts
  <2>17. PostsAreDue'
    BY <2>2, <2>3, <2>5, <2>6, <2>7, <1>b, <1>0, <2>8 DEF IInv, PostsAreDue
  <2>18. StartsOnce'
    BY <2>2, <2>3, <2>5, <2>6, <2>7, <1>b, <1>0, <2>9 DEF IInv, StartsOnce
  <2>19. OwedAreSuspended'
    <3>1. Parked(t)'
      BY <2>2, <2>3, <2>5, <1>b DEF Parked
    <3>2. /\ \A u \in Threads : waiting'[u] => waiting[u] \/ u = t
          /\ \A q \in Processors : cpu'[q] = "Resume" => cpu[q] = "Resume" /\ chosen'[q] = chosen[q]
      BY <2>5, <1>b
    <3>3. QED BY <2>5, <2>10, <3>1, <3>2, <1>b DEF IInv, OwedAreSuspended
  <2>20. OwedOnce'
    BY <2>2, <2>3, <2>5, <2>6, <2>7, <1>b, <2>9 DEF IInv, OwedOnce
  <2>21. QED BY <2>11, <2>12, <2>13, <2>14, <2>15, <2>16, <2>17, <2>18, <2>19, <2>20 DEF IInv
<1>20. ASSUME NEW p \in Processors, NEW t \in Threads, KeExitThread(p, t)
      PROVE  IInv'
  <2>1. ScUnlinkReadyThread(p, t) /\ cpu[p] = "Run" /\ currentThread[p] = t
    BY <1>20 DEF KeExitThread, Calling, Running
  <2>2. processor[t] = p /\ ready[t] /\ ready' = [ready EXCEPT ![t] = FALSE]
    BY <2>1, UnlinkEffect DEF IInv, TypeInv
  <2>3. life[t] = "live" /\ ~suspended[t] /\ ~Asleep(t) /\ cpu[p] = "Run" /\ currentThread[p] = t
    BY <2>1, <2>2 DEF IInv, FlagsExclude
  <2>4. \A q \in Processors :
          /\ IsInjective(threadQueue'[q]) /\ ToSet(threadQueue'[q]) \subseteq Threads
          /\ \A u \in Threads :
               u \in ToSet(threadQueue'[q]) <=> u \in ToSet(threadQueue[q]) /\ u # t
    BY <2>1, UnlinkEffect DEF IInv, TypeInv
  <2>5. PICK m \in {"Schedule", "Halt"} : cpu' = [cpu EXCEPT ![p] = m]
    BY <1>20 DEF KeExitThread
  <2>6. /\ life' = [life EXCEPT ![t] = "exited"]
        /\ UNCHANGED <<sleepQueue, currentThread, chosen, suspended, processor, calls, remote,
                       wakeups>>
    BY <1>20 DEF KeExitThread
  <2>7. \A u \in Threads : Unplaced(u) => Unplaced(u)'
    BY <2>2, <2>3, <2>5, <2>6, <1>b DEF IInv, Unplaced, Loose, Asleep, Parked, Relinked, PointsAreHome
  <2>8. \A u \in Threads : Posted(u)' => Posted(u)
    BY <2>2, <2>3, <2>5, <2>6, <1>b DEF IInv, Posted
  <2>9. \A u \in Threads : (suspended[u] \/ Parked(u)) => (suspended[u] \/ Parked(u))'
    BY <2>2, <2>3, <2>5, <2>6, <1>b DEF IInv, Parked, PointsAreHome, Loose
  <2>10. NoScBug0'
    BY <2>2, <2>3, <2>5, <2>6, <1>b DEF IInv, NoScBug0
  <2>11. QueueDiscipline'
    BY <2>2, <2>3, <2>5, <2>6, <1>b, <2>4 DEF IInv, QueueDiscipline
  <2>12. CurrentIsReady'
    BY <2>2, <2>3, <2>5, <2>6, <1>b DEF IInv, CurrentIsReady
  <2>13. PointsAreHome'
    BY <2>2, <2>3, <2>5, <2>6, <1>b DEF IInv, PointsAreHome, Loose, Asleep
  <2>14. FlagsExclude'
    BY <2>2, <2>3, <2>5, <2>6, <1>b DEF IInv, FlagsExclude, Asleep
  <2>15. RequestsAreStarts'
    BY <2>2, <2>3, <2>5, <2>6, <1>b, <1>0, <2>7 DEF IInv, RequestsAreStarts
  <2>16. PostsAreDue'
    BY <2>2, <2>3, <2>5, <2>6, <1>b, <1>0, <2>7 DEF IInv, PostsAreDue
  <2>17. StartsOnce'
    BY <2>2, <2>3, <2>5, <2>6, <1>b, <1>0, <2>8 DEF IInv, StartsOnce
  <2>18. OwedAreSuspended'
    BY <2>2, <2>3, <2>5, <2>6, <1>b, <2>9 DEF IInv, OwedAreSuspended
  <2>19. OwedOnce'
    BY <2>2, <2>3, <2>5, <2>6, <1>b, <2>8 DEF IInv, OwedOnce
  <2>20. QED BY <2>10, <2>11, <2>12, <2>13, <2>14, <2>15, <2>16, <2>17, <2>18, <2>19 DEF IInv
<1>21. ASSUME NEW p \in Processors, NEW t \in Threads, NEW s \in StaticPriorities, KeSetOwnPriority(p, t, s)
      PROVE  IInv'
  <2>1. ready[t]
    BY <1>21, ThreadsAssumption DEF IInv, CurrentIsReady, KeSetOwnPriority, Calling, Running
  <2>2. UNCHANGED <<queues, currentThread, cpu, chosen, flags, births, calls, remote, wakeups>>
    BY <1>21, <2>1 DEF KeSetOwnPriority, KeSetStaticPriority
  <2>3. \A u \in Threads : Unplaced(u) => Unplaced(u)'
    BY <2>2, <1>b DEF IInv, Unplaced, Loose, Asleep, Parked, Relinked, PointsAreHome
  <2>4. \A u \in Threads : Posted(u)' => Posted(u)
    BY <2>2, <1>b DEF IInv, Posted
  <2>5. \A u \in Threads : (suspended[u] \/ Parked(u)) => (suspended[u] \/ Parked(u))'
    BY <2>2, <1>b DEF IInv, Parked, PointsAreHome, Loose
  <2>6. NoScBug0'
    BY <2>2, <1>b DEF IInv, NoScBug0
  <2>7. QueueDiscipline'
    BY <2>2, <1>b DEF IInv, QueueDiscipline
  <2>8. CurrentIsReady'
    BY <2>2, <1>b DEF IInv, CurrentIsReady
  <2>9. PointsAreHome'
    BY <2>2, <1>b DEF IInv, PointsAreHome, Loose, Asleep
  <2>10. FlagsExclude'
    BY <2>2, <1>b DEF IInv, FlagsExclude, Asleep
  <2>11. RequestsAreStarts'
    BY <2>2, <1>b, <1>0, <2>3 DEF IInv, RequestsAreStarts
  <2>12. PostsAreDue'
    BY <2>2, <1>b, <1>0, <2>3 DEF IInv, PostsAreDue
  <2>13. StartsOnce'
    BY <2>2, <1>b, <1>0, <2>4 DEF IInv, StartsOnce
  <2>14. OwedAreSuspended'
    BY <2>2, <1>b, <2>5 DEF IInv, OwedAreSuspended
  <2>15. OwedOnce'
    BY <2>2, <1>b, <2>4 DEF IInv, OwedOnce
  <2>16. QED BY <2>6, <2>7, <2>8, <2>9, <2>10, <2>11, <2>12, <2>13, <2>14, <2>15 DEF IInv
<1>22. ASSUME NEW p \in Processors, NEW c \in Threads, NEW t \in Threads, NEW s \in StaticPriorities,
             KeCreateThread(p, c, t, s)
      PROVE  IInv'
  <2>1. life[t] = "free" /\ life' = [life EXCEPT ![t] = "live"] /\ pc[c] = "Body"
    BY <1>22 DEF KeCreateThread, Calling
  <2>2. ~ready[t] /\ ~suspended[t] /\ ~Asleep(t)
    BY <2>1 DEF IInv, FlagsExclude
  <2>3. \A q \in Processors :
          /\ ~(cpu[q] = "Link" /\ chosen[q] = t) /\ ~(cpu[q] = "Suspend" /\ currentThread[q] = t)
          /\ ~(cpu[q] = "Run" /\ currentThread[q] = t)
    BY <2>1, <2>2, ThreadsAssumption DEF IInv, PointsAreHome, Loose, CurrentIsReady
  <2>4. \A q \in Processors : t \notin ToSet(threadQueue[q]) /\ t \notin ToSet(sleepQueue[q])
    BY <2>2 DEF IInv, QueueDiscipline, Asleep
  <2>5. PICK n \in Processors : processor' = [processor EXCEPT ![t] = n]
    BY <1>22 DEF IInv, TypeInv, TypeOK, KeCreateThread
  <2>6. /\ Execute(c, "KiSetThreadInReadyQueue", t)
        /\ UNCHANGED <<queues, currentThread, cpu, chosen, flags, remote, wakeups>>
    BY <1>22, <2>2 DEF KeCreateThread, KeSetStaticPriority
  <2>7. UNCHANGED <<queues, currentThread, cpu, chosen, flags, remote, wakeups>>
    BY <2>6
  <2>8. /\ pc'[c] = "Execute" /\ request'[c].thread = t
        /\ request'[c].routine = "KiSetThreadInReadyQueue"
        /\ \A u \in Threads \ {c} : pc'[u] = pc[u] /\ request'[u] = request[u]
    BY <2>6 DEF Execute, IInv, TypeInv, TypeOK
  <2>9. /\ \A q \in Processors : remoteExecute[q] # None => remoteExecute[q].thread # t
        /\ \A u \in Threads : pc[u] # "Body" => request[u].thread # t
    BY <2>1, <2>2 DEF IInv, PostsAreDue, RequestsAreStarts, Unplaced, Loose
  <2>10. \A u \in Threads : Asleep(u)' <=> Asleep(u)
    BY <2>2, <2>4, <2>5, <2>7, <1>b DEF Asleep
  <2>11. Unplaced(t)'
    BY <2>1, <2>2, <2>3, <2>5, <2>7, <2>10, <1>b DEF Unplaced, Loose, Parked, Relinked
  <2>12. \A u \in Threads \ {t} : processor'[u] = processor[u] /\ life'[u] = life[u]
    BY <2>1, <2>5, <1>b
  <2>13. \A u \in Threads : Unplaced(u) => Unplaced(u)'
    BY <2>1, <2>2, <2>3, <2>7, <2>8, <2>9, <2>10, <2>11, <2>12, <1>b DEF IInv, Unplaced, Loose, Parked, Relinked, PointsAreHome
  <2>14. \A u \in Threads : Posted(u)' => Posted(u)
    BY <2>1, <2>2, <2>3, <2>7, <2>8, <2>9, <2>10, <2>11, <2>12, <1>b DEF IInv, Posted
  <2>15. \A u \in Threads : (suspended[u] \/ Parked(u)) => (suspended[u] \/ Parked(u))'
    BY <2>1, <2>2, <2>3, <2>7, <2>8, <2>9, <2>10, <2>11, <2>12, <1>b DEF IInv, Parked, PointsAreHome, Loose
  <2>16. NoScBug0'
    BY <2>1, <2>2, <2>3, <2>7, <2>8, <2>9, <2>10, <2>11, <2>12, <1>b DEF IInv, NoScBug0
  <2>17. QueueDiscipline'
    BY <2>1, <2>2, <2>3, <2>7, <2>8, <2>9, <2>10, <2>11, <2>12, <1>b, <2>4,<2>5 DEF IInv, QueueDiscipline
  <2>18. CurrentIsReady'
    BY <2>1, <2>2, <2>3, <2>7, <2>8, <2>9, <2>10, <2>11, <2>12, <1>b DEF IInv, CurrentIsReady
  <2>19. PointsAreHome'
    BY <2>1, <2>2, <2>3, <2>7, <2>8, <2>9, <2>10, <2>11, <2>12, <1>b DEF IInv, PointsAreHome, Loose
  <2>20. FlagsExclude'
    BY <2>1, <2>2, <2>3, <2>7, <2>8, <2>9, <2>10, <2>11, <2>12, <1>b DEF IInv, FlagsExclude
  <2>21. RequestsAreStarts'
    BY <2>1, <2>2, <2>3, <2>7, <2>8, <2>9, <2>10, <2>11, <2>12, <1>b, <1>0, <2>13 DEF IInv, RequestsAreStarts
  <2>22. PostsAreDue'
    BY <2>1, <2>2, <2>3, <2>7, <2>8, <2>9, <2>10, <2>11, <2>12, <1>b, <1>0, <2>13 DEF IInv, PostsAreDue
  <2>23. StartsOnce'
    <3>1. ASSUME NEW u \in Threads, NEW w \in Threads, pc'[u] # "Body", request'[u].thread = w
          PROVE  ~Posted(w)'
      <4>1. CASE u = c
        BY <3>1, <4>1, <2>8, <2>9, <2>14 DEF Posted, IInv, TypeInv, TypeOK
      <4>2. CASE u # c
        BY <3>1, <4>2, <2>8, <2>14 DEF IInv, StartsOnce
      <4>3. QED BY <4>1, <4>2
    <3>2. ASSUME NEW u \in Threads, NEW v \in Threads, pc'[u] # "Body", pc'[v] # "Body",
                 request'[v].thread = request'[u].thread
          PROVE  v = u
      <4>1. CASE u = c \/ v = c
        BY <3>2, <4>1, <2>8, <2>9
      <4>2. CASE u # c /\ v # c
        BY <3>2, <4>2, <2>8 DEF IInv, StartsOnce
      <4>3. QED BY <4>1, <4>2
    <3>3. \A u \in Threads : pc'[u] # "Body" => request'[u].thread \in Threads
      BY <2>8, <1>0
    <3>4. \A u, v \in Threads :
             pc'[u] # "Body" /\ pc'[v] # "Body" /\ request'[v].thread = request'[u].thread => v = u
      BY <3>2
    <3>5. QED BY <3>1, <3>3, <3>4 DEF StartsOnce
  <2>24. OwedAreSuspended'
    BY <2>1, <2>2, <2>3, <2>7, <2>8, <2>9, <2>10, <2>11, <2>12, <1>b, <2>15 DEF IInv, OwedAreSuspended
  <2>25. OwedOnce'
    BY <2>1, <2>2, <2>3, <2>7, <2>8, <2>9, <2>10, <2>11, <2>12, <1>b, <2>14 DEF IInv, OwedOnce
  <2>26. QED BY <2>16, <2>17, <2>18, <2>19, <2>20, <2>21, <2>22, <2>23, <2>24, <2>25 DEF IInv
<1>23. ASSUME NEW p \in Processors, NEW t \in Threads, Call(p, t)
       PROVE  \/ Sleep(p, t) \/ KeSuspendThread(p, t) \/ KeExitThread(p, t)
              \/ \E s \in StaticPriorities : KeSetOwnPriority(p, t, s)
              \/ \E u \in Threads, s \in StaticPriorities : KeCreateThread(p, t, u, s)
  BY <1>23 DEF Call, DriverWorkload, KeSetPriority, KeResumeThread, Calling
<1>24. ASSUME NEW p \in Processors, NEW t \in Threads, Call(p, t)
       PROVE  IInv'
  BY <1>18, <1>19, <1>20, <1>21, <1>22, <1>23, <1>24
<1>25. ASSUME NEW p \in Processors, Kernel(p) \/ Interrupt(p)
       PROVE  IInv'
  BY <1>2, <1>3, <1>4, <1>8, <1>11, <1>12, <1>13, <1>14, <1>15, <1>25
  DEF Kernel, Scheduling, Interrupt
<1>26. ASSUME NEW p \in Processors, NEW t \in Threads, Pending(p, t)
       PROVE  IInv'
  BY <1>6, <1>7, <1>17, <1>26 DEF Pending
<1>27. QED
  BY <1>1, <1>5, <1>9, <1>10, <1>16, <1>24, <1>25, <1>26 DEF Next

\* At start nothing is asleep, suspended or posted: the invariant holds.
LEMMA SafeInit == Init => IInv
<1> SUFFICES ASSUME Init PROVE IInv
  OBVIOUS
<1>1. TypeInv
  BY TypeInit DEF TypeInv, Init
<1>2. /\ \A t \in Threads : /\ ready[t] <=> t \in BootThreads
                            /\ life[t] = IF t \in BootThreads THEN "live" ELSE "free"
                            /\ t \in BootThreads => t \in ToSet(BootQueue[processor[t]])
      /\ \A t \in Threads : ~suspended[t] /\ ~waiting[t] /\ pc[t] = "Body"
      /\ \A p \in Processors : /\ threadQueue[p] = BootQueue[p] /\ sleepQueue[p] = <<>>
                               /\ cpu[p] = "Schedule" /\ remoteExecute[p] = None
                               /\ completed[p] = {}
      /\ processor \in [Threads -> Processors]
  BY DEF Init
<1>3. ToSet(<<>>) = {} /\ IsInjective(<<>>)
  BY DEF ToSet, IsInjective
<1>4. ASSUME NEW t \in Threads PROVE ~Asleep(t)
  BY <1>2, <1>3 DEF Asleep
<1>5. QueueDiscipline
  <2>1. ASSUME NEW p \in Processors, NEW t \in ToSet(BootQueue[p])
        PROVE  t \in Threads /\ t \in BootThreads /\ processor[t] = p
    <3>1. t \in Threads
      BY BootQueueAssumption, QueueMembers
    <3>2. t \in BootThreads
      BY DEF BootThreads
    <3>3. t \in ToSet(BootQueue[processor[t]]) /\ processor[t] \in Processors
      BY <1>2, <3>1, <3>2
    <3>4. QED BY <3>1, <3>2, <3>3, BootQueueAssumption
  <2>2. QED BY <1>2, <1>3, <2>1, BootQueueAssumption DEF QueueDiscipline
<1>6. NoScBug0 /\ CurrentIsReady /\ PointsAreHome
  BY <1>2 DEF NoScBug0, CurrentIsReady, PointsAreHome
<1>7. FlagsExclude
  BY <1>2, <1>4 DEF FlagsExclude
<1>8. RequestsAreStarts /\ PostsAreDue /\ StartsOnce
  BY <1>2 DEF RequestsAreStarts, PostsAreDue, StartsOnce
<1>9. OwedAreSuspended /\ OwedOnce
  BY <1>2 DEF OwedAreSuspended, OwedOnce
<1>10. QED BY <1>1, <1>5, <1>6, <1>7, <1>8, <1>9 DEF IInv

\* The inductive invariant holds of every number of processors and threads.
THEOREM InductiveInvariant == DriverWorkload => (Spec => []IInv)
<1> SUFFICES ASSUME DriverWorkload PROVE Spec => []IInv
  OBVIOUS
<1>1. IInv => TypeInv
  BY DEF IInv
<1>2. IInv /\ [Next]_vars => IInv'
  BY <1>1, TypeNext, SafeNext
<1>3. QED BY <1>2, SafeInit, PTL DEF Spec

\* Threads that create threads, sleep, suspend themselves and exit, on any
\* number of processors, never fail one of the checks of the queue operations.
THEOREM NeverScBug0 == DriverWorkload => (Spec => []NoScBug0)
<1>1. IInv => NoScBug0
  BY DEF IInv
<1>2. QED BY <1>1, InductiveInvariant, PTL

\* The READY bits agree with the ready queues, and no queue holds a thread of
\* another processor or a thread twice.
THEOREM QueuesDisciplined == DriverWorkload => (Spec => []QueueDiscipline)
<1>1. IInv => QueueDiscipline
  BY DEF IInv
<1>2. QED BY <1>1, InductiveInvariant, PTL

\* A processor that takes interrupts idles or runs a ready thread of its own.
THEOREM CurrentThreadReady == DriverWorkload => (Spec => []CurrentIsReady)
<1>1. IInv => CurrentIsReady
  BY DEF IInv
<1>2. QED BY <1>1, InductiveInvariant, PTL
------------------------------------------------------------------------------
(* The scheduler's queues implement ThreadLists, for any number of processors *)
(* and threads of the driver workload.                                        *)

\* No queue changes.
Untouched == UNCHANGED <<threadQueue, sleepQueue>>

\* The thread t joins the ready queue of its processor, and was in none.
Joins(t) ==
  /\ threadQueue' = [threadQueue EXCEPT ![processor[t]] = Append(@, t)]
  /\ UNCHANGED sleepQueue
  /\ \A p \in Processors : t \notin ToSet(threadQueue[p]) \cup ToSet(sleepQueue[p])

\* The thread t leaves the ready queue of p.
Leaves(p, t) == ScUnlinkReadyThread(p, t) /\ UNCHANGED sleepQueue

\* The thread t goes from one queue of p to the other.
Dozes(p, t) ==
  /\ ScUnlinkReadyThread(p, t)
  /\ sleepQueue' = [sleepQueue EXCEPT ![p] = Append(@, t)]

Rises(p, i) ==
  /\ i \in DOMAIN sleepQueue[p]
  /\ sleepQueue' = [sleepQueue EXCEPT ![p] = RemoveAt(@, i)]
  /\ threadQueue' = [threadQueue EXCEPT ![p] = Append(@, sleepQueue[p][i])]

Moves ==
  \/ Untouched
  \/ \E t \in Threads : Joins(t)
  \/ \E p \in Processors, t \in Threads : Leaves(p, t) \/ Dozes(p, t)
  \/ \E p \in Processors : \E i \in DOMAIN sleepQueue[p] : Rises(p, i)

\* A thread that is not READY and not asleep is in no queue.
LEMMA InNoQueue ==
  ASSUME IInv, NEW t \in Threads, ~ready[t], ~Asleep(t)
  PROVE  \A p \in Processors : t \notin ToSet(threadQueue[p]) \cup ToSet(sleepQueue[p])
BY DEF IInv, QueueDiscipline, Asleep

\* Linking a thread that is nowhere is the only thing a routine does to a queue.
LEMMA RoutineMoves ==
  ASSUME IInv, NEW p \in Processors, NEW r, r.thread \in Threads, NEW m,
         Loose(r.thread) \/ suspended[r.thread], RunRoutine(p, r, m)
  PROVE  Moves
<1>1. CASE ready[r.thread]
  BY <1>1 DEF RunRoutine, ScBug0, queues, Moves, Untouched
<1>2. CASE ~ready[r.thread]
  <2>1. ~Asleep(r.thread)
    BY DEF Loose, IInv, FlagsExclude
  <2>2. Joins(r.thread)
    BY <1>2, <2>1, InNoQueue DEF Joins, RunRoutine
  <2>3. QED BY <2>2 DEF Moves
<1>3. QED BY <1>1, <1>2

\* Every step of the system moves at most one thread, in one of these ways.
LEMMA StepMoves == DriverWorkload /\ IInv /\ [Next]_vars => Moves
<1> SUFFICES ASSUME DriverWorkload, IInv, [Next]_vars PROVE Moves
  OBVIOUS
<1>0. /\ \A p \in Processors : cpu[p] \in {"Link", "Resume"} => chosen[p] \in Threads
      /\ \A u \in Threads : pc[u] # "Body" => request[u].thread \in Threads
      /\ \A p \in Processors : remoteExecute[p] # None => remoteExecute[p].thread \in Threads
  BY DEF IInv, TypeInv, TypeOK, Requests
<1>1. CASE UNCHANGED vars
  BY <1>1 DEF vars, queues, Moves, Untouched
<1>2. ASSUME NEW p \in Processors,
             \/ TimerInterrupt(p) \/ ScheduleIdle(p) \/ SetSuspended(p)
             \/ IrqExit(p) \/ IrqResumeRemote(p)
             \/ \E t \in Threads : IrqComplete(p, t)
             \/ \E done \in SUBSET Threads : NosIrqHandler(p, done)
      PROVE  Moves
  BY <1>2 DEF TimerInterrupt, ScheduleIdle, SetSuspended, IrqExit, IrqResumeRemote, IrqComplete,
              NosIrqHandler, queues, Moves, Untouched
<1>3. ASSUME NEW p \in Processors, ScheduleSleeper(p)
      PROVE  Moves
  <2>1. PICK i \in DOMAIN sleepQueue[p] : WakeSleeper(p, i)
    BY <1>3 DEF ScheduleSleeper
  <2>2. CASE ready[sleepQueue[p][i]]
    BY <2>1, <2>2 DEF WakeSleeper, ScBug0, queues, Moves, Untouched
  <2>3. CASE ~ready[sleepQueue[p][i]]
    <3>1. Rises(p, i)
      BY <2>1, <2>3 DEF WakeSleeper, Rises
    <3>2. QED BY <3>1 DEF Moves
  <2>4. QED BY <2>2, <2>3
<1>4. ASSUME NEW p \in Processors, ScheduleReady(p)
      PROVE  Moves
  <2>1. PICK t \in ToSet(threadQueue[p]) : ScUnlinkReadyThread(p, t)
    BY <1>4 DEF ScheduleReady
  <2>2. t \in Threads
    BY QueueMembers DEF IInv, TypeInv, TypeOK
  <2>3. Leaves(p, t)
    BY <1>4, <2>1 DEF ScheduleReady, Leaves
  <2>4. QED BY <2>2, <2>3 DEF Moves
<1>5. ASSUME NEW p \in Processors, LinkChosen(p)
      PROVE  Moves
  <2>1. /\ chosen[p] \in Threads /\ Loose(chosen[p])
        /\ ScLinkReadyThreadBottom(p, chosen[p], "Run")
    BY <1>0, <1>5 DEF LinkChosen, IInv, PointsAreHome
  <2>2. Joins(chosen[p])
    BY <2>1, InNoQueue DEF Loose, Joins, ScLinkReadyThreadBottom
  <2>3. QED BY <2>1, <2>2 DEF Moves
<1>6. ASSUME NEW p \in Processors, IrqResumeLocal(p)
      PROVE  Moves
  <2> DEFINE r == [routine |-> "KiThreadResumeRoutine", thread |-> chosen[p]]
  <2>1. r.thread \in Threads /\ suspended[r.thread] /\ RunRoutine(p, r, "Irq")
    BY <1>0, <1>6 DEF IrqResumeLocal
  <2> HIDE DEF r
  <2>2. QED BY <2>1, RoutineMoves
<1>7. ASSUME NEW p \in Processors, KiRemoteExecuteHandler(p)
      PROVE  Moves
  <2>1. /\ remoteExecute[p].thread \in Threads
        /\ Loose(remoteExecute[p].thread) \/ suspended[remoteExecute[p].thread]
        /\ RunRoutine(p, remoteExecute[p], "Schedule")
    BY <1>0, <1>7 DEF KiRemoteExecuteHandler, IInv, PostsAreDue, Unplaced
  <2>2. QED BY <2>1, RoutineMoves
<1>8. ASSUME NEW p \in Processors, NEW t \in Threads, Pending(p, t)
      PROVE  Moves
  <2>1. CASE ExecuteLocally(p, t)
    <3>1. /\ request[t].thread \in Threads /\ Loose(request[t].thread)
          /\ RunRoutine(p, request[t], "Run")
      BY <1>0, <2>1 DEF ExecuteLocally, IInv, RequestsAreStarts, Unplaced
    <3>2. QED BY <3>1, RoutineMoves
  <2>2. CASE AcquireProcessorControl(p, t) \/ KeRemoteExecute(p, t)
    BY <2>2 DEF AcquireProcessorControl, KeRemoteExecute, queues, Moves, Untouched
  <2>3. QED BY <1>8, <2>1, <2>2 DEF Pending
<1>9. ASSUME NEW p \in Processors, NEW t \in Threads, Call(p, t)
      PROVE  Moves
  <2>1. CASE Sleep(p, t)
    <3>1. Dozes(p, t)
      BY <2>1 DEF Sleep, Dozes
    <3>2. QED BY <3>1 DEF Moves
  <2>2. CASE KeSuspendThread(p, t) \/ KeExitThread(p, t)
    <3>1. Leaves(p, t)
      BY <2>2 DEF KeSuspendThread, KeExitThread, Leaves
    <3>2. QED BY <3>1 DEF Moves
  <2>3. CASE \/ \E s \in StaticPriorities : KeSetOwnPriority(p, t, s)
             \/ \E u \in Threads, s \in StaticPriorities : KeCreateThread(p, t, u, s)
             \/ \E u \in Threads, s \in StaticPriorities : KeSetPriority(p, t, u, s)
             \/ \E u \in Threads : KeResumeThread(p, t, u)
    BY <2>3 DEF KeSetOwnPriority, KeCreateThread, KeSetPriority, KeResumeThread, queues, Moves,
                Untouched
  <2>4. QED BY <1>9, <2>1, <2>2, <2>3 DEF Call
<1>10. ASSUME NEW t \in Threads, KeTimerTick(t)
       PROVE  Moves
  BY <1>10 DEF KeTimerTick, queues, Moves, Untouched
<1>11. QED
  BY <1>1, <1>2, <1>3, <1>4, <1>5, <1>6, <1>7, <1>8, <1>9, <1>10
  DEF Next, Kernel, Scheduling, Interrupt

\* Each of these moves is a step of the lists.
LEMMA MovesAreListSteps ==
  ASSUME TypeOK, Moves
  PROVE  Lists!Next \/ UNCHANGED <<threadQueue, sleepQueue>>
<1>0. processor \in [Threads -> Processors] /\ sleepQueue \in [Processors -> Seq(Threads)]
  BY DEF TypeOK
<1>1. CASE Untouched
  BY <1>1 DEF Untouched
<1>2. ASSUME NEW t \in Threads, Joins(t)
      PROVE  Lists!Next
  <2>1. Lists!Link(processor[t], t)
    BY <1>2 DEF Joins, Lists!Link, Lists!With, Lists!Queued, ToSet, Lists!ToSet
  <2>2. QED BY <1>0, <2>1 DEF Lists!Next
<1>3. ASSUME NEW p \in Processors, NEW t \in Threads, Leaves(p, t)
      PROVE  Lists!Next
  <2>1. Lists!Unlink(p, t)
    BY <1>3 DEF Leaves, ScUnlinkReadyThread, Lists!Unlink, Lists!Without,
                RemoveAt, Lists!RemoveAt
  <2>2. QED BY <2>1 DEF Lists!Next
<1>4. ASSUME NEW p \in Processors, NEW t \in Threads, Dozes(p, t)
      PROVE  Lists!Next
  <2>1. Lists!FallAsleep(p, t)
    BY <1>4 DEF Dozes, ScUnlinkReadyThread, Lists!FallAsleep, Lists!Without, Lists!With,
                RemoveAt, Lists!RemoveAt
  <2>2. QED BY <2>1 DEF Lists!Next
<1>5. ASSUME NEW p \in Processors, NEW i \in DOMAIN sleepQueue[p], Rises(p, i)
      PROVE  Lists!Next
  <2>1. sleepQueue[p][i] \in Threads
    BY <1>0
  <2>2. Lists!Wake(p, sleepQueue[p][i])
    BY <1>5 DEF Rises, Lists!Wake, Lists!Without, Lists!With,
                RemoveAt, Lists!RemoveAt
  <2>3. QED BY <2>1, <2>2 DEF Lists!Next
<1>6. QED BY <1>1, <1>2, <1>3, <1>4, <1>5 DEF Moves

\* The queues of every processor keep what ThreadLists promises, on any number
\* of processors, for threads that behave like drivers.
THEOREM SchedulerImplementsLists == DriverWorkload => (Spec => QueuesImplementLists)
<1> SUFFICES ASSUME DriverWorkload PROVE Spec => QueuesImplementLists
  OBVIOUS
<1>1. Init => Lists!Init
  <2>1. ASSUME NEW s PROVE Lists!ToSet(s) = ToSet(s) /\ (Lists!IsInjective(s) <=> IsInjective(s))
    BY DEF ToSet, Lists!ToSet, IsInjective, Lists!IsInjective
  <2>2. Init => threadQueue = BootQueue /\ sleepQueue = [p \in Processors |-> <<>>]
    BY DEF Init
  <2>3. QED BY <2>1, <2>2, BootQueueAssumption DEF Lists!Init
<1>2. IInv /\ [Next]_vars => [Lists!Next]_<<threadQueue, sleepQueue>>
  BY StepMoves, MovesAreListSteps DEF IInv, TypeInv
<1>3. QED BY <1>1, <1>2, InductiveInvariant, PTL DEF Spec, QueuesImplementLists, Lists!Spec
-------------------------------------------------------------------------------
(* A live thread is in one place, one party owes a suspended thread its       *)
(* resumption and one owns a processor's execute bit.                          *)

\* What the proofs below use of the types.
LEMMA StateFacts ==
  ASSUME IInv
  PROVE  /\ cpu \in [Processors -> Modes] /\ chosen \in [Processors -> Threads \cup {None}]
         /\ currentThread \in [Processors -> Threads \cup {Idle}]
         /\ ready \in [Threads -> BOOLEAN] /\ suspended \in [Threads -> BOOLEAN]
         /\ life \in [Threads -> {"free", "live", "exited"}]
         /\ processor \in [Threads -> Processors]
         /\ waiting \in [Threads -> BOOLEAN] /\ completed \in [Processors -> SUBSET Threads]
         /\ pc \in [Threads -> {"Body", "Execute", "Post"}]
         /\ request \in [Threads -> Requests \cup {None}]
         /\ control \in [Processors -> BOOLEAN]
         /\ remoteExecute \in [Processors -> Requests \cup {None}]
         /\ \A q \in Processors : cpu[q] \in {"Link", "Resume"} => chosen[q] \in Threads
         /\ \A u \in Threads : pc[u] # "Body" =>
              /\ request[u] = StartOf(request[u].thread) /\ request[u] # None
              /\ request[u].thread \in Threads /\ life[request[u].thread] = "live"
         /\ \A p \in Processors : remoteExecute[p] # None => remoteExecute[p].thread \in Threads
         /\ \A p \in Processors : cpu[p] # "SC_BUG0"
<1>1. /\ TypeInv /\ NoScBug0 /\ RequestsAreStarts
  BY DEF IInv
<1>2. \A u \in Threads : pc[u] # "Body" =>
              /\ request[u] = StartOf(request[u].thread)
              /\ request[u].thread \in Threads /\ life[request[u].thread] = "live"
  BY <1>1 DEF TypeInv, TypeOK, Requests, RequestsAreStarts, StartOf, Unplaced, Loose
<1>3. \A p \in Processors : remoteExecute[p] # None => remoteExecute[p].thread \in Threads
  BY <1>1 DEF TypeInv, TypeOK, Requests
<1>4. \A u \in Threads : pc[u] # "Body" => request[u] # None
  BY <1>1, NoneAssumption DEF TypeInv
<1>5. QED BY <1>1, <1>2, <1>3, <1>4 DEF TypeInv, TypeOK, NoScBug0

-------------------------------------------------------------------------------
(* The execute bit.                                                           *)

protocolState == <<pc, request, control, remoteExecute, processor>>

\* The steps of the protocol. All others leave alone what it is about.
CallOrPost(p, t) ==
  \/ ExecuteLocally(p, t) \/ AcquireProcessorControl(p, t) \/ KeRemoteExecute(p, t)
  \/ \E s \in StaticPriorities : KeSetOwnPriority(p, t, s)
  \/ \E u \in Threads, s \in StaticPriorities : KeCreateThread(p, t, u, s)

\* Every other step leaves requests, execute bits and blocks as they are.
LEMMA OtherStepsKeepProtocol ==
  ASSUME DriverWorkload, [Next]_vars
  PROVE  \/ \E p \in Processors, t \in Threads : CallOrPost(p, t)
         \/ \E p \in Processors : KiRemoteExecuteHandler(p) \/ IrqResumeRemote(p)
         \/ UNCHANGED protocolState
<1> USE DEF queues, flags, priorities, births, calls, remote, wakeups, protocolState
<1>1. CASE UNCHANGED vars
  BY <1>1 DEF vars
<1>2. ASSUME NEW p \in Processors, Kernel(p) \/ TimerInterrupt(p)
      PROVE  UNCHANGED protocolState
  BY <1>2 DEF Kernel, Scheduling, ScheduleSleeper, ScheduleIdle, ScheduleReady, LinkChosen,
              SetSuspended, TimerInterrupt
<1>3. ASSUME NEW p \in Processors, Interrupt(p)
      PROVE  IrqResumeRemote(p) \/ UNCHANGED protocolState
  BY <1>3 DEF Interrupt, IrqExit, IrqResumeLocal, IrqComplete
<1>4. ASSUME NEW p \in Processors, NEW done \in SUBSET Threads, NosIrqHandler(p, done)
      PROVE  UNCHANGED protocolState
  BY <1>4 DEF NosIrqHandler
<1>5. ASSUME NEW p \in Processors, NEW t \in Threads, Pending(p, t)
      PROVE  CallOrPost(p, t)
  BY <1>5 DEF Pending, CallOrPost
<1>6. ASSUME NEW p \in Processors, NEW t \in Threads, Call(p, t)
      PROVE  CallOrPost(p, t) \/ UNCHANGED protocolState
  <2>1. CASE Sleep(p, t) \/ KeSuspendThread(p, t) \/ KeExitThread(p, t)
    BY <2>1 DEF Sleep, KeSuspendThread, KeExitThread
  <2>2. CASE \E u \in Threads, s \in StaticPriorities : KeSetPriority(p, t, u, s)
    BY <2>2 DEF DriverWorkload, KeSetPriority, Calling
  <2>3. CASE \E u \in Threads : KeResumeThread(p, t, u)
    BY <2>3 DEF DriverWorkload, KeResumeThread, Calling
  <2>4. QED BY <1>6, <2>1, <2>2, <2>3 DEF Call, CallOrPost
<1>7. ASSUME NEW t \in Threads, KeTimerTick(t)
      PROVE  UNCHANGED protocolState
  BY <1>7 DEF KeTimerTick
<1>8. QED BY <1>1, <1>2, <1>3, <1>4, <1>5, <1>6, <1>7 DEF Next

\* Every request that is made is kept until it has been executed or posted.
LEMMA RequestsDoneNext ==
  ASSUME DriverWorkload, IInv, RequestsAreDone, [Next]_vars
  PROVE  RequestsAreDone'
<1>1. request \in [Threads -> Requests \cup {None}] /\ pc \in [Threads -> {"Body", "Execute", "Post"}]
  BY StateFacts
<1>2. ASSUME NEW p \in Processors, NEW t \in Threads, CallOrPost(p, t)
      PROVE  RequestsAreDone'
  BY <1>1, <1>2 DEF CallOrPost, RequestsAreDone, ExecuteLocally, AcquireProcessorControl,
                    KeRemoteExecute, KeSetOwnPriority, KeCreateThread, KeSetStaticPriority,
                    Execute, calls
<1>3. ASSUME NEW p \in Processors, KiRemoteExecuteHandler(p) \/ IrqResumeRemote(p)
      PROVE  RequestsAreDone'
  BY <1>3 DEF RequestsAreDone, KiRemoteExecuteHandler, IrqResumeRemote, calls
<1>4. CASE UNCHANGED protocolState
  BY <1>4 DEF protocolState, RequestsAreDone
<1>5. QED BY <1>2, <1>3, <1>4, OtherStepsKeepProtocol

\* Posting is about the threads at "Post" and their requests, whose threads have
\* a processor that does not change.
LEMMA BitOwnedNext ==
  ASSUME DriverWorkload, IInv, BitOwned, [Next]_vars
  PROVE  BitOwned'
<1> USE StateFacts DEF calls, remote, births
<1>1. ASSUME NEW p \in Processors, NEW t \in Threads, AcquireProcessorControl(p, t)
      PROVE  BitOwned'
  <2>1. PICK q \in Processors : q = processor[request[t].thread]
    BY <1>1 DEF AcquireProcessorControl
  <2>2. /\ pc[t] = "Execute" /\ ~control[q]
        /\ pc' = [pc EXCEPT ![t] = "Post"] /\ control' = [control EXCEPT ![q] = TRUE]
        /\ UNCHANGED <<request, processor, remoteExecute>>
    BY <1>1, <2>1 DEF AcquireProcessorControl
  <2>3. Posting(q) = {} /\ remoteExecute[q] = None
    BY <2>2 DEF BitOwned
  <2>4. \A r \in Processors : Posting(r)' = IF r = q THEN {t} ELSE Posting(r)
    BY <2>1, <2>2, <2>3 DEF Posting
  <2>5. control'[q] /\ \A r \in Processors \ {q} : control'[r] = control[r]
    BY <2>2
  <2>6. \A r \in Processors : remoteExecute'[r] # None => control'[r]
    BY <2>2, <2>3, <2>5 DEF BitOwned
  <2>7. ASSUME NEW r \in Processors, NEW u \in Posting(r)'
        PROVE  control'[r] /\ remoteExecute'[r] = None /\ \A v \in Posting(r)' : v = u
    <3>1. CASE r = q
      BY <2>2, <2>3, <2>4, <2>5, <3>1
    <3>2. CASE r # q
      BY <2>2, <2>4, <2>5, <3>2 DEF BitOwned
    <3>3. QED BY <3>1, <3>2
  <2>8. ASSUME NEW r \in Processors, control'[r]
        PROVE  remoteExecute'[r] # None \/ Posting(r)' # {}
    <3>1. CASE r = q
      BY <2>4, <3>1
    <3>2. CASE r # q
      BY <2>2, <2>4, <2>5, <2>8, <3>2 DEF BitOwned
    <3>3. QED BY <3>1, <3>2
  <2>9. QED BY <2>6, <2>7, <2>8 DEF BitOwned
<1>2. ASSUME NEW p \in Processors, NEW t \in Threads, KeRemoteExecute(p, t)
      PROVE  BitOwned'
  <2> DEFINE q == processor[request[t].thread]
  <2>1. /\ pc[t] = "Post" /\ q \in Processors /\ request[t] # None /\ t \in Posting(q)
        /\ pc' = [pc EXCEPT ![t] = "Body"] /\ request' = [request EXCEPT ![t] = None]
        /\ remoteExecute' = [remoteExecute EXCEPT ![q] = request[t]]
        /\ UNCHANGED <<control, processor>>
    BY <1>2 DEF KeRemoteExecute, Posting
  <2>2. \A r \in Processors : Posting(r)' = Posting(r) \ {t}
    BY <2>1 DEF Posting
  <2>3. Posting(q) = {t} /\ control[q]
    BY <2>1 DEF BitOwned
  <2>4. \A r \in Processors : r # q => t \notin Posting(r)
    BY DEF Posting
  <2> HIDE DEF q
  <2>5. QED BY <2>1, <2>2, <2>3, <2>4 DEF BitOwned
<1>3. ASSUME NEW p \in Processors, KiRemoteExecuteHandler(p)
      PROVE  BitOwned'
  <2>1. /\ remoteExecute[p] # None
        /\ control' = [control EXCEPT ![p] = FALSE]
        /\ remoteExecute' = [remoteExecute EXCEPT ![p] = None]
        /\ UNCHANGED <<pc, request, processor>>
    BY <1>3 DEF KiRemoteExecuteHandler
  <2>2. \A r \in Processors : Posting(r)' = Posting(r)
    BY <2>1 DEF Posting
  <2>3. Posting(p) = {}
    BY <2>1 DEF BitOwned
  <2>4. QED BY <2>1, <2>2, <2>3 DEF BitOwned
<1>4. ASSUME NEW p \in Processors, IrqResumeRemote(p)
      PROVE  BitOwned'
  <2> DEFINE q == processor[chosen[p]]
  <2>1. /\ q \in Processors /\ ~control[q] /\ chosen[p] \in Threads
        /\ control' = [control EXCEPT ![q] = TRUE]
        /\ remoteExecute' = [remoteExecute EXCEPT ![q] = ResumptionOf(chosen[p])]
        /\ UNCHANGED <<pc, request, processor>>
    BY <1>4 DEF IrqResumeRemote, ResumptionOf
  <2>2. ResumptionOf(chosen[p]) # None
    BY <2>1, NoneAssumption DEF ResumptionOf, Requests, Routines
  <2>3. \A r \in Processors : Posting(r)' = Posting(r)
    BY <2>1 DEF Posting
  <2>4. Posting(q) = {}
    BY <2>1 DEF BitOwned
  <2> HIDE DEF q
  <2>5. QED BY <2>1, <2>2, <2>3, <2>4 DEF BitOwned
<1>5. ASSUME NEW p \in Processors, NEW t \in Threads, ExecuteLocally(p, t)
      PROVE  BitOwned'
  <2>1. /\ pc[t] = "Execute"
        /\ pc' = [pc EXCEPT ![t] = "Body"] /\ request' = [request EXCEPT ![t] = None]
        /\ UNCHANGED <<processor, control, remoteExecute>>
    BY <1>5 DEF ExecuteLocally
  <2>2. \A r \in Processors : Posting(r)' = Posting(r)
    BY <2>1 DEF Posting
  <2>3. QED BY <2>1, <2>2 DEF BitOwned
<1>6. ASSUME NEW p \in Processors, NEW t \in Threads,
             \/ \E s \in StaticPriorities : KeSetOwnPriority(p, t, s)
             \/ \E u \in Threads, s \in StaticPriorities : KeCreateThread(p, t, u, s)
      PROVE  BitOwned'
  <2>1. /\ pc[t] = "Body" /\ pc'[t] # "Post" /\ UNCHANGED <<control, remoteExecute>>
        /\ \A u \in Threads \ {t} : pc'[u] = pc[u] /\ request'[u] = request[u]
        /\ \A u \in Threads : life[u] = "live" => processor'[u] = processor[u]
    BY <1>6 DEF KeSetOwnPriority, KeCreateThread, KeSetStaticPriority, Execute, Calling
  <2>2. \A r \in Processors : Posting(r)' = Posting(r)
    BY <2>1 DEF Posting
  <2>3. QED BY <2>1, <2>2 DEF BitOwned
<1>7. CASE UNCHANGED protocolState
  <2>1. UNCHANGED <<pc, request, control, remoteExecute, processor>>
    BY <1>7 DEF protocolState
  <2>2. \A r \in Processors : Posting(r)' = Posting(r)
    BY <2>1 DEF Posting
  <2>3. QED BY <2>1, <2>2 DEF BitOwned
<1>8. QED BY <1>1, <1>2, <1>3, <1>4, <1>5, <1>6, <1>7, OtherStepsKeepProtocol DEF CallOrPost

-------------------------------------------------------------------------------
(* The resumption of a suspended thread.                                      *)

\* A routine that is run links its thread, which was not READY, and releases it
\* if it is the one that resumes.
LEMMA RoutineRuns ==
  ASSUME IInv, NoScBug0', NEW p \in Processors, NEW r, r.thread \in Threads,
         NEW m \in Modes, RunRoutine(p, r, m)
  PROVE  /\ ~ready[r.thread]
         /\ threadQueue' = [threadQueue EXCEPT ![processor[r.thread]] = Append(@, r.thread)]
         /\ ready' = [ready EXCEPT ![r.thread] = TRUE]
         /\ suspended' = IF r.routine = "KiThreadResumeRoutine"
                         THEN [suspended EXCEPT ![r.thread] = FALSE] ELSE suspended
         /\ cpu' = [cpu EXCEPT ![p] = m]
         /\ UNCHANGED sleepQueue
<1>1. CASE ready[r.thread]
  <2>1. cpu' = [cpu EXCEPT ![p] = "SC_BUG0"]
    BY <1>1 DEF RunRoutine, ScBug0, Goto
  <2>2. QED BY <2>1, StateFacts DEF NoScBug0
<1>2. CASE ~ready[r.thread]
  BY <1>2 DEF RunRoutine, Goto
<1>3. QED BY <1>1, <1>2

\* A processor leaves a handler when nothing completed is left to resume.
LEMMA HandlersFinishNext ==
  ASSUME IInv, NoScBug0', HandlersFinish, [Next]_vars
  PROVE  HandlersFinish'
<1> USE StateFacts DEF HandlersFinish, wakeups, Goto
<1>1. CASE UNCHANGED vars
  BY <1>1 DEF vars
<1>2. ASSUME NEW p \in Processors, Kernel(p) \/ TimerInterrupt(p)
      PROVE  HandlersFinish'
  <2>1. UNCHANGED completed /\ cpu[p] \notin {"Irq", "Resume"}
    BY <1>2 DEF Kernel, Scheduling, ScheduleSleeper, ScheduleIdle, ScheduleReady, LinkChosen,
                SetSuspended, TimerInterrupt
  <2>2. \A q \in Processors \ {p} : cpu'[q] = cpu[q]
    BY <1>2 DEF Kernel, Scheduling, ScheduleSleeper, WakeSleeper, ScheduleIdle, ScheduleReady,
                LinkChosen, ScLinkReadyThreadBottom, ScBug0, SetSuspended, TimerInterrupt
  <2>3. QED BY <2>1, <2>2
<1>3. ASSUME NEW p \in Processors, NEW t \in Threads, IrqComplete(p, t)
      PROVE  HandlersFinish'
  BY <1>3 DEF IrqComplete
<1>4. ASSUME NEW p \in Processors, IrqResumeLocal(p)
      PROVE  HandlersFinish'
  <2>1. cpu' = [cpu EXCEPT ![p] = "Irq"] /\ UNCHANGED completed
    BY <1>4, RoutineRuns DEF IrqResumeLocal, Modes
  <2>2. QED BY SMTT(30), <2>1
<1>5. ASSUME NEW p \in Processors, IrqResumeRemote(p) \/ IrqExit(p)
      PROVE  HandlersFinish'
  BY <1>5 DEF IrqResumeRemote, IrqExit
<1>6. ASSUME NEW p \in Processors, NEW done \in SUBSET Threads, NosIrqHandler(p, done)
      PROVE  HandlersFinish'
  BY <1>6 DEF NosIrqHandler
<1>7. ASSUME NEW p \in Processors, KiRemoteExecuteHandler(p)
      PROVE  HandlersFinish'
  BY SMTT(30), <1>7 DEF KiRemoteExecuteHandler, RunRoutine, ScBug0
<1>8. ASSUME NEW p \in Processors, NEW t \in Threads, Pending(p, t)
      PROVE  HandlersFinish'
  BY <1>8 DEF Pending, ExecuteLocally, RunRoutine, ScBug0, AcquireProcessorControl,
              KeRemoteExecute, Running
<1>9. ASSUME NEW p \in Processors, NEW t \in Threads, Call(p, t)
      PROVE  HandlersFinish'
  BY <1>9 DEF Call, Calling, Running, Sleep, KeSuspendThread, KeExitThread, KeSetOwnPriority,
              KeCreateThread, KeSetPriority, KeResumeThread
<1>10. ASSUME NEW t \in Threads, KeTimerTick(t)
      PROVE  HandlersFinish'
  BY <1>10 DEF KeTimerTick
<1>11. QED BY <1>1, <1>2, <1>3, <1>4, <1>5, <1>6, <1>7, <1>8, <1>9, <1>10 DEF Next, Interrupt

\* Nobody becomes suspended and no party forgets whom it owes.
SameDebts ==
  /\ \A u \in Threads : (suspended[u] \/ Parked(u))' => suspended[u] \/ Parked(u)
  /\ \A u \in Threads : Owes(u) => Owes(u)'

\* Who owes a thread its resumption hands it on, or has resumed it.
LEMMA OwedNext ==
  ASSUME DriverWorkload, IInv, NoScBug0', BitOwned, HandlersFinish, SuspendedAreOwed, [Next]_vars
  PROVE  SuspendedAreOwed'
<1> USE StateFacts DEF wakeups, remote, flags, queues, births, Goto
<1>0. SameDebts => SuspendedAreOwed'
  BY DEF SameDebts, SuspendedAreOwed
<1>1. CASE UNCHANGED vars
  BY <1>0, <1>1 DEF vars, SameDebts, Parked, Owes
<1>2. ASSUME NEW p \in Processors, Scheduling(p) \/ TimerInterrupt(p) \/ IrqExit(p)
      PROVE  SuspendedAreOwed'
  <2>1. /\ UNCHANGED <<waiting, completed, remoteExecute, processor>>
        /\ \A u \in Threads : suspended'[u] = suspended[u]
        /\ cpu[p] \in {"Schedule", "Link", "Run", "Irq"}
    BY <1>2 DEF Scheduling, ScheduleSleeper, WakeSleeper, ScheduleIdle, ScheduleReady, LinkChosen,
                ScBug0, ScLinkReadyThreadBottom, TimerInterrupt, IrqExit
  <2>2. /\ cpu'[p] \in {"Run", "Link", "Schedule", "SC_BUG0"}
        /\ \A q \in Processors \ {p} : cpu'[q] = cpu[q] /\ chosen'[q] = chosen[q]
                                       /\ currentThread'[q] = currentThread[q]
    BY <1>2 DEF Scheduling, ScheduleSleeper, WakeSleeper, ScheduleIdle, ScheduleReady, LinkChosen,
                ScBug0, ScLinkReadyThreadBottom, TimerInterrupt, IrqExit
  <2>3. \A u \in Threads : (suspended[u] \/ Parked(u))' => suspended[u] \/ Parked(u)
    BY <2>1, <2>2 DEF Parked
  <2>4. \A u \in Threads : Owes(u) => Owes(u)'
    BY <2>1, <2>2 DEF Owes
  <2>5. QED BY <1>0, <2>3, <2>4 DEF SameDebts
<1>3. ASSUME NEW p \in Processors, SetSuspended(p)
      PROVE  SuspendedAreOwed'
  <2>1. /\ UNCHANGED <<currentThread, chosen, processor, waiting, completed, remoteExecute>>
        /\ cpu[p] = "Suspend" /\ cpu' = [cpu EXCEPT ![p] = "Schedule"]
        /\ suspended' = [suspended EXCEPT ![currentThread[p]] = TRUE]
    BY <1>3 DEF SetSuspended
  <2>2. currentThread[p] \in Threads /\ Parked(currentThread[p])
    BY <2>1 DEF IInv, PointsAreHome, Parked
  <2>3. \A u \in Threads : (suspended[u] \/ Parked(u))' => suspended[u] \/ Parked(u)
    BY <2>1, <2>2 DEF Parked
  <2>4. \A u \in Threads : Owes(u) => Owes(u)'
    BY <2>1 DEF Owes
  <2>5. QED BY <1>0, <2>3, <2>4 DEF SameDebts
<1>4. ASSUME NEW p \in Processors, NEW t \in Threads, IrqComplete(p, t)
      PROVE  SuspendedAreOwed'
  <2>1. /\ UNCHANGED <<currentThread, processor, suspended, waiting, remoteExecute>>
        /\ cpu[p] = "Irq" /\ cpu' = [cpu EXCEPT ![p] = "Resume"]
        /\ chosen' = [chosen EXCEPT ![p] = t]
        /\ completed' = [completed EXCEPT ![p] = @ \ {t}]
    BY <1>4 DEF IrqComplete
  <2>2. \A u \in Threads : (suspended[u] \/ Parked(u))' => suspended[u] \/ Parked(u)
    BY <2>1 DEF Parked
  <2>3. \A u \in Threads : Owes(u) => Owes(u)'
    BY <2>1 DEF Owes
  <2>4. QED BY <1>0, <2>2, <2>3 DEF SameDebts
<1>5. ASSUME NEW p \in Processors, IrqResumeLocal(p)
      PROVE  SuspendedAreOwed'
  <2>1. PICK t \in Threads : t = chosen[p] /\ suspended[t] /\ processor[t] = p
    BY SMTT(30), <1>5 DEF IrqResumeLocal
  <2>2. /\ suspended' = [suspended EXCEPT ![t] = FALSE]
        /\ cpu' = [cpu EXCEPT ![p] = "Irq"]
    BY <1>5, <2>1, RoutineRuns DEF IrqResumeLocal, Modes
  <2>3. /\ UNCHANGED <<currentThread, processor, waiting, completed, remoteExecute>>
        /\ cpu[p] = "Resume" /\ chosen' = [chosen EXCEPT ![p] = None]
    BY <1>5 DEF IrqResumeLocal
  <2>4. \A u \in Threads : (suspended[u] \/ Parked(u))' => (suspended[u] \/ Parked(u)) /\ u # t
    BY <2>1, <2>2, <2>3 DEF Parked
  <2>5. \A u \in Threads : Owes(u) /\ u # t => Owes(u)'
    BY <2>1, <2>2, <2>3 DEF Owes
  <2>6. QED BY <2>4, <2>5 DEF SuspendedAreOwed
<1>6. ASSUME NEW p \in Processors, IrqResumeRemote(p)
      PROVE  SuspendedAreOwed'
  <2>1. PICK t \in Threads, q \in Processors : t = chosen[p] /\ q = processor[t]
    BY <1>6 DEF IrqResumeRemote
  <2>2. /\ UNCHANGED <<currentThread, processor, suspended, waiting, completed>>
        /\ cpu[p] = "Resume" /\ cpu' = [cpu EXCEPT ![p] = "Irq"]
        /\ chosen' = [chosen EXCEPT ![p] = None]
        /\ ~control[q] /\ remoteExecute' = [remoteExecute EXCEPT ![q] = ResumptionOf(t)]
    BY <1>6, <2>1 DEF IrqResumeRemote, ResumptionOf
  <2>3. \A u \in Threads : (suspended[u] \/ Parked(u))' => suspended[u] \/ Parked(u)
    BY <2>2 DEF Parked
  <2>4. remoteExecute[q] = None /\ \A u \in Threads : ResumptionOf(u) # None
    BY <2>2, NoneAssumption DEF BitOwned, ResumptionOf, Requests, Routines
  <2>5. \A u \in Threads : Owes(u) => Owes(u)'
    BY <2>1, <2>2, <2>4 DEF Owes
  <2>6. QED BY <1>0, <2>3, <2>5 DEF SameDebts
<1>7. ASSUME NEW p \in Processors, KiRemoteExecuteHandler(p)
      PROVE  SuspendedAreOwed'
  <2>1. PICK r \in Requests : r = remoteExecute[p] /\ r.thread \in Threads
    BY <1>7 DEF KiRemoteExecuteHandler
  <2>2. /\ cpu[p] = "Run" /\ processor[r.thread] = p
        /\ remoteExecute' = [remoteExecute EXCEPT ![p] = None]
        /\ UNCHANGED <<currentThread, processor, chosen, waiting, completed>>
    BY <1>7, <2>1 DEF KiRemoteExecuteHandler, IInv, PostsAreDue
  <2>3. /\ suspended' = IF r.routine = "KiThreadResumeRoutine"
                        THEN [suspended EXCEPT ![r.thread] = FALSE] ELSE suspended
        /\ cpu' = [cpu EXCEPT ![p] = "Schedule"]
    <3>1. RunRoutine(p, r, "Schedule")
      BY <1>7, <2>1 DEF KiRemoteExecuteHandler
    <3>2. QED BY <2>1, <3>1, RoutineRuns DEF Modes
  <2>4. \A u \in Threads : (suspended[u] \/ Parked(u))' =>
          (suspended[u] \/ Parked(u)) /\ (r.routine = "KiThreadResumeRoutine" => u # r.thread)
    BY <2>1, <2>2, <2>3 DEF Parked
  <2>5. \A u \in Threads : r # ResumptionOf(u) /\ Owes(u) => Owes(u)'
    BY <2>1, <2>2, <2>3 DEF Owes
  <2>6. \A u \in Threads : r = ResumptionOf(u) =>
          r.routine = "KiThreadResumeRoutine" /\ u = r.thread
    BY DEF ResumptionOf
  <2>7. QED BY <2>4, <2>5, <2>6 DEF SuspendedAreOwed
<1>8. ASSUME NEW p \in Processors, NEW done \in SUBSET Threads, NosIrqHandler(p, done)
      PROVE  SuspendedAreOwed'
  <2>1. /\ UNCHANGED <<currentThread, processor, chosen, suspended, remoteExecute>>
        /\ cpu[p] = "Run" /\ cpu' = [cpu EXCEPT ![p] = "Irq"]
        /\ waiting' = [t \in Threads |-> waiting[t] /\ t \notin done]
        /\ completed' = [completed EXCEPT ![p] = done]
    BY <1>8 DEF NosIrqHandler
  <2>2. completed[p] = {}
    BY <2>1 DEF HandlersFinish
  <2>3. \A u \in Threads : (suspended[u] \/ Parked(u))' => suspended[u] \/ Parked(u)
    BY <2>1 DEF Parked
  <2>4. /\ \A u \in Threads : waiting[u] => waiting'[u] \/ u \in completed'[p]
        /\ \A u \in Threads : \A q \in Processors : u \in completed[q] => u \in completed'[q]
        /\ \A u \in Threads : \A q \in Processors :
             cpu[q] = "Resume" /\ chosen[q] = u => cpu'[q] = "Resume" /\ chosen'[q] = u
    BY <2>1, <2>2
  <2>5. \A u \in Threads : Owes(u) => Owes(u)'
    BY <2>1, <2>4 DEF Owes
  <2>6. QED BY <1>0, <2>3, <2>5 DEF SameDebts
<1>9. ASSUME NEW p \in Processors, NEW t \in Threads, ExecuteLocally(p, t)
      PROVE  SuspendedAreOwed'
  <2>1. /\ request[t] = StartOf(request[t].thread) /\ request[t].thread \in Threads
        /\ RunRoutine(p, request[t], "Run")
        /\ UNCHANGED <<currentThread, processor, chosen, waiting, completed, remoteExecute>>
    BY <1>9 DEF ExecuteLocally
  <2>2. request[t].routine # "KiThreadResumeRoutine" /\ cpu[p] = "Run"
    BY SMTT(30), <1>9, <2>1 DEF StartOf, ExecuteLocally, Running
  <2>3. UNCHANGED suspended /\ cpu' = [cpu EXCEPT ![p] = "Run"]
    BY <2>1, <2>2, RoutineRuns DEF Modes
  <2>4. UNCHANGED cpu
    BY <2>2, <2>3
  <2>5. QED BY <1>0, <2>1, <2>3, <2>4 DEF SameDebts, Parked, Owes
<1>10. ASSUME NEW p \in Processors, NEW t \in Threads, AcquireProcessorControl(p, t)
      PROVE  SuspendedAreOwed'
  BY <1>0, <1>10 DEF AcquireProcessorControl, SameDebts, Parked, Owes
<1>11. ASSUME NEW p \in Processors, NEW t \in Threads, KeRemoteExecute(p, t)
      PROVE  SuspendedAreOwed'
  <2>1. PICK q \in Processors : q = processor[request[t].thread]
    BY <1>11 DEF KeRemoteExecute
  <2>2. /\ UNCHANGED <<currentThread, processor, chosen, cpu, suspended, waiting, completed>>
        /\ remoteExecute' = [remoteExecute EXCEPT ![q] = request[t]]
        /\ t \in Posting(q)
    BY <1>11, <2>1 DEF KeRemoteExecute, Posting
  <2>3. remoteExecute[q] = None /\ \A u \in Threads : ResumptionOf(u) # None
    BY <2>2, NoneAssumption DEF BitOwned, ResumptionOf, Requests, Routines
  <2>4. QED BY <1>0, <2>2, <2>3 DEF SameDebts, Parked, Owes
<1>12. ASSUME NEW p \in Processors, NEW t \in Threads, KeSuspendThread(p, t)
      PROVE  SuspendedAreOwed'
  <2>1. /\ UNCHANGED <<currentThread, processor, chosen, suspended, completed, remoteExecute>>
        /\ cpu[p] = "Run" /\ cpu' = [cpu EXCEPT ![p] = "Suspend"] /\ currentThread[p] = t
        /\ waiting' = [waiting EXCEPT ![t] = TRUE]
    BY <1>12 DEF KeSuspendThread, Calling, Running
  <2>2. \A u \in Threads : (suspended[u] \/ Parked(u))' => suspended[u] \/ Parked(u) \/ u = t
    BY <2>1 DEF Parked
  <2>3. \A u \in Threads : Owes(u) \/ u = t => Owes(u)'
    BY <2>1 DEF Owes
  <2>4. QED BY <2>2, <2>3 DEF SuspendedAreOwed
<1>13. ASSUME NEW p \in Processors, NEW t \in Threads, Sleep(p, t) \/ KeExitThread(p, t)
      PROVE  SuspendedAreOwed'
  <2>1. /\ UNCHANGED <<currentThread, processor, chosen, suspended, waiting, completed,
                       remoteExecute>>
        /\ cpu[p] = "Run" /\ \A q \in Processors \ {p} : cpu'[q] = cpu[q]
        /\ cpu'[p] \in {"Schedule", "Halt"}
    BY <1>13 DEF Sleep, KeExitThread, Calling, Running
  <2>2. QED BY <1>0, <2>1 DEF SameDebts, Parked, Owes
<1>14. ASSUME NEW p \in Processors, NEW t \in Threads,
             NEW s \in StaticPriorities, KeSetOwnPriority(p, t, s)
      PROVE  SuspendedAreOwed'
  BY <1>0, <1>14 DEF KeSetOwnPriority, SameDebts, Parked, Owes
<1>15. ASSUME NEW p \in Processors, NEW t \in Threads, NEW u \in Threads,
             NEW s \in StaticPriorities, KeCreateThread(p, t, u, s)
      PROVE  SuspendedAreOwed'
  <2>1. /\ UNCHANGED <<currentThread, chosen, cpu, suspended, waiting, completed, remoteExecute>>
        /\ life[u] = "free" /\ \A v \in Threads \ {u} : processor'[v] = processor[v]
        /\ processor' \in [Threads -> Processors]
    BY <1>15 DEF KeCreateThread, IInv, TypeInv, TypeOK
  <2>2. \A q \in Processors : cpu[q] = "Suspend" => currentThread[q] # u
    BY <2>1 DEF IInv, PointsAreHome, Loose
  <2>3. QED BY <1>0, <2>1, <2>2 DEF SameDebts, Parked, Owes
<1>16. ASSUME NEW t \in Threads, KeTimerTick(t)
      PROVE  SuspendedAreOwed'
  BY <1>0, <1>16 DEF KeTimerTick, SameDebts, Parked, Owes
<1>17. ASSUME NEW p \in Processors, NEW t \in Threads,
             \/ \E u \in Threads, s \in StaticPriorities : KeSetPriority(p, t, u, s)
             \/ \E u \in Threads : KeResumeThread(p, t, u)
      PROVE  FALSE
  BY <1>17 DEF DriverWorkload, KeSetPriority, KeResumeThread, Calling
<1>18. QED
  BY <1>1, <1>2, <1>3, <1>4, <1>5, <1>6, <1>7, <1>8, <1>9, <1>10, <1>11, <1>12, <1>13, <1>14,
     <1>15, <1>16, <1>17 DEF Next, Kernel, Interrupt, Pending, Call
-------------------------------------------------------------------------------
(* The place of a live thread.                                                *)

\* The live threads that are placed stay so, and none is born.
PlacesKept ==
  /\ \A u \in Threads : life'[u] = "live" => life[u] = "live"
  /\ \A u \in Threads : life'[u] = "live" /\ Placed(u) => Placed(u)'

\* The steps of a processor with interrupts off, and of the timer: a thread that
\* leaves a queue is linked, or flagged, by the next step of the processor.
LEMMA KernelKeepsPlaces ==
  ASSUME IInv, NoScBug0', NEW p \in Processors,
         \/ Kernel(p) \/ TimerInterrupt(p) \/ IrqExit(p)
         \/ \E t \in Threads : IrqComplete(p, t)
         \/ \E done \in SUBSET Threads : NosIrqHandler(p, done)
  PROVE  PlacesKept
<1> USE StateFacts DEF flags, queues, births, calls, remote, wakeups, Goto
<1>1. CASE TimerInterrupt(p) \/ IrqExit(p)
  BY <1>1 DEF TimerInterrupt, IrqExit, PlacesKept, Placed, Asleep, Parked, Relinked, Starting,
              Asked
<1>2. CASE ScheduleIdle(p)
  BY <1>2 DEF ScheduleIdle, PlacesKept, Placed, Asleep, Parked, Relinked, Starting, Asked
<1>3. ASSUME NEW t \in Threads, IrqComplete(p, t)
      PROVE  PlacesKept
  BY <1>3 DEF IrqComplete, PlacesKept, Placed, Asleep, Parked, Relinked, Starting, Asked
<1>4. ASSUME NEW done \in SUBSET Threads, NosIrqHandler(p, done)
      PROVE  PlacesKept
  BY <1>4 DEF NosIrqHandler, PlacesKept, Placed, Asleep, Parked, Relinked, Starting, Asked
<1>5. CASE SetSuspended(p)
  BY <1>5 DEF SetSuspended, PlacesKept, Placed, Asleep, Parked, Relinked, Starting, Asked
<1>6. CASE LinkChosen(p)
  <2>1. PICK t \in Threads : t = chosen[p]
    BY <1>6 DEF LinkChosen
  <2>2. ScLinkReadyThreadBottom(p, t, "Run")
    BY <1>6, <2>1 DEF LinkChosen
  <2>3. /\ ready' = [ready EXCEPT ![t] = TRUE] /\ cpu' = [cpu EXCEPT ![p] = "Run"]
        /\ UNCHANGED <<sleepQueue, suspended>>
    <3>1. ~ready[t]
      BY <2>2 DEF ScLinkReadyThreadBottom, ScBug0, NoScBug0
    <3>2. QED BY <2>2, <3>1 DEF ScLinkReadyThreadBottom
  <2>4. /\ cpu[p] = "Link" /\ chosen' = [chosen EXCEPT ![p] = None]
        /\ currentThread' = [currentThread EXCEPT ![p] = t]
        /\ UNCHANGED <<births, calls, remote>>
    BY <1>6, <2>1 DEF LinkChosen
  <2>5. \A u \in Threads : u # t /\ Relinked(u) => Relinked(u)'
    BY <2>1, <2>3, <2>4 DEF Relinked
  <2>6. \A u \in Threads : Parked(u) => Parked(u)'
    BY <2>3, <2>4 DEF Parked
  <2>7. \A u \in Threads : (Starting(u) <=> Starting(u)') /\ (Asleep(u) <=> Asleep(u)')
    BY <2>3, <2>4 DEF Starting, Asked, Asleep
  <2>8. QED BY <2>3, <2>4, <2>5, <2>6, <2>7 DEF PlacesKept, Placed
<1>7. CASE ScheduleReady(p)
  <2>0. threadQueue \in [Processors -> Seq(Threads)]
    BY DEF IInv, TypeInv, TypeOK
  <2>1. PICK t \in Threads : ScUnlinkReadyThread(p, t) /\ chosen' = [chosen EXCEPT ![p] = t]
    BY <1>7, <2>0, QueueMembers DEF ScheduleReady
  <2>2. processor[t] = p /\ ready' = [ready EXCEPT ![t] = FALSE]
    BY <2>1, UnlinkEffect DEF IInv, TypeInv
  <2>3. /\ cpu[p] = "Schedule" /\ cpu' = [cpu EXCEPT ![p] = "Link"]
        /\ UNCHANGED <<sleepQueue, currentThread, suspended, births, calls, remote>>
    BY <1>7 DEF ScheduleReady
  <2>4. Relinked(t)'
    BY <2>1, <2>2, <2>3 DEF Relinked
  <2>5. \A u \in Threads : Relinked(u) => Relinked(u)'
    BY <2>1, <2>3 DEF Relinked
  <2>6. \A u \in Threads : Parked(u) => Parked(u)'
    BY <2>3 DEF Parked
  <2>7. \A u \in Threads : (Starting(u) <=> Starting(u)') /\ (Asleep(u) <=> Asleep(u)')
    BY <2>3 DEF Starting, Asked, Asleep
  <2>8. QED BY <2>2, <2>3, <2>4, <2>5, <2>6, <2>7 DEF PlacesKept, Placed
<1>8. CASE ScheduleSleeper(p)
  <2>1. PICK i \in DOMAIN sleepQueue[p] : WakeSleeper(p, i)
    BY <1>8 DEF ScheduleSleeper
  <2>2. PICK t \in Threads : t = sleepQueue[p][i]
    BY DEF IInv, TypeInv, TypeOK
  <2>3. ~ready[t]
    BY <2>1, <2>2 DEF WakeSleeper, ScBug0, NoScBug0
  <2>4. /\ sleepQueue' = [sleepQueue EXCEPT ![p] = RemoveAt(@, i)]
        /\ ready' = [ready EXCEPT ![t] = TRUE]
        /\ currentThread' = [currentThread EXCEPT ![p] = t]
        /\ cpu' = [cpu EXCEPT ![p] = "Run"] /\ UNCHANGED suspended
    BY <2>1, <2>2, <2>3 DEF WakeSleeper
  <2>5. cpu[p] = "Schedule" /\ UNCHANGED <<chosen, births, calls, remote>>
    BY <1>8 DEF ScheduleSleeper
  <2>6. \A u \in Threads : u # t /\ Asleep(u) => Asleep(u)'
    <3>1. /\ sleepQueue \in [Processors -> Seq(Threads)]
          /\ \A q \in Processors : IsInjective(sleepQueue[q])
      BY DEF IInv, TypeInv, TypeOK, QueueDiscipline
    <3>2. \A q \in Processors : \A u \in Threads :
            u \in ToSet(sleepQueue[q]) /\ u # t => u \in ToSet(sleepQueue'[q])
      <4>1. ToSet(RemoveAt(sleepQueue[p], i)) = ToSet(sleepQueue[p]) \ {t}
        BY <2>2, <3>1, RemoveFromQueue
      <4>2. QED BY <2>4, <3>1, <4>1
    <3>3. QED BY <2>5, <3>2 DEF Asleep
  <2>7. \A u \in Threads : (Parked(u) => Parked(u)') /\ (Relinked(u) => Relinked(u)')
    BY <2>4, <2>5 DEF Parked, Relinked
  <2>8. \A u \in Threads : Starting(u) <=> Starting(u)'
    BY <2>5 DEF Starting, Asked
  <2>9. QED BY <2>4, <2>5, <2>6, <2>7, <2>8 DEF PlacesKept, Placed
<1>9. QED
  BY <1>1, <1>2, <1>3, <1>4, <1>5, <1>6, <1>7, <1>8 DEF Kernel, Scheduling

\* A routine that is run leaves its thread READY and the others where they are.
LEMMA RoutineKeepsPlaces ==
  ASSUME IInv, NoScBug0', NEW p \in Processors, cpu[p] \in {"Run", "Resume"},
         NEW r, r.thread \in Threads, NEW m \in Modes, RunRoutine(p, r, m),
         \A u \in Threads \ {r.thread} : Starting(u) => Starting(u)',
         UNCHANGED <<currentThread, births>>,
         chosen' = chosen \/ chosen' = [chosen EXCEPT ![p] = None]
  PROVE  PlacesKept
<1> USE StateFacts DEF births
<1>1. /\ ready' = [ready EXCEPT ![r.thread] = TRUE] /\ cpu' = [cpu EXCEPT ![p] = m]
      /\ \A u \in Threads \ {r.thread} : suspended'[u] = suspended[u]
      /\ UNCHANGED sleepQueue
  <2>1. /\ ready' = [ready EXCEPT ![r.thread] = TRUE] /\ cpu' = [cpu EXCEPT ![p] = m]
        /\ suspended' = IF r.routine = "KiThreadResumeRoutine"
                        THEN [suspended EXCEPT ![r.thread] = FALSE] ELSE suspended
        /\ UNCHANGED sleepQueue
    BY RoutineRuns
  <2>2. \/ suspended' = suspended
        \/ suspended' = [suspended EXCEPT ![r.thread] = FALSE]
    BY <2>1
  <2>3. QED BY <2>1, <2>2
<1>2. \A u \in Threads : (Parked(u) => Parked(u)') /\ (Relinked(u) => Relinked(u)')
  BY <1>1 DEF Parked, Relinked
<1>3. \A u \in Threads : Asleep(u) <=> Asleep(u)'
  BY <1>1 DEF Asleep
<1>4. QED BY <1>1, <1>2, <1>3 DEF PlacesKept, Placed

\* The steps that run a routine, here or on the processor it was posted to, and
\* those that post it: a request is passed on or executed.
LEMMA RequestsKeepPlaces ==
  ASSUME IInv, NoScBug0', BitOwned, RequestsAreDone, NEW p \in Processors,
         \/ IrqResumeLocal(p) \/ IrqResumeRemote(p) \/ KiRemoteExecuteHandler(p)
         \/ \E t \in Threads : Pending(p, t)
  PROVE  PlacesKept
<1> USE StateFacts DEF calls, remote, Modes
<1>1. CASE IrqResumeLocal(p)
  <2>1. PICK t \in Threads : t = chosen[p]
    BY <1>1 DEF IrqResumeLocal
  <2>2. RunRoutine(p, ResumptionOf(t), "Irq") /\ ResumptionOf(t).thread = t
    BY <1>1, <2>1 DEF IrqResumeLocal, ResumptionOf
  <2>3. \A u \in Threads : Starting(u) => Starting(u)'
    BY <1>1 DEF IrqResumeLocal, Starting, Asked
  <2>4. /\ cpu[p] = "Resume" /\ chosen' = [chosen EXCEPT ![p] = None]
        /\ UNCHANGED <<currentThread, births>>
    BY <1>1 DEF IrqResumeLocal
  <2>5. QED BY <2>2, <2>3, <2>4, RoutineKeepsPlaces
<1>2. CASE IrqResumeRemote(p)
  <2>1. PICK q \in Processors : q = processor[chosen[p]]
    BY <1>2 DEF IrqResumeRemote
  <2>2. /\ remoteExecute[q] = None
        /\ \A r \in Processors \ {q} : remoteExecute'[r] = remoteExecute[r]
    BY <1>2, <2>1 DEF IrqResumeRemote, BitOwned
  <2>3. \A u \in Threads : StartOf(u) # None
    BY NoneAssumption DEF StartOf, Requests, Routines
  <2>4. \A u \in Threads : Starting(u) => Starting(u)'
    BY <1>2, <2>2, <2>3 DEF IrqResumeRemote, Starting, Asked, StartOf
  <2>5. /\ cpu[p] = "Resume" /\ cpu' = [cpu EXCEPT ![p] = "Irq"]
        /\ chosen' = [chosen EXCEPT ![p] = None]
        /\ UNCHANGED <<queues, currentThread, flags, births>>
    BY <1>2 DEF IrqResumeRemote, Goto
  <2>6. QED BY <2>4, <2>5 DEF PlacesKept, Placed, Asleep, Parked, Relinked, queues, flags, births
<1>3. CASE KiRemoteExecuteHandler(p)
  <2>1. PICK r \in Requests : r = remoteExecute[p] /\ r.thread \in Threads
    BY <1>3 DEF KiRemoteExecuteHandler
  <2>2. /\ RunRoutine(p, r, "Schedule") /\ cpu[p] = "Run"
        /\ remoteExecute' = [remoteExecute EXCEPT ![p] = None]
        /\ UNCHANGED <<currentThread, chosen, births, calls>>
    BY <1>3, <2>1 DEF KiRemoteExecuteHandler
  <2>3. \A u \in Threads : StartOf(u).thread = u
    BY DEF StartOf
  <2>4. \A u \in Threads \ {r.thread} : Starting(u) => Starting(u)'
    BY <2>1, <2>2, <2>3 DEF Starting, Asked, StartOf
  <2>5. QED BY <2>1, <2>2, <2>4, RoutineKeepsPlaces
<1>4. ASSUME NEW t \in Threads, ExecuteLocally(p, t)
      PROVE  PlacesKept
  <2>1. PICK r \in Requests : r = request[t] /\ r.thread \in Threads
    BY <1>4 DEF ExecuteLocally
  <2>2. /\ RunRoutine(p, r, "Run") /\ cpu[p] = "Run"
        /\ request' = [request EXCEPT ![t] = None]
        /\ UNCHANGED <<currentThread, chosen, births, remote>>
    BY <1>4, <2>1 DEF ExecuteLocally, Running
  <2>3. \A u \in Threads : StartOf(u).thread = u
    BY DEF StartOf
  <2>4. \A u \in Threads \ {r.thread} : Starting(u) => Starting(u)'
    BY <2>1, <2>2, <2>3 DEF Starting, Asked, StartOf
  <2>5. QED BY <2>1, <2>2, <2>4, RoutineKeepsPlaces
<1>5. ASSUME NEW t \in Threads, AcquireProcessorControl(p, t)
      PROVE  PlacesKept
  BY <1>5 DEF AcquireProcessorControl, PlacesKept, Placed, Asleep, Parked, Relinked, Starting,
              Asked, queues, flags, births
<1>6. ASSUME NEW t \in Threads, KeRemoteExecute(p, t)
      PROVE  PlacesKept
  <2>1. PICK q \in Processors : q = processor[request[t].thread]
    BY <1>6 DEF KeRemoteExecute
  <2>2. /\ request' = [request EXCEPT ![t] = None]
        /\ remoteExecute' = [remoteExecute EXCEPT ![q] = request[t]]
        /\ t \in Posting(q)
        /\ UNCHANGED <<queues, currentThread, cpu, chosen, flags, births>>
    BY <1>6, <2>1 DEF KeRemoteExecute, Posting
  <2>3. remoteExecute[q] = None /\ \A u \in Threads : StartOf(u) # None
    BY <2>2, NoneAssumption DEF BitOwned, StartOf, Requests, Routines
  <2>4. \A u \in Threads : Starting(u) => Starting(u)'
    BY <2>2, <2>3 DEF Starting, Asked, StartOf
  <2>5. QED BY <2>2, <2>4 DEF PlacesKept, Placed, Asleep, Parked, Relinked, queues, flags, births
<1>7. QED BY <1>1, <1>2, <1>3, <1>4, <1>5, <1>6 DEF Pending

\* The services: who leaves the ready queue sleeps, suspends itself or has exited,
\* and the thread that is created is to be started.
LEMMA CallsKeepPlaces ==
  ASSUME DriverWorkload, IInv, IInv', LiveArePlaced, RequestsAreDone,
         NEW p \in Processors, NEW t \in Threads, Call(p, t)
  PROVE  LiveArePlaced'
<1> USE StateFacts DEF calls, remote, queues, flags, Goto
<1>1. CASE Sleep(p, t)
  <2>1. /\ cpu[p] = "Run" /\ currentThread[p] = t /\ ScUnlinkReadyThread(p, t)
        /\ sleepQueue' = [sleepQueue EXCEPT ![p] = Append(@, t)]
        /\ cpu' = [cpu EXCEPT ![p] = "Schedule"]
        /\ UNCHANGED <<currentThread, chosen, suspended, births, calls, remote>>
    BY <1>1 DEF Sleep, Calling, Running
  <2>2. processor[t] = p /\ ready' = [ready EXCEPT ![t] = FALSE]
    BY <2>1, UnlinkEffect DEF IInv, TypeInv
  <2>3. \A q \in Processors : \A u \in Threads :
          u \in ToSet(sleepQueue[q]) \/ (u = t /\ q = p) => u \in ToSet(sleepQueue'[q])
    <3>1. sleepQueue \in [Processors -> Seq(Threads)]
      BY DEF IInv, TypeInv, TypeOK
    <3>2. ToSet(Append(sleepQueue[p], t)) = ToSet(sleepQueue[p]) \cup {t}
      BY <3>1, AppendToQueue
    <3>3. QED BY <2>1, <3>1, <3>2
  <2>4. \A u \in Threads : Asleep(u) \/ u = t => Asleep(u)'
    BY <2>1, <2>2, <2>3 DEF Asleep, births
  <2>5. \A u \in Threads : (Parked(u) => Parked(u)') /\ (Relinked(u) => Relinked(u)')
                            /\ (Starting(u) => Starting(u)')
    BY <2>1 DEF Parked, Relinked, Starting, Asked, births
  <2>6. QED BY <2>1, <2>2, <2>4, <2>5 DEF LiveArePlaced, Placed, births
<1>2. CASE KeSuspendThread(p, t)
  <2>1. /\ cpu[p] = "Run" /\ currentThread[p] = t /\ ScUnlinkReadyThread(p, t)
        /\ cpu' = [cpu EXCEPT ![p] = "Suspend"]
        /\ UNCHANGED <<sleepQueue, currentThread, chosen, suspended, births, calls, remote>>
    BY <1>2 DEF KeSuspendThread, Calling, Running
  <2>2. processor[t] = p /\ ready' = [ready EXCEPT ![t] = FALSE]
    BY <2>1, UnlinkEffect DEF IInv, TypeInv
  <2>3. \A u \in Threads : Parked(u) \/ u = t => Parked(u)'
    BY <2>1, <2>2 DEF Parked, births
  <2>4. \A u \in Threads : (Relinked(u) => Relinked(u)') /\ (Asleep(u) => Asleep(u)')
                            /\ (Starting(u) => Starting(u)')
    BY <2>1 DEF Asleep, Relinked, Starting, Asked, births
  <2>5. QED BY <2>1, <2>2, <2>3, <2>4 DEF LiveArePlaced, Placed, births
<1>3. CASE KeExitThread(p, t)
  <2>1. /\ cpu[p] = "Run" /\ ScUnlinkReadyThread(p, t)
        /\ \A q \in Processors \ {p} : cpu'[q] = cpu[q]
        /\ life' = [life EXCEPT ![t] = "exited"]
        /\ UNCHANGED <<sleepQueue, currentThread, chosen, suspended, processor, calls, remote>>
    BY <1>3 DEF KeExitThread, Calling, Running
  <2>2. ready' = [ready EXCEPT ![t] = FALSE]
    BY <2>1, UnlinkEffect DEF IInv, TypeInv
  <2>3. \A u \in Threads : (Parked(u) => Parked(u)') /\ (Relinked(u) => Relinked(u)')
                            /\ (Asleep(u) => Asleep(u)') /\ (Starting(u) => Starting(u)')
    BY <2>1 DEF Parked, Asleep, Relinked, Starting, Asked
  <2>4. QED BY <2>1, <2>2, <2>3 DEF LiveArePlaced, Placed
<1>4. ASSUME NEW s \in StaticPriorities, KeSetOwnPriority(p, t, s)
      PROVE  LiveArePlaced'
  <2>1. ready[t]
    BY <1>4, ThreadsAssumption DEF IInv, CurrentIsReady, KeSetOwnPriority, Calling, Running
  <2>2. UNCHANGED <<queues, currentThread, cpu, chosen, flags, births, calls, remote>>
    BY <1>4, <2>1 DEF KeSetOwnPriority, KeSetStaticPriority
  <2>3. QED
    BY <2>2 DEF LiveArePlaced, Placed, Asleep, Parked, Relinked, Starting, Asked, births
<1>5. ASSUME NEW u \in Threads, NEW s \in StaticPriorities, KeCreateThread(p, t, u, s)
      PROVE  LiveArePlaced'
  <2>1. /\ pc[t] = "Body" /\ life[u] = "free" /\ life' = [life EXCEPT ![u] = "live"]
        /\ \A v \in Threads \ {u} : processor'[v] = processor[v]
        /\ UNCHANGED <<queues, currentThread, cpu, chosen, flags, remote>>
    BY <1>5 DEF KeCreateThread, Calling
  <2>2. ~ready[u] /\ ~suspended[u]
    BY <2>1 DEF IInv, FlagsExclude
  <2>3. request' = [request EXCEPT ![t] = StartOf(u)]
    BY <1>5, <2>2 DEF KeCreateThread, KeSetStaticPriority, Execute, StartOf
  <2>4. request[t] = None /\ \A v \in Threads : StartOf(v) # None
    BY <2>1, NoneAssumption DEF RequestsAreDone, StartOf, Requests, Routines
  <2>5. \A v \in Threads : Starting(v) \/ v = u => Starting(v)'
    BY <2>1, <2>3, <2>4 DEF Starting, Asked, StartOf
  <2>6. \A v \in Threads \ {u} : (Parked(v) => Parked(v)') /\ (Relinked(v) => Relinked(v)')
                                  /\ (Asleep(v) => Asleep(v)')
    BY <2>1 DEF Parked, Asleep, Relinked
  <2>7. QED BY <2>1, <2>5, <2>6 DEF LiveArePlaced, Placed
<1>6. ASSUME NEW u \in Threads, NEW s \in StaticPriorities,
             KeSetPriority(p, t, u, s) \/ KeResumeThread(p, t, u)
      PROVE  FALSE
  BY <1>6 DEF DriverWorkload, KeSetPriority, KeResumeThread, Calling
<1>7. StaticPriorities # {}
  BY PrioritiesAssumption
<1>8. QED BY <1>1, <1>2, <1>3, <1>4, <1>5, <1>6, <1>7 DEF Call

\* No step loses a live thread.
LEMMA PlacedNext ==
  ASSUME DriverWorkload, IInv, IInv', BitOwned, RequestsAreDone, LiveArePlaced, [Next]_vars
  PROVE  LiveArePlaced'
<1>0. PlacesKept => LiveArePlaced'
  BY DEF PlacesKept, LiveArePlaced
<1>1. NoScBug0'
  BY DEF IInv
<1>2. CASE UNCHANGED vars
  BY <1>2 DEF vars, queues, flags, births, calls, remote, LiveArePlaced, Placed, Asleep, Parked,
              Relinked, Starting, Asked
<1>3. ASSUME NEW p \in Processors,
             \/ Kernel(p) \/ TimerInterrupt(p) \/ IrqExit(p)
             \/ \E t \in Threads : IrqComplete(p, t)
             \/ \E done \in SUBSET Threads : NosIrqHandler(p, done)
      PROVE  LiveArePlaced'
  BY <1>0, <1>1, <1>3, KernelKeepsPlaces
<1>4. ASSUME NEW p \in Processors,
             \/ IrqResumeLocal(p) \/ IrqResumeRemote(p) \/ KiRemoteExecuteHandler(p)
             \/ \E t \in Threads : Pending(p, t)
      PROVE  LiveArePlaced'
  BY <1>0, <1>1, <1>4, RequestsKeepPlaces
<1>5. ASSUME NEW p \in Processors, NEW t \in Threads, Call(p, t)
      PROVE  LiveArePlaced'
  BY <1>5, CallsKeepPlaces
<1>6. ASSUME NEW t \in Threads, KeTimerTick(t)
      PROVE  LiveArePlaced'
  BY <1>6 DEF KeTimerTick, queues, flags, births, calls, remote, LiveArePlaced, Placed, Asleep,
              Parked, Relinked, Starting, Asked
<1>7. QED BY <1>2, <1>3, <1>4, <1>5, <1>6 DEF Next, Interrupt
-------------------------------------------------------------------------------
(* The invariant, and what follows from it.                                   *)

\* At start nothing is asked for and the boot threads are in the ready queues.
LEMMA OwnershipInit == Init => OwnershipInv
<1> SUFFICES ASSUME Init PROVE OwnershipInv
  OBVIOUS
<1>1. /\ \A t \in Threads : /\ life[t] = "live" => ready[t]
                            /\ ~suspended[t] /\ pc[t] = "Body" /\ request[t] = None
      /\ \A p \in Processors : /\ cpu[p] = "Schedule" /\ completed[p] = {}
                               /\ ~control[p] /\ remoteExecute[p] = None
      /\ processor \in [Threads -> Processors]
  BY DEF Init
<1>2. RequestsAreDone /\ HandlersFinish /\ LiveArePlaced
  BY <1>1 DEF RequestsAreDone, HandlersFinish, LiveArePlaced, Placed
<1>3. BitOwned
  BY <1>1 DEF BitOwned, Posting
<1>4. SuspendedAreOwed
  BY <1>1 DEF SuspendedAreOwed, Parked
<1>5. QED BY <1>2, <1>3, <1>4 DEF OwnershipInv

\* With the inductive invariant of SchedulerProofs, this one is inductive too.
THEOREM OwnershipInvariant == DriverWorkload => (Spec => []OwnershipInv)
<1> SUFFICES ASSUME DriverWorkload PROVE Spec => []OwnershipInv
  OBVIOUS
<1>1. ASSUME OwnershipInv, IInv, IInv', [Next]_vars
      PROVE  OwnershipInv'
  <2>1. NoScBug0'
    BY <1>1 DEF IInv
  <2>2. QED
    BY <1>1, <2>1, RequestsDoneNext, BitOwnedNext, HandlersFinishNext, OwedNext, PlacedNext
    DEF OwnershipInv
<1>2. QED BY <1>1, OwnershipInit, InductiveInvariant, PTL DEF Spec

\* A request that is kept is about to be executed: it is a start.
LEMMA AskedFor ==
  ASSUME IInv, RequestsAreDone, NEW t \in Threads
  PROVE  /\ Starting(t) => Unplaced(t)
         /\ Asked(t, "KiThreadResumeRoutine") => suspended[t] /\ Posted(t)
         /\ Asked(t, "KiThreadResumeRoutine")
              <=> \E p \in Processors : remoteExecute[p] = ResumptionOf(t)
<1> USE StateFacts
<1>1. /\ \A r \in {StartOf(t), ResumptionOf(t)} : r # None /\ r.thread = t
      /\ StartOf(t).routine = "KiSetThreadInReadyQueue"
      /\ ResumptionOf(t).routine = "KiThreadResumeRoutine"
  BY NoneAssumption DEF StartOf, ResumptionOf, Requests, Routines
<1>2. ASSUME NEW u \in Threads, request[u] = StartOf(t)
      PROVE  Unplaced(t)
  <2>1. pc[u] # "Body"
    BY <1>1, <1>2 DEF RequestsAreDone
  <2>2. QED BY <1>1, <1>2, <2>1 DEF IInv, RequestsAreStarts
<1>3. \A u \in Threads : request[u] # ResumptionOf(t)
  BY <1>1 DEF RequestsAreDone, IInv, RequestsAreStarts
<1>4. ASSUME NEW p \in Processors, remoteExecute[p] = StartOf(t)
      PROVE  Unplaced(t)
  BY <1>1, <1>4 DEF IInv, PostsAreDue
<1>5. ASSUME NEW p \in Processors, remoteExecute[p] = ResumptionOf(t)
      PROVE  suspended[t] /\ Posted(t)
  BY <1>1, <1>5 DEF IInv, PostsAreDue, Posted
<1>6. Starting(t) <=> \/ \E u \in Threads : request[u] = StartOf(t)
                      \/ \E p \in Processors : remoteExecute[p] = StartOf(t)
  BY DEF Starting, Asked, StartOf
<1>7. Asked(t, "KiThreadResumeRoutine")
        <=> \/ \E u \in Threads : request[u] = ResumptionOf(t)
            \/ \E p \in Processors : remoteExecute[p] = ResumptionOf(t)
  BY DEF Asked, ResumptionOf
<1>8. QED BY <1>2, <1>3, <1>4, <1>5, <1>6, <1>7

\* The owner of the bit is counted once.
LEMMA BitHasOwner == OwnershipInv => ControlOwner
<1> SUFFICES ASSUME OwnershipInv, NEW q \in Processors
             PROVE  Cardinality(Posting(q)) + (IF remoteExecute[q] # None THEN 1 ELSE 0)
                      = IF control[q] THEN 1 ELSE 0
  BY DEF ControlOwner
<1>1. CASE Posting(q) = {}
  BY <1>1, FS_EmptySet DEF OwnershipInv, BitOwned
<1>2. CASE Posting(q) # {}
  <2>1. PICK t \in Posting(q) : Posting(q) = {t}
    BY <1>2 DEF OwnershipInv, BitOwned
  <2>2. control[q] /\ remoteExecute[q] = None
    BY <2>1 DEF OwnershipInv, BitOwned
  <2>3. Cardinality({t}) = 1
    BY FS_Singleton
  <2>4. QED BY <2>1, <2>2, <2>3
<1>3. QED BY <1>1, <1>2

\* Owed by somebody (SuspendedAreOwed) and by nobody else (OwedOnce).
LEMMA ResumptionIsOwed == IInv /\ OwnershipInv => OneResumption
<1> SUFFICES ASSUME IInv, OwnershipInv, NEW t \in Threads
             PROVE  Cardinality(Owed(t)) = IF suspended[t] \/ Suspending(t) THEN 1 ELSE 0
  BY DEF OneResumption
<1> DEFINE handler == \E p \in Processors :
                        t \in completed[p] \/ (cpu[p] = "Resume" /\ chosen[p] = t)
           routine == Asked(t, "KiThreadResumeRoutine")
<1>1. Suspending(t) <=> Parked(t)
  BY StateFacts DEF Suspending, Parked, IInv, PointsAreHome
<1>2. /\ "event" \in Owed(t) <=> waiting[t]
      /\ "handler" \in Owed(t) <=> handler
      /\ "routine" \in Owed(t) <=> routine
      /\ Owed(t) \subseteq {"event", "handler", "routine"}
  BY DEF Owed
<1>3. /\ routine => suspended[t] /\ Posted(t)
      /\ routine <=> \E p \in Processors : remoteExecute[p] = ResumptionOf(t)
  BY AskedFor DEF OwnershipInv
<1>4. (suspended[t] \/ Parked(t)) <=> (waiting[t] \/ handler \/ routine)
  <2>1. suspended[t] \/ Parked(t) => waiting[t] \/ handler \/ routine
    BY <1>3 DEF OwnershipInv, SuspendedAreOwed, Owes
  <2>2. waiting[t] \/ handler => suspended[t] \/ Parked(t)
    BY DEF IInv, OwedAreSuspended
  <2>3. QED BY <1>3, <2>1, <2>2
<1>5. /\ ~(waiting[t] /\ handler) /\ ~(waiting[t] /\ routine) /\ ~(handler /\ routine)
  BY <1>3 DEF IInv, OwedOnce
<1> HIDE DEF handler, routine
<1>6. CASE suspended[t] \/ Parked(t)
  <2>1. PICK w : Owed(t) = {w}
    BY <1>2, <1>4, <1>5, <1>6
  <2>2. QED BY <1>1, <1>6, <2>1, FS_Singleton
<1>7. CASE ~(suspended[t] \/ Parked(t))
  <2>1. Owed(t) = {}
    BY <1>2, <1>4, <1>7
  <2>2. QED BY <1>1, <1>7, <2>1, FS_EmptySet
<1>8. QED BY <1>6, <1>7

\* Somewhere (LiveArePlaced) and nowhere else (FlagsExclude and the like).
LEMMA ThreadHasPlace == IInv /\ OwnershipInv => OnePlace
<1> SUFFICES ASSUME IInv, OwnershipInv, NEW t \in Threads
             PROVE  Cardinality(Places(t)) = IF life[t] = "live" THEN 1 ELSE 0
  BY DEF OnePlace
<1> DEFINE Names == {"ready", "sleeping", "suspended", "suspending", "linking", "starting"}
<1>1. /\ Suspending(t) <=> Parked(t)
      /\ Linking(t) <=> Relinked(t)
  BY StateFacts DEF Suspending, Linking, Parked, Relinked, IInv, PointsAreHome
<1>2. ready[t] <=> t \in ToSet(threadQueue[processor[t]])
  BY DEF IInv, QueueDiscipline
<1>3. /\ "ready" \in Places(t) <=> ready[t]
      /\ "sleeping" \in Places(t) <=> Asleep(t)
      /\ "suspended" \in Places(t) <=> suspended[t]
      /\ "suspending" \in Places(t) <=> Parked(t)
      /\ "linking" \in Places(t) <=> Relinked(t)
      /\ "starting" \in Places(t) <=> Starting(t)
      /\ Places(t) \subseteq Names
  BY <1>1, <1>2 DEF Places, Asleep, Starting
<1>4. Starting(t) => Unplaced(t)
  BY AskedFor DEF OwnershipInv
<1>5. /\ Parked(t) => Loose(t) /\ ~Relinked(t)
      /\ Relinked(t) => Loose(t)
  BY StateFacts DEF Parked, Relinked, IInv, PointsAreHome
<1>6. /\ ready[t] \/ suspended[t] \/ Asleep(t) => life[t] = "live"
      /\ ready[t] => ~suspended[t] /\ ~Asleep(t)
      /\ suspended[t] => ~Asleep(t)
  BY DEF IInv, FlagsExclude
<1>7. life[t] = "live" => Placed(t)
  BY DEF OwnershipInv, LiveArePlaced
<1>8. CASE life[t] = "live"
  <2>1. PICK w \in Names : w \in Places(t)
    BY <1>3, <1>7, <1>8 DEF Placed
  <2>2. \A x \in Places(t) : x = w
    BY <1>3, <1>4, <1>5, <1>6, <2>1 DEF Unplaced, Loose
  <2>3. Places(t) = {w}
    BY <2>1, <2>2
  <2>4. QED BY <1>8, <2>3, FS_Singleton
<1>9. CASE life[t] # "live"
  <2>1. Places(t) = {}
    BY <1>3, <1>4, <1>5, <1>6, <1>9 DEF Unplaced, Loose
  <2>2. QED BY <1>9, <2>1, FS_EmptySet
<1>10. QED BY <1>8, <1>9

\* The execute bit of a processor is set exactly while one thread is about to
\* fill its block or the block is full: no request is overwritten by another and
\* none leaves the bit set behind it.
THEOREM OneOwnerOfControl == DriverWorkload => (Spec => []ControlOwner)
BY BitHasOwner, OwnershipInvariant, PTL

\* A thread that is suspended, or about to be, is owed exactly one resumption and
\* nobody else is owed any: no wake-up is lost on its way between processors.
THEOREM OneResumptionOwed == DriverWorkload => (Spec => []OneResumption)
BY ResumptionIsOwed, InductiveInvariant, OwnershipInvariant, PTL

\* A live thread is in exactly one place, one that is not live in none.
THEOREM ThreadsInOnePlace == DriverWorkload => (Spec => []OnePlace)
BY ThreadHasPlace, InductiveInvariant, OwnershipInvariant, PTL
===============================================================================
