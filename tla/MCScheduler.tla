----------------------------- MODULE MCScheduler -----------------------------
(* Instances of Scheduler for TLC.  Threads t1, t2, ... are model values.    *)
EXTENDS SchedulerInvariant

CONSTANTS t1, t2, t3, t4

AllServices == {"KeCreateThread", "Sleep", "KeSuspendThread", "KeExitThread",
                "KeSetOwnPriority", "KeSetPriority", "KeResumeThread"}

NoUses == [s \in AllServices |-> {}]

\* Two processors, a thread on each at start.
BootTwo == [p \in 0 .. 1 |-> IF p = 0 THEN <<t1>> ELSE <<t2>>]

\* Drivers as the kernel starts them: t1 creates threads, sleeps and sets its
\* own priority, the others issue device operations, and those done exit.
DriverUses == [NoUses EXCEPT !["KeCreateThread"] = {t1},
                             !["KeSetOwnPriority"] = {t1},
                             !["Sleep"] = {t1, t2},
                             !["KeSuspendThread"] = {t2, t3},
                             !["KeExitThread"] = {t1, t3}]

\* One processor, every thread ready from the start.
BootAll == [p \in 0 .. 0 |-> <<t1, t2, t3>>]

\* One processor: a thread sets the priority of others and resumes them.  None of
\* them sleeps, because KeSetStaticPriority takes a sleeper for a thread not yet
\* started, there as on another processor (SchedulerPriority).
LocalUses == [NoUses EXCEPT !["KeSetPriority"] = {t1},
                            !["KeSetOwnPriority"] = {t2},
                            !["KeSuspendThread"] = {t2, t3},
                            !["KeResumeThread"] = {t1}]

\* Two processors: the first takes the device interrupts and has no threads,
\* those of the second one sleep, and one of them waits for a device.
BootSecond == [p \in 0 .. 1 |-> IF p = 0 THEN <<>> ELSE <<t1, t2, t3>>]
SleepUses == [NoUses EXCEPT !["Sleep"] = {t1, t2, t3}, !["KeSuspendThread"] = {t3}]

\* Two processors with ready threads on both; none sleeps.
BootBoth == [p \in 0 .. 1 |-> IF p = 0 THEN <<t1, t2>> ELSE <<t3>>]

\* A thread is created while the device of another one completes.
CreateUses == [NoUses EXCEPT !["KeCreateThread"] = {t1}, !["KeSuspendThread"] = {t3}]

\* A thread that sleeps on another processor is given a priority.
PriorityUses == [NoUses EXCEPT !["Sleep"] = {t2}, !["KeSetPriority"] = {t1}]
=============================================================================
