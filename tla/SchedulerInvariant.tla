-------------------------- MODULE SchedulerInvariant --------------------------
(* The inductive invariant of Scheduler for the threads the kernel and its    *)
(* drivers start: they create threads, sleep, suspend themselves for a device *)
(* and exit, and leave the priority and the suspension of others alone.       *)
EXTENDS Scheduler

\* A path that works on a thread has one, and a thread that is about to execute
\* a request has made one.
TypeInv ==
  /\ TypeOK
  /\ \A p \in Processors : cpu[p] \in {"Link", "Resume"} => chosen[p] \in Threads
  /\ \A t \in Threads : pc[t] # "Body" => request[t] \in Requests

DriverWorkload == Uses["KeSetPriority"] = {} /\ Uses["KeResumeThread"] = {}

\* What the thread's own processor is doing with it.  Nobody else works on it,
\* which is what PointsAreHome and QueueDiscipline say.
Asleep(t)   == t \in ToSet(sleepQueue[processor[t]])
Parked(t)   == cpu[processor[t]] = "Suspend" /\ currentThread[processor[t]] = t
Relinked(t) == cpu[processor[t]] = "Link" /\ chosen[processor[t]] = t
Posted(t)   == remoteExecute[processor[t]] # None /\ remoteExecute[processor[t]].thread = t

\* Live, and in none of the queues nor flagged as suspended.
Loose(t) == life[t] = "live" /\ ~ready[t] /\ ~suspended[t] /\ ~Asleep(t)

\* The threads a processor is about to link, or to flag as suspended, are its
\* own and in no queue: nobody else can have linked them meanwhile.
PointsAreHome ==
  \A p \in Processors :
    /\ cpu[p] = "Link" => processor[chosen[p]] = p /\ Loose(chosen[p])
    /\ cpu[p] = "Suspend" => /\ currentThread[p] \in Threads
                             /\ processor[currentThread[p]] = p /\ Loose(currentThread[p])

\* READY, SUSPENDED and asleep exclude each other, and only live threads are so.
FlagsExclude ==
  \A t \in Threads :
    /\ ready[t] \/ suspended[t] \/ Asleep(t) => life[t] = "live"
    /\ ready[t] => ~suspended[t] /\ ~Asleep(t)
    /\ suspended[t] => ~Asleep(t)

\* A thread whose first link is still to be executed: no queue and no processor
\* has it.
Unplaced(t) == Loose(t) /\ ~Parked(t) /\ ~Relinked(t)

RequestsAreStarts ==
  \A u \in Threads : pc[u] # "Body" =>
    request[u].routine = "KiSetThreadInReadyQueue" /\ Unplaced(request[u].thread)

PostsAreDue ==
  \A p \in Processors : remoteExecute[p] # None =>
    /\ processor[remoteExecute[p].thread] = p
    /\ IF remoteExecute[p].routine = "KiSetThreadInReadyQueue"
       THEN Unplaced(remoteExecute[p].thread)
       ELSE suspended[remoteExecute[p].thread]

\* It is asked for once.
StartsOnce ==
  \A u \in Threads : pc[u] # "Body" =>
    /\ ~Posted(request[u].thread)
    /\ \A v \in Threads : pc[v] # "Body" /\ request[v].thread = request[u].thread => v = u

\* Only a thread that is suspended, or about to be, is owed a resumption.
OwedAreSuspended ==
  /\ \A t \in Threads : waiting[t] => suspended[t] \/ Parked(t)
  /\ \A p \in Processors, t \in Threads : t \in completed[p] => suspended[t] \/ Parked(t)
  /\ \A p \in Processors : cpu[p] = "Resume" => suspended[chosen[p]] \/ Parked(chosen[p])

\* One party owes it: the device, the handler of one processor, or the request
\* posted to the thread's own.
OwedOnce ==
  /\ \A t \in Threads : waiting[t] => ~Posted(t)
  /\ \A t \in Threads, p \in Processors :
       waiting[t] => t \notin completed[p] /\ ~(cpu[p] = "Resume" /\ chosen[p] = t)
  /\ \A t \in Threads, p \in Processors :
       t \in completed[p] \/ (cpu[p] = "Resume" /\ chosen[p] = t) => ~Posted(t)
  /\ \A t \in Threads, p, q \in Processors :
       /\ t \in completed[p] /\ t \in completed[q] => p = q
       /\ t \in completed[p] => ~(cpu[q] = "Resume" /\ chosen[q] = t)
  /\ \A p, q \in Processors :
       cpu[p] = "Resume" /\ cpu[q] = "Resume" /\ chosen[p] = chosen[q] => p = q

IInv ==
  /\ TypeInv
  /\ NoScBug0
  /\ QueueDiscipline
  /\ CurrentIsReady
  /\ PointsAreHome
  /\ FlagsExclude
  /\ RequestsAreStarts
  /\ PostsAreDue
  /\ StartsOnce
  /\ OwedAreSuspended
  /\ OwedOnce
-------------------------------------------------------------------------------
(* What OnePlace, OneResumption and ControlOwner need besides: IInv says that *)
(* a thread is at no two places and owed no two resumptions, these say that   *)
(* there is one.                                                              *)

StartOf(t) == [routine |-> "KiSetThreadInReadyQueue", thread |-> t]
ResumptionOf(t) == [routine |-> "KiThreadResumeRoutine", thread |-> t]

\* A thread between two calls has no request left.
RequestsAreDone == \A u \in Threads : pc[u] = "Body" => request[u] = None

\* The execute bit of a processor is set when somebody is about to post to it, who
\* is alone and finds the block empty, or when the block is full; and only then.
BitOwned ==
  /\ \A q \in Processors : remoteExecute[q] # None => control[q]
  /\ \A q \in Processors : \A t \in Posting(q) :
       /\ control[q] /\ remoteExecute[q] = None
       /\ \A u \in Posting(q) : u = t
  /\ \A q \in Processors : control[q] => remoteExecute[q] # None \/ Posting(q) # {}

\* A handler leaves none of the threads it has found completed behind.
HandlersFinish ==
  \A p \in Processors : cpu[p] \notin {"Irq", "Resume"} => completed[p] = {}

\* Who is suspended, or about to be, is owed a resumption.
Owes(t) ==
  \/ waiting[t]
  \/ \E p \in Processors : t \in completed[p] \/ (cpu[p] = "Resume" /\ chosen[p] = t)
  \/ \E p \in Processors : remoteExecute[p] = ResumptionOf(t)
SuspendedAreOwed == \A t \in Threads : suspended[t] \/ Parked(t) => Owes(t)

\* A live thread is somewhere.
Starting(t) == Asked(t, "KiSetThreadInReadyQueue")
Placed(t) == ready[t] \/ suspended[t] \/ Asleep(t) \/ Parked(t) \/ Relinked(t) \/ Starting(t)
LiveArePlaced == \A t \in Threads : life[t] = "live" => Placed(t)

OwnershipInv ==
  /\ RequestsAreDone
  /\ BitOwned
  /\ HandlersFinish
  /\ SuspendedAreOwed
  /\ LiveArePlaced
-------------------------------------------------------------------------------
(* What AgingBound needs.  It holds whoever uses the services, so none of     *)
(* this rests on IInv.                                                        *)

Highest == MaxOf(StaticPriorities)

\* u is somewhere in front of t in the list q.
Before(q, u, t) == \E i, j \in DOMAIN q : i < j /\ q[i] = u /\ q[j] = t

\* A queue holds ready threads of its own processor, each once, and a thread that
\* is ready is in the queue of its own.
QueuesAreOwn ==
  /\ \A p \in Processors :
       /\ IsInjective(threadQueue[p])
       /\ \A t \in ToSet(threadQueue[p]) : ready[t] /\ processor[t] = p
  /\ \A t \in Threads : ready[t] => t \in ToSet(threadQueue[processor[t]])

\* No queue, processor or request has a thread that was not created: it could
\* still be created on another processor.
HandledAreCreated ==
  /\ \A t \in Threads : ready[t] \/ suspended[t] => life[t] # "free"
  /\ \A p \in Processors :
       /\ currentThread[p] # Idle => life[currentThread[p]] # "free"
       /\ \A t \in ToSet(sleepQueue[p]) : life[t] # "free" /\ processor[t] = p
       /\ cpu[p] = "Link" => life[chosen[p]] # "free" /\ processor[chosen[p]] = p
       /\ remoteExecute[p] # None =>
            life[remoteExecute[p].thread] # "free" /\ processor[remoteExecute[p].thread] = p
  /\ \A u \in Threads : pc[u] # "Body" => life[request[u].thread] # "free"

\* A thread has no priority above the highest one given to a thread, unless it
\* waits in the queue or has just been chosen.
OldAreWaiting ==
  \A t \in Threads :
    /\ staticPriority[t] <= Highest
    /\ dynamicPriority[t] > Highest =>
         (ready[t] /\ currentThread[processor[t]] # t) \/ Linking(t)

ChosenAreBounded ==
  \A p \in Processors :
    cpu[p] = "Link" => dynamicPriority[chosen[p]] <= Highest + Cardinality(Threads)

\* u may be selected before t: the scan meets it first, or prefers it.
MayPrecede(u, t) ==
  LET q == threadQueue[processor[t]] IN
  Before(q, u, t) \/ (u \in ToSet(q) /\ dynamicPriority[u] > dynamicPriority[t])

\* Those that will not be selected before t any more.
Settled(t) == {u \in Threads \ {t} : ~MayPrecede(u, t)}

\* Each time t has aged beyond the highest priority settled another thread.
AgedAreNext ==
  \A t \in Threads :
    ready[t] /\ dynamicPriority[t] > Highest =>
      Cardinality(Settled(t)) >= dynamicPriority[t] - Highest

AgingInv ==
  /\ QueuesAreOwn
  /\ HandledAreCreated
  /\ OldAreWaiting
  /\ ChosenAreBounded
  /\ AgedAreNext
===============================================================================
