----------------------------- MODULE ThreadQueue -----------------------------
(***************************************************************************)
(* The ready queue and the sleep queue of one processor as the kernel      *)
(* keeps them (src/src/nos/task/schedule.c): doubly linked lists through   *)
(* the one queue entry every thread has, with a pointer to the top and to  *)
(* the bottom of each list.  Every operation runs on the processor the     *)
(* lists belong to with interrupts disabled, so that each is one step;     *)
(* within it the stores happen in the order of the code.                   *)
(***************************************************************************)
EXTENDS Integers, FiniteSets, SequencesExt

CONSTANTS Threads, Null

ASSUME ThreadQueueAssumption == IsFiniteSet(Threads) /\ Null \notin Threads

Queues == {"ThreadQueue", "SleepQueue"}

VARIABLE memory   \* [top, bottom: of each queue; next, previous, ready: of each
                  \*  thread; fault: NULL was stored through, or an SC_BUG0
                  \*  check has stopped the processor]

vars == memory

Fault(m) == [m EXCEPT !.fault = TRUE]
StoreNext(m, e, v) == IF e = Null THEN Fault(m) ELSE [m EXCEPT !.next[e] = v]
StorePrevious(m, e, v) == IF e = Null THEN Fault(m) ELSE [m EXCEPT !.previous[e] = v]

\* Mutant: the entry is put behind the bottom, which stays where it was.
LinkAboveBottom(m, q, t) ==
  IF m.top[q] # Null
  THEN StorePrevious(StoreNext(m, m.bottom[q], t), t, m.bottom[q])
  ELSE [m EXCEPT !.top[q] = t, !.bottom[q] = t]

\* The entry of t behind the bottom of the queue; its own Next is not written.
LinkBottom(m, q, t) ==
  IF m.top[q] # Null
  THEN [StorePrevious(StoreNext(m, m.bottom[q], t), t, m.bottom[q]) EXCEPT !.bottom[q] = t]
  ELSE [m EXCEPT !.top[q] = t, !.bottom[q] = t]

\* The entry of t unhooked from its neighbours, in the four cases of the code.
Unhook(m, q, t) ==
  CASE m.top[q] = t /\ m.bottom[q] = t -> [m EXCEPT !.top[q] = Null, !.bottom[q] = Null]
    [] m.top[q] = t /\ m.bottom[q] # t ->
         StorePrevious([m EXCEPT !.top[q] = m.next[t]], m.next[t], Null)
    [] m.top[q] # t /\ m.bottom[q] = t ->
         StoreNext([m EXCEPT !.bottom[q] = m.previous[t]], m.previous[t], Null)
    [] OTHER -> StorePrevious(StoreNext(m, m.previous[t], m.next[t]), m.next[t], m.previous[t])

\* Mutant: the links of the entry taken out are left as they were.
LeaveEntry(m, t) == m

\* Then the entry itself is cleared.
ClearEntry(m, t) == [m EXCEPT !.previous[t] = Null, !.next[t] = Null]

ScLinkReadyThreadBottom(m, t) ==
  IF m.ready[t] THEN Fault(m) ELSE [LinkBottom(m, "ThreadQueue", t) EXCEPT !.ready[t] = TRUE]

ScUnlinkReadyThread(m, t) ==
  IF ~m.ready[t] THEN Fault(m)
  ELSE [ClearEntry(Unhook(m, "ThreadQueue", t), t) EXCEPT !.ready[t] = FALSE]

ScLinkSleepThreadBottom(m, t) ==
  IF m.ready[t] THEN Fault(m) ELSE LinkBottom(m, "SleepQueue", t)

\* Mutant: the entry is unhooked from the ready queue.
UnlinkFromReadyQueue(m, t) ==
  IF m.ready[t] THEN Fault(m) ELSE ClearEntry(Unhook(m, "ThreadQueue", t), t)

ScUnlinkSleepThread(m, t) ==
  IF m.ready[t] THEN Fault(m) ELSE ClearEntry(Unhook(m, "SleepQueue", t), t)
-----------------------------------------------------------------------------
(* A list followed from one end.  With more links than threads it is        *)
(* circular, and longer than any list of different threads.                 *)

\* Where a link leads; nothing is behind Null.
After(link) == [e \in Threads \cup {Null} |-> IF e = Null THEN Null ELSE link[e]]

\* The n-th entry of the list that starts with first, Null behind its end.
Chain(link, first) ==
  LET after == After(link)
      entry[n \in Nat] == IF n <= 1 THEN first ELSE after[entry[n - 1]]
  IN  entry

Follow(link, first) ==
  LET chain == Chain(link, first)
      length == Cardinality({n \in 1 .. Cardinality(Threads) + 1 : chain[n] # Null})
  IN  IF first = Null THEN <<>> ELSE [n \in 1 .. length |-> chain[n]]

Forward(q) == Follow(memory.next, memory.top[q])
Backward(q) == Follow(memory.previous, memory.bottom[q])

InQueue(q, t) == t \in ToSet(Forward(q))
-----------------------------------------------------------------------------
Init ==
  memory = [top |-> [q \in Queues |-> Null], bottom |-> [q \in Queues |-> Null],
            next |-> [t \in Threads |-> Null], previous |-> [t \in Threads |-> Null],
            ready |-> [t \in Threads |-> FALSE], fault |-> FALSE]

\* A thread that is in no queue is made ready: created, given a priority before
\* it was started, resumed, or chosen by Schedule.
Link(t) ==
  /\ ~memory.fault
  /\ \A q \in Queues : ~InQueue(q, t)
  /\ memory' = ScLinkReadyThreadBottom(memory, t)

\* A ready thread is chosen by Schedule, suspended, or exits.
Unlink(t) ==
  /\ ~memory.fault
  /\ memory.ready[t]
  /\ memory' = ScUnlinkReadyThread(memory, t)

\* Sleep moves the running thread, which is ready.
FallAsleep(t) ==
  /\ ~memory.fault
  /\ memory.ready[t]
  /\ memory' = ScLinkSleepThreadBottom(ScUnlinkReadyThread(memory, t), t)

\* Schedule finds a due thread anywhere in the sleep queue and links it.
Wake(t) ==
  /\ ~memory.fault
  /\ InQueue("SleepQueue", t)
  /\ memory' = ScLinkReadyThreadBottom(ScUnlinkSleepThread(memory, t), t)

Next == \E t \in Threads : Link(t) \/ Unlink(t) \/ FallAsleep(t) \/ Wake(t)

Spec == Init /\ [][Next]_vars
-----------------------------------------------------------------------------
(* Properties.                                                              *)

\* What is in the queues, read from their tops, is what ThreadLists promises:
\* no order of linking and unlinking at the top, in the middle, at the bottom
\* or of the only entry loses a thread, repeats one or changes the order.
Lists == INSTANCE ThreadLists WITH
           Processors <- {0},
           ready <- [p \in {0} |-> Forward("ThreadQueue")],
           sleeping <- [p \in {0} |-> Forward("SleepQueue")]
ListsPromise == Lists!Spec

\* The Previous links, read from the bottoms, give the same threads in reverse:
\* the next unlinking in the middle relies on them.
BothWays == \A q \in Queues : Backward(q) = Reverse(Forward(q))

\* No operation stores through a NULL pointer or meets its SC_BUG0 check.
NoFault == ~memory.fault
=============================================================================
