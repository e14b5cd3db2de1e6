------------------------------- MODULE Events -------------------------------
(***************************************************************************)
(* System events (src/src/nos/event.c) on the part of the object manager   *)
(* they use (src/src/nos/ob).  A driver that registers a handler, and one  *)
(* that opens an event to signal it, meet at the event object of an        *)
(* identifier, whichever comes first.  A signal is kept in the list of the *)
(* event for handlers registered later; RunEvents asks for a thread for    *)
(* every event in the list, again each time it is called.                  *)
(*                                                                         *)
(* Threads run on any processor and are preempted anywhere: an action is   *)
(* an access to something that another thread reads or writes meanwhile.   *)
(* Objects are numbered in the order of their type chain, which only grows *)
(* (event objects are permanent), handles in the order of their creation.  *)
(***************************************************************************)
EXTENDS Integers, Sequences, SequencesExt, FiniteSets

CONSTANTS
  Ids,           \* event identifiers
  Registrars,    \* threads that register a handler, which bears their name
  Signallers,    \* threads that open an event and signal it
  EventOf,       \* [Callers -> Ids]
  NumSignals,    \* bound: how often each signaller signals
  None

Callers == Registrars \cup Signallers

ASSUME EventsAssumption ==
  /\ IsFiniteSet(Callers) /\ Registrars \cap Signallers = {} /\ None \notin Callers
  /\ EventOf \in [Callers -> Ids] /\ NumSignals \in Nat

VARIABLES
  sl,            \* owner of the spin lock sl
  id,            \* the objects: the EventId of each
  preventDelete, \* owner of the mutex of each object
  list,          \* its events, from Events on: [by, number]
  previous,      \* Evt->Previous of an event, or None
  handlers,      \* its handlers, from Handlers on
  running,       \* Handler->Running
  clean,         \* the pool's memory for the handler had that bit clear
  handles,       \* the objects of the handles opened
  pc,
  object,        \* Obj of the thread's call
  handle,        \* the handle KeOpenEvent returned
  current,       \* the handler the thread's RunEvents is for, by position
  position,      \* the event it delivers next
  signals,       \* signals of the thread so far
  delivered,     \* the events KeCreateThread was called for, by handler
  existing       \* the events in the list when the handler was linked

eventObjects == <<id, handles>>
event   == <<preventDelete, list, previous, handlers, running, clean>>
call    == <<object, handle, current, position, signals>>
history == <<delivered, existing>>
eventVars    == <<sl, eventObjects, event, pc, call, history>>

Goto(t, label) == pc' = [pc EXCEPT ![t] = label]
At(t, label) == pc[t] = label
-----------------------------------------------------------------------------
(* Finding or creating the object of an event, under sl.                    *)

\* Mutant: the lock is taken whether it is free or not.
AcquireAnyway(t) ==
  /\ At(t, "Acquire")
  /\ sl' = t
  /\ Goto(t, "Find")
  /\ UNCHANGED <<eventObjects, event, call, history>>

\* KeRegisterEventHandler and KeOpenEvent begin alike.
ExAcquireSpinLock(t) ==
  /\ At(t, "Acquire") /\ sl = None
  /\ sl' = t
  /\ Goto(t, "Find")
  /\ UNCHANGED <<eventObjects, event, call, history>>

\* The first object of the type's chain with the identifier.
First(i) == CHOOSE o \in DOMAIN id : id[o] = i /\ \A n \in 1 .. o - 1 : id[n] # i

ObEnumerateObjects(t) ==
  /\ At(t, "Find")
  /\ IF EventOf[t] \in ToSet(id)
     THEN /\ object' = [object EXCEPT ![t] = First(EventOf[t])]
          /\ Goto(t, IF t \in Registrars THEN "LinkHandler" ELSE "Open")
     ELSE Goto(t, "Create") /\ UNCHANGED object
  /\ UNCHANGED <<sl, eventObjects, event, handle, current, position, signals, history>>

\* A permanent object at the end of the chain.  KeOpenEvent then releases the
\* lock and starts again.
ObCreateObject(t) ==
  /\ At(t, "Create")
  /\ id' = Append(id, EventOf[t])
  /\ list' = Append(list, <<>>) /\ handlers' = Append(handlers, <<>>)
  /\ preventDelete' = Append(preventDelete, None)
  /\ object' = [object EXCEPT ![t] = Len(id) + 1]
  /\ IF t \in Registrars THEN Goto(t, "LinkHandler") /\ UNCHANGED sl
                         ELSE Goto(t, "Acquire") /\ sl' = None
  /\ UNCHANGED <<handles, previous, running, clean, handle, current, position, signals, history>>

\* The handler is linked at the end of the list, its Running as the pool's
\* memory had it, and the lock is released.
LinkHandler(t) ==
  /\ At(t, "LinkHandler")
  /\ handlers' = [handlers EXCEPT ![object[t]] = Append(@, t)]
  /\ \E residue \in BOOLEAN : /\ running' = [running EXCEPT ![t] = residue]
                              /\ clean' = [clean EXCEPT ![t] = ~residue]
  /\ current' = [current EXCEPT ![t] = Len(handlers[object[t]]) + 1]
  /\ existing' = [existing EXCEPT ![t] = ToSet(list[object[t]])]
  /\ sl' = None
  /\ Goto(t, "RunEvents")
  /\ UNCHANGED <<eventObjects, preventDelete, list, previous, object, handle, position, signals, delivered>>

\* Does the kernel process have a handle of the object?
ObiGetOpenHandle(t) ==
  /\ At(t, "Open")
  /\ IF object[t] \in ToSet(handles)
     THEN /\ handle' = [handle EXCEPT ![t] = CHOOSE h \in DOMAIN handles : handles[h] = object[t]]
          /\ sl' = None
          /\ Goto(t, "Ready")
     ELSE Goto(t, "CreateHandle") /\ UNCHANGED <<handle, sl>>
  /\ UNCHANGED <<eventObjects, event, object, current, position, signals, history>>

ObiCreateHandle(t) ==
  /\ At(t, "CreateHandle")
  /\ handles' = Append(handles, object[t])
  /\ handle' = [handle EXCEPT ![t] = Len(handles) + 1]
  /\ sl' = None
  /\ Goto(t, "Ready")
  /\ UNCHANGED <<id, event, object, current, position, signals, history>>
-----------------------------------------------------------------------------
(* KeSignalEvent, under the mutex PreventDelete of the event.               *)

\* Mutant: the mutex is entered while another thread is in it.
EnterAnyway(t) ==
  /\ At(t, "Ready") /\ signals[t] < NumSignals
  /\ preventDelete' = [preventDelete EXCEPT ![handles[handle[t]]] = t]
  /\ signals' = [signals EXCEPT ![t] = @ + 1]
  /\ Goto(t, "Allocate")
  /\ UNCHANGED <<sl, eventObjects, list, previous, handlers, running, clean, object, handle,
                 current, position, history>>

ExMutexWait(t) ==
  /\ At(t, "Ready") /\ signals[t] < NumSignals
  /\ preventDelete[handles[handle[t]]] = None
  /\ preventDelete' = [preventDelete EXCEPT ![handles[handle[t]]] = t]
  /\ signals' = [signals EXCEPT ![t] = @ + 1]
  /\ Goto(t, "Allocate")
  /\ UNCHANGED <<sl, eventObjects, list, previous, handlers, running, clean, object, handle,
                 current, position, history>>

Signal(t) == [by |-> t, number |-> signals[t]]
LastEvent(o) == IF list[o] = <<>> THEN None ELSE Last(list[o])

\* Previous is read before the spin lock of the event is acquired.
Allocate(t) ==
  /\ At(t, "Allocate")
  /\ previous' = [previous EXCEPT ![Signal(t)] = LastEvent(object[t])]
  /\ Goto(t, "LinkEvent")
  /\ UNCHANGED <<sl, eventObjects, preventDelete, list, handlers, running, clean, call, history>>

\* The walk over the handlers begins at the first one.
LinkEvent(t) ==
  /\ At(t, "LinkEvent")
  /\ list' = [list EXCEPT ![object[t]] = Append(@, Signal(t))]
  /\ current' = [current EXCEPT ![t] = 1]
  /\ Goto(t, "Handler")
  /\ UNCHANGED <<sl, eventObjects, preventDelete, previous, handlers, running, clean, object, handle,
                 position, signals, history>>

NextHandler(t) ==
  /\ At(t, "Handler") /\ current[t] <= Len(handlers[object[t]])
  /\ Goto(t, "RunEvents")
  /\ UNCHANGED <<sl, eventObjects, event, call, history>>

ExMutexRelease(t) ==
  /\ At(t, "Handler") /\ current[t] > Len(handlers[object[t]])
  /\ preventDelete' = [preventDelete EXCEPT ![object[t]] = None]
  /\ Goto(t, "Ready")
  /\ UNCHANGED <<sl, eventObjects, list, previous, handlers, running, clean, call, history>>
-----------------------------------------------------------------------------
(* RunEvents, called for one handler by the thread that registers it and    *)
(* for every handler by a thread that signals.                              *)

Handler(t) == handlers[object[t]][current[t]]

\* The call is over: a registrar is done, a signaller takes the next handler.
Return(t) ==
  IF t \in Registrars THEN Goto(t, "Registered") /\ UNCHANGED current
  ELSE Goto(t, "Handler") /\ current' = [current EXCEPT ![t] = @ + 1]

\* Mutant: a walk that has nothing to deliver leaves Running set.
RunEventsLeavesRunning(t) ==
  /\ At(t, "RunEvents")
  /\ running' = [running EXCEPT ![Handler(t)] = TRUE]
  /\ IF running[Handler(t)] \/ list[object[t]] = <<>>
     THEN Return(t) /\ UNCHANGED position
     ELSE /\ position' = [position EXCEPT ![t] = 1]
          /\ Goto(t, "Walk")
          /\ UNCHANGED current
  /\ UNCHANGED <<sl, eventObjects, preventDelete, list, previous, handlers, clean, object, handle,
                 signals, history>>

\* Mutant: the walk begins with the event signalled last.
RunLastEvent(t) ==
  /\ At(t, "RunEvents")
  /\ running' = [running EXCEPT ![Handler(t)] = TRUE]
  /\ IF running[Handler(t)] THEN Return(t) /\ UNCHANGED position
     ELSE /\ position' = [position EXCEPT ![t] = Len(list[object[t]])]
          /\ Goto(t, IF list[object[t]] = <<>> THEN "Reset" ELSE "Walk")
          /\ UNCHANGED current
  /\ UNCHANGED <<sl, eventObjects, preventDelete, list, previous, handlers, clean, object, handle,
                 signals, history>>

\* A handler found running is skipped.  The bit and the head of the list are one
\* step: signals exclude each other, so none is skipped between the two whose
\* event the head does not already show.
RunEvents(t) ==
  /\ At(t, "RunEvents")
  /\ running' = [running EXCEPT ![Handler(t)] = TRUE]
  /\ IF running[Handler(t)] THEN Return(t) /\ UNCHANGED position
     ELSE /\ position' = [position EXCEPT ![t] = 1]
          /\ Goto(t, IF list[object[t]] = <<>> THEN "Reset" ELSE "Walk")
          /\ UNCHANGED current
  /\ UNCHANGED <<sl, eventObjects, preventDelete, list, previous, handlers, clean, object, handle,
                 signals, history>>

\* KeCreateThread is called for the event, then its Next is read. When the call
\* fails RunEvents logs it and goes on: the handler does not get the event then,
\* and nothing here changes.
StartHandler(t) ==
  /\ At(t, "Walk")
  /\ delivered' = [delivered EXCEPT ![Handler(t)] = @ \cup {list[object[t]][position[t]]}]
  /\ position' = [position EXCEPT ![t] = @ + 1]
  /\ Goto(t, IF position[t] = Len(list[object[t]]) THEN "Reset" ELSE "Walk")
  /\ UNCHANGED <<sl, eventObjects, event, object, handle, current, signals, existing>>

Reset(t) ==
  /\ At(t, "Reset")
  /\ running' = [running EXCEPT ![Handler(t)] = FALSE]
  /\ Return(t)
  /\ UNCHANGED <<sl, eventObjects, preventDelete, list, previous, handlers, clean, object, handle,
                 position, signals, history>>
-----------------------------------------------------------------------------
AllSignals == [by : Signallers, number : 1 .. NumSignals]

EventsInit ==
  /\ sl = None /\ id = <<>> /\ handles = <<>>
  /\ preventDelete = <<>> /\ list = <<>> /\ handlers = <<>>
  /\ previous = [e \in AllSignals |-> None]
  /\ running = [r \in Registrars |-> FALSE] /\ clean = [r \in Registrars |-> TRUE]
  /\ pc = [t \in Callers |-> "Acquire"]
  /\ object = [t \in Callers |-> 0] /\ handle = [t \in Signallers |-> 0]
  /\ current = [t \in Callers |-> 0] /\ position = [t \in Callers |-> 0]
  /\ signals = [t \in Signallers |-> 0]
  /\ delivered = [r \in Registrars |-> {}] /\ existing = [r \in Registrars |-> {}]

KeOpenEvent(t) == ObiGetOpenHandle(t) \/ ObiCreateHandle(t)
KeSignalEvent(t) ==
  ExMutexWait(t) \/ Allocate(t) \/ LinkEvent(t) \/ NextHandler(t) \/ ExMutexRelease(t)

Step(t) ==
  \/ ExAcquireSpinLock(t) \/ ObEnumerateObjects(t) \/ ObCreateObject(t)
  \/ RunEvents(t) \/ StartHandler(t) \/ Reset(t)
  \/ t \in Registrars /\ LinkHandler(t)
  \/ t \in Signallers /\ (KeOpenEvent(t) \/ KeSignalEvent(t))

EventsNext == \E t \in Callers : Step(t)

EventsSpec == EventsInit /\ [][EventsNext]_eventVars
-----------------------------------------------------------------------------
\* Those who register and those who open an event at the same time meet: there
\* is one object for every identifier, and one handle for every object opened.
Meet == IsInjective(id) /\ IsInjective(handles)

\* Previous, read before the lock, is the event before it in the list, for a
\* later KeRemoveEvent to unlink it: signallers of one event exclude each other.
PreviousLinks ==
  \A o \in DOMAIN list : \A i \in DOMAIN list[o] :
    previous[list[o][i]] = IF i = 1 THEN None ELSE list[o][i - 1]

Walking(h) ==
  {t \in Callers : pc[t] \in {"Walk", "Reset"} /\ Handler(t) = h}

\* The Running bit of a handler is set while exactly one thread runs its events,
\* and never longer: a bit left set would silence the handler for ever. It is about
\* handlers that found the bit clear in their memory, which nothing initialises.
RunningHasRunner ==
  \A h \in Registrars :
    clean[h] => Cardinality(Walking(h)) = IF running[h] THEN 1 ELSE 0

\* "Run event handler for existing events": a thread has been asked for for every
\* event that was in the list when the handler was registered, whoever ran it
\* first. (That KeCreateThread succeeds is not part of it.)
ExistingDelivered ==
  \A r \in Registrars :
    clean[r] /\ pc[r] = "Registered" /\ ~running[r] => existing[r] \subseteq delivered[r]
=============================================================================
