------------------------------ MODULE EventsProofs ------------------------------
(* Registrars and signallers of any number meet at one event object, and a    *)
(* handler gets the events that were there before it.                         *)
EXTENDS Events, FiniteSetTheorems, SequenceTheorems, TLAPS

\* The points of a call under the spin lock sl, and under the mutex of the event.
UnderLock == {"Find", "Create", "LinkHandler", "Open", "CreateHandle"}
UnderMutex == {"Allocate", "LinkEvent", "Handler", "RunEvents", "Walk", "Reset"}
Linked == {"RunEvents", "Walk", "Reset", "Registered"}

RegistrarSteps == {"Acquire", "Find", "Create", "LinkHandler"} \cup Linked
SignallerSteps == {"Acquire", "Find", "Create", "Open", "CreateHandle", "Ready"} \cup UnderMutex

Steps == RegistrarSteps \cup SignallerSteps

ListTypes ==
  /\ id \in Seq(Ids) /\ handles \in Seq(Nat)
  /\ preventDelete \in Seq(Callers \cup {None})
  /\ list \in Seq(Seq(AllSignals)) /\ handlers \in Seq(Seq(Registrars))

CallTypes ==
  /\ sl \in Callers \cup {None}
  /\ previous \in [AllSignals -> AllSignals \cup {None}]
  /\ running \in [Registrars -> BOOLEAN] /\ clean \in [Registrars -> BOOLEAN]
  /\ pc \in [Callers -> Steps]
  /\ object \in [Callers -> Nat] /\ handle \in [Signallers -> Nat]
  /\ current \in [Callers -> Nat] /\ position \in [Callers -> Nat]
  /\ signals \in [Signallers -> Nat]
  /\ delivered \in [Registrars -> SUBSET AllSignals] /\ existing \in [Registrars -> SUBSET AllSignals]

EventTypes == ListTypes /\ CallTypes

\* What the numbers of a call stand for is there.
PlacesInv ==
  /\ Len(preventDelete) = Len(id) /\ Len(list) = Len(id) /\ Len(handlers) = Len(id)
  /\ \A h \in 1 .. Len(handles) : handles[h] \in 1 .. Len(id)
  /\ \A t \in Registrars : pc[t] \in RegistrarSteps
  /\ \A t \in Signallers : pc[t] \in SignallerSteps
  /\ \A t \in Callers : pc[t] \notin {"Acquire", "Find", "Create"} => object[t] \in 1 .. Len(id)
  /\ \A t \in Signallers : pc[t] \in {"Ready"} \cup UnderMutex =>
       handle[t] \in 1 .. Len(handles) /\ handles[handle[t]] = object[t]
  /\ \A t \in Callers : pc[t] \in {"RunEvents", "Walk", "Reset"} =>
       current[t] \in 1 .. Len(handlers[object[t]])
  /\ \A t \in Callers : pc[t] = "Walk" => position[t] \in 1 .. Len(list[object[t]])
  /\ \A t \in Callers : pc[t] = "Handler" => current[t] > 0

\* The spin lock has one owner, who knows what is missing.
LockInv ==
  /\ \A t \in Callers : pc[t] \in UnderLock => sl = t
  /\ \A t \in Callers : pc[t] = "Create" => \A o \in 1 .. Len(id) : id[o] # EventOf[t]
  /\ \A t \in Callers : pc[t] = "CreateHandle" => \A h \in 1 .. Len(handles) : handles[h] # object[t]
  /\ \A o, n \in 1 .. Len(id) : id[o] = id[n] => o = n
  /\ \A h, n \in 1 .. Len(handles) : handles[h] = handles[n] => h = n

\* The mutex has one owner, whose new event is in no list yet and follows the last
\* one.
MutexInv ==
  /\ \A t \in Signallers : pc[t] \in UnderMutex => preventDelete[object[t]] = t
  /\ \A t \in Signallers : signals[t] <= NumSignals /\ (pc[t] \in {"Allocate", "LinkEvent"} => signals[t] > 0)
  /\ \A o \in 1 .. Len(list) : \A i \in 1 .. Len(list[o]) :
       LET e == list[o][i] IN
       e.number <= signals[e.by] /\ (pc[e.by] \in {"Allocate", "LinkEvent"} => e # Signal(e.by))
  /\ \A o \in 1 .. Len(list) : \A i \in 1 .. Len(list[o]) :
       previous[list[o][i]] = IF i = 1 THEN None ELSE list[o][i - 1]
  /\ \A t \in Signallers : pc[t] = "LinkEvent" => previous[Signal(t)] = LastEvent(object[t])

\* A handler is in the list of its own object, once it is linked.
HandlersInv ==
  /\ \A o \in 1 .. Len(handlers) : \A i \in 1 .. Len(handlers[o]) :
       pc[handlers[o][i]] \in Linked /\ object[handlers[o][i]] = o
  /\ \A r \in Registrars : pc[r] \in {"RunEvents", "Walk", "Reset"} => Handler(r) = r
  /\ \A r \in Registrars : pc[r] \in Linked =>
       \A e \in existing[r] : \E i \in 1 .. Len(list[object[r]]) : list[object[r]][i] = e

\* Running is set while one thread walks, which has delivered what it has passed.
RunningInv ==
  /\ \A r \in Registrars : clean[r] /\ ~running[r] => \A t \in Callers : t \notin Walking(r)
  /\ \A r \in Registrars : clean[r] /\ running[r] =>
       \E t \in Walking(r) : \A u \in Walking(r) : u = t
  /\ \A t \in Callers : pc[t] = "Walk" =>
       \A i \in 1 .. position[t] - 1 : list[object[t]][i] \in delivered[Handler(t)]
  /\ \A t \in Callers : pc[t] = "Reset" => existing[Handler(t)] \subseteq delivered[Handler(t)]
  /\ \A r \in Registrars : clean[r] /\ pc[r] \in Linked \ {"RunEvents"} =>
       running[r] \/ existing[r] \subseteq delivered[r]

EventsInv ==
  /\ EventTypes
  /\ PlacesInv
  /\ LockInv
  /\ MutexInv
  /\ HandlersInv
  /\ RunningInv

-------------------------------------------------------------------------------
(* Lists of lists.                                                            *)

\* An element appended to the list at one place.
LEMMA AppendAt ==
  ASSUME NEW S, NEW s \in Seq(Seq(S)), NEW o \in 1 .. Len(s), NEW e \in S,
         NEW r, r = [s EXCEPT ![o] = Append(@, e)]
  PROVE  /\ r \in Seq(Seq(S)) /\ Len(r) = Len(s)
         /\ \A p \in 1 .. Len(s) : p # o => r[p] = s[p]
         /\ Len(r[o]) = Len(s[o]) + 1 /\ r[o][Len(s[o]) + 1] = e
         /\ \A i \in 1 .. Len(s[o]) : r[o][i] = s[o][i]
<1>1. s[o] \in Seq(S)
  BY ElementOfSeq
<1>2. PICK l \in Seq(S) : l = Append(s[o], e)
  BY <1>1, AppendProperties
<1>3. r = [s EXCEPT ![o] = l]
  BY <1>2
<1>4. r \in Seq(Seq(S)) /\ Len(r) = Len(s) /\ \A p \in 1 .. Len(s) : r[p] = IF p = o THEN l ELSE s[p]
  <2>1. /\ [s EXCEPT ![o] = l] \in Seq(Seq(S)) /\ Len([s EXCEPT ![o] = l]) = Len(s)
        /\ \A p \in 1 .. Len(s) : [s EXCEPT ![o] = l][p] = IF p = o THEN l ELSE s[p]
    BY ExceptSeq
  <2>2. QED BY <1>3, <2>1
<1>5. /\ Len(l) = Len(s[o]) + 1 /\ l[Len(s[o]) + 1] = e
      /\ \A i \in 1 .. Len(s[o]) : l[i] = s[o][i]
  BY <1>1, <1>2, AppendProperties
<1>6. QED BY <1>4, <1>5

\* An empty list appended to the lists.
LEMMA AppendEmpty ==
  ASSUME NEW S, NEW s \in Seq(Seq(S))
  PROVE  /\ Append(s, <<>>) \in Seq(Seq(S)) /\ Len(Append(s, <<>>)) = Len(s) + 1
         /\ \A p \in 1 .. Len(s) : Append(s, <<>>)[p] = s[p]
         /\ Append(s, <<>>)[Len(s) + 1] = <<>>
<1>1. <<>> \in Seq(S)
  BY EmptySeq
<1>2. QED BY <1>1, AppendProperties

\* What is at the places of the lists.
LEMMA Elements ==
  ASSUME EventTypes, PlacesInv
  PROVE  /\ \A o \in 1 .. Len(id) : list[o] \in Seq(AllSignals) /\ handlers[o] \in Seq(Registrars)
         /\ \A o \in 1 .. Len(id) : \A i \in 1 .. Len(list[o]) : list[o][i] \in AllSignals
         /\ \A o \in 1 .. Len(id) : \A i \in 1 .. Len(handlers[o]) : handlers[o][i] \in Registrars
         /\ \A o \in 1 .. Len(id) : Len(list[o]) \in Nat /\ Len(handlers[o]) \in Nat
         /\ Len(id) \in Nat /\ Len(handles) \in Nat
         /\ \A t \in Callers : pc[t] \in {"RunEvents", "Walk", "Reset"} => Handler(t) \in Registrars
         /\ \A t \in Signallers : pc[t] \in {"Allocate", "LinkEvent"} => signals[t] \in Nat
<1> USE DEF EventTypes, ListTypes, CallTypes, PlacesInv
<1>1. \A o \in 1 .. Len(id) : list[o] \in Seq(AllSignals) /\ handlers[o] \in Seq(Registrars)
  BY ElementOfSeq
<1>2. /\ \A o \in 1 .. Len(id) : \A i \in 1 .. Len(list[o]) : list[o][i] \in AllSignals
      /\ \A o \in 1 .. Len(id) : \A i \in 1 .. Len(handlers[o]) : handlers[o][i] \in Registrars
  BY <1>1, ElementOfSeq
<1>3. \A o \in 1 .. Len(id) : Len(list[o]) \in Nat /\ Len(handlers[o]) \in Nat
  BY <1>1, LenProperties
<1>4. \A t \in Callers : pc[t] \in {"RunEvents", "Walk", "Reset"} => Handler(t) \in Registrars
  BY <1>2 DEF Handler
<1>5. QED BY <1>1, <1>2, <1>3, <1>4, LenProperties

\* The enumeration returns an object of the chain.
LEMMA FirstThere ==
  ASSUME EventTypes, LockInv, NEW i, i \in ToSet(id)
  PROVE  First(i) \in 1 .. Len(id) /\ id[First(i)] = i
<1>1. DOMAIN id = 1 .. Len(id) /\ Len(id) \in Nat
  BY DEF EventTypes, ListTypes, CallTypes
<1>2. PICK o \in 1 .. Len(id) : id[o] = i
  BY <1>1 DEF ToSet
<1>3. \A n \in 1 .. o - 1 : id[n] # i
  BY <1>1, <1>2 DEF LockInv
<1>4. \E p \in DOMAIN id : id[p] = i /\ \A n \in 1 .. p - 1 : id[n] # i
  BY <1>1, <1>2, <1>3
<1>5. QED BY <1>1, <1>4 DEF First

\* The event of a signaller is one of the signals.
LEMMA NewSignal ==
  ASSUME EventTypes, MutexInv, NEW t \in Signallers, pc[t] \in {"Allocate", "LinkEvent"}
  PROVE  Signal(t) \in AllSignals
<1>1. signals[t] \in Nat /\ signals[t] > 0 /\ signals[t] <= NumSignals
  BY DEF EventTypes, ListTypes, CallTypes, MutexInv
<1>2. QED BY <1>1, EventsAssumption DEF Signal, AllSignals

-------------------------------------------------------------------------------
(* What a step may do.                                                        *)

\* It leaves the call of every other thread alone.
LEMMA Others ==
  ASSUME EventTypes, NEW t \in Callers, Step(t), NEW u \in Callers, u # t
  PROVE  /\ pc'[u] = pc[u] /\ object'[u] = object[u] /\ current'[u] = current[u]
         /\ position'[u] = position[u]
         /\ u \in Signallers => handle'[u] = handle[u] /\ signals'[u] = signals[u]
         /\ u \in Registrars => existing'[u] = existing[u] /\ clean'[u] = clean[u]
<1> USE DEF EventTypes, ListTypes, CallTypes, Goto, eventObjects, event, call, history
<1>1. CASE ExAcquireSpinLock(t) \/ ObEnumerateObjects(t) \/ ObCreateObject(t)
  BY <1>1 DEF ExAcquireSpinLock, ObEnumerateObjects, ObCreateObject
<1>2. CASE RunEvents(t) \/ StartHandler(t) \/ Reset(t)
  BY <1>2 DEF RunEvents, StartHandler, Reset, Return
<1>3. CASE t \in Registrars /\ LinkHandler(t)
  BY <1>3 DEF LinkHandler
<1>4. CASE t \in Signallers /\ KeOpenEvent(t)
  BY <1>4 DEF KeOpenEvent, ObiGetOpenHandle, ObiCreateHandle
<1>5. CASE t \in Signallers /\ KeSignalEvent(t)
  BY <1>5 DEF KeSignalEvent, ExMutexWait, Allocate, LinkEvent, NextHandler, ExMutexRelease
<1>6. QED BY <1>1, <1>2, <1>3, <1>4, <1>5 DEF Step

\* Objects, handles, events and handlers are added at the end, never removed.
LEMMA Grows ==
  ASSUME EventTypes, PlacesInv, MutexInv, NEW t \in Callers, Step(t)
  PROVE  /\ id' \in Seq(Ids) /\ handles' \in Seq(Nat)
         /\ preventDelete' \in Seq(Callers \cup {None})
         /\ list' \in Seq(Seq(AllSignals))
         /\ handlers' \in Seq(Seq(Registrars))
         /\ Len(id') \in Nat /\ Len(id) <= Len(id') /\ Len(handles') \in Nat /\ Len(handles) <= Len(handles')
         /\ Len(preventDelete') = Len(id') /\ Len(list') = Len(id') /\ Len(handlers') = Len(id')
         /\ \A o \in 1 .. Len(id) :
              /\ id'[o] = id[o]
              /\ Len(handlers[o]) <= Len(handlers'[o]) /\ Len(handlers'[o]) \in Nat
              /\ \A i \in 1 .. Len(handlers[o]) : handlers'[o][i] = handlers[o][i]
              /\ Len(list[o]) <= Len(list'[o]) /\ Len(list'[o]) \in Nat
              /\ \A i \in 1 .. Len(list[o]) : list'[o][i] = list[o][i]
         /\ \A h \in 1 .. Len(handles) : handles'[h] = handles[h]
<1> USE DEF Goto, At, eventObjects, event, call, history
<1>000. EventTypes /\ PlacesInv
  OBVIOUS
<1>0. \A o \in 1 .. Len(id) : Len(list[o]) \in Nat /\ Len(handlers[o]) \in Nat
  BY Elements
<1>00. Len(id) \in Nat /\ Len(handles) \in Nat
  BY Elements
<1>1. CASE ObCreateObject(t)
  <2>1. /\ id' = Append(id, EventOf[t]) /\ list' = Append(list, <<>>) /\ handlers' = Append(handlers, <<>>)
        /\ preventDelete' = Append(preventDelete, None) /\ handles' = handles
    BY <1>1 DEF ObCreateObject
  <2>2. EventOf[t] \in Ids
    BY EventsAssumption
  <2>3. id' \in Seq(Ids) /\ Len(id') = Len(id) + 1 /\ \A o \in 1 .. Len(id) : id'[o] = id[o]
    BY <1>000, <2>1, <2>2, AppendProperties DEF EventTypes, ListTypes, CallTypes
  <2>4. preventDelete' \in Seq(Callers \cup {None}) /\ Len(preventDelete') = Len(preventDelete) + 1
    <3> DEFINE T == Callers \cup {None}
    <3>1. preventDelete \in Seq(T) /\ None \in T
      BY <1>000 DEF EventTypes, ListTypes, CallTypes
    <3> HIDE DEF T
    <3>2. preventDelete' \in Seq(T) /\ Len(preventDelete') = Len(preventDelete) + 1
      BY <2>1, <3>1, AppendProperties
    <3>3. QED BY <3>2 DEF T
  <2>5. /\ list' \in Seq(Seq(AllSignals)) /\ Len(list') = Len(list) + 1
        /\ \A o \in 1 .. Len(list) : list'[o] = list[o]
    BY <1>000, <2>1, AppendEmpty DEF EventTypes, ListTypes, CallTypes
  <2>6. /\ handlers' \in Seq(Seq(Registrars)) /\ Len(handlers') = Len(handlers) + 1
        /\ \A o \in 1 .. Len(handlers) : handlers'[o] = handlers[o]
    BY <1>000, <2>1, AppendEmpty DEF EventTypes, ListTypes, CallTypes
  <2>7. \A o \in 1 .. Len(id) : list'[o] = list[o] /\ handlers'[o] = handlers[o]
    BY <1>000, <2>5, <2>6 DEF PlacesInv
  <2>8. ASSUME NEW o \in 1 .. Len(id) PROVE
          /\ Len(handlers[o]) <= Len(handlers'[o]) /\ Len(handlers'[o]) \in Nat
          /\ \A i \in 1 .. Len(handlers[o]) : handlers'[o][i] = handlers[o][i]
          /\ Len(list[o]) <= Len(list'[o]) /\ Len(list'[o]) \in Nat
          /\ \A i \in 1 .. Len(list[o]) : list'[o][i] = list[o][i]
    BY <1>0, <2>7
  <2>9. Len(id') \in Nat /\ Len(handles') \in Nat /\ Len(handles) <= Len(handles') /\ Len(id) <= Len(id')
    BY <1>00, <2>1, <2>3
  <2>10. Len(preventDelete') = Len(id') /\ Len(list') = Len(id') /\ Len(handlers') = Len(id')
    BY <1>000, <2>3, <2>4, <2>5, <2>6 DEF PlacesInv
  <2>11. handles' \in Seq(Nat) /\ \A h \in 1 .. Len(handles) : handles'[h] = handles[h]
    BY <1>000, <2>1 DEF EventTypes, ListTypes, CallTypes
  <2>12. QED BY <2>3, <2>4, <2>5, <2>6, <2>8, <2>9, <2>10, <2>11
<1>2. CASE t \in Registrars /\ LinkHandler(t)
  <2>1. PICK o \in 1 .. Len(handlers) : o = object[t]
    BY <1>000, <1>2 DEF PlacesInv, LinkHandler
  <2>2. handlers' = [handlers EXCEPT ![o] = Append(@, t)] /\ UNCHANGED <<id, handles, preventDelete, list>>
    BY <1>2, <2>1 DEF LinkHandler
  <2>3. /\ handlers' \in Seq(Seq(Registrars)) /\ Len(handlers') = Len(handlers)
        /\ \A p \in 1 .. Len(handlers) : p # o => handlers'[p] = handlers[p]
        /\ Len(handlers'[o]) = Len(handlers[o]) + 1
        /\ \A i \in 1 .. Len(handlers[o]) : handlers'[o][i] = handlers[o][i]
    BY SMTT(30), <1>000, <1>2, <2>2, AppendAt DEF EventTypes, ListTypes, CallTypes
  <2>4. QED BY SMTT(30), <1>0, <1>00, <1>000, <2>2, <2>3 DEF EventTypes, ListTypes, CallTypes, PlacesInv
<1>3. CASE t \in Signallers /\ ObiCreateHandle(t)
  <2>1. handles' = Append(handles, object[t]) /\ UNCHANGED <<id, preventDelete, list, handlers>>
    BY <1>3 DEF ObiCreateHandle
  <2>2. object[t] \in Nat
    BY <1>000 DEF EventTypes, ListTypes, CallTypes
  <2>3. /\ handles' \in Seq(Nat) /\ Len(handles') = Len(handles) + 1
        /\ \A h \in 1 .. Len(handles) : handles'[h] = handles[h]
    BY <1>000, <2>1, <2>2, AppendProperties DEF EventTypes, ListTypes, CallTypes
  <2>4. QED BY <1>0, <1>00, <1>000, <2>1, <2>3 DEF EventTypes, ListTypes, CallTypes, PlacesInv
<1>4. CASE t \in Signallers /\ (ExMutexWait(t) \/ ExMutexRelease(t))
  <2>1. PICK o \in 1 .. Len(preventDelete), m \in Callers \cup {None} :
          preventDelete' = [preventDelete EXCEPT ![o] = m]
    BY <1>000, <1>4 DEF EventTypes, ListTypes, CallTypes, PlacesInv, ExMutexWait, ExMutexRelease, UnderMutex
  <2>2. preventDelete' \in Seq(Callers \cup {None}) /\ Len(preventDelete') = Len(preventDelete)
    BY <1>000, <2>1, ExceptSeq DEF EventTypes, ListTypes, CallTypes
  <2>3. UNCHANGED <<id, handles, list, handlers>>
    BY <1>4 DEF ExMutexWait, ExMutexRelease
  <2>4. QED BY <1>0, <1>00, <1>000, <2>2, <2>3 DEF EventTypes, ListTypes, CallTypes, PlacesInv
<1>5. CASE t \in Signallers /\ LinkEvent(t)
  <2>1. PICK o \in 1 .. Len(list) : o = object[t]
    BY <1>000, <1>5 DEF PlacesInv, LinkEvent
  <2>2. PICK e \in AllSignals : e = Signal(t)
    BY <1>5, NewSignal DEF LinkEvent
  <2>3. list' = [list EXCEPT ![o] = Append(@, e)] /\ UNCHANGED <<id, handles, preventDelete, handlers>>
    BY <1>5, <2>1, <2>2 DEF LinkEvent
  <2>4. /\ list' \in Seq(Seq(AllSignals)) /\ Len(list') = Len(list)
        /\ \A p \in 1 .. Len(list) : p # o => list'[p] = list[p]
        /\ Len(list'[o]) = Len(list[o]) + 1
        /\ \A i \in 1 .. Len(list[o]) : list'[o][i] = list[o][i]
    BY SMTT(30), <1>000, <2>3, AppendAt DEF EventTypes, ListTypes, CallTypes
  <2>5. ASSUME NEW p \in 1 .. Len(id) PROVE
          /\ Len(list[p]) <= Len(list'[p]) /\ Len(list'[p]) \in Nat
          /\ \A i \in 1 .. Len(list[p]) : list'[p][i] = list[p][i]
    <3>1. p \in 1 .. Len(list) /\ Len(list[o]) \in Nat
      BY <1>0, <1>000 DEF PlacesInv
    <3>2. CASE p = o
      BY <1>0, <2>4, <3>2
    <3>3. CASE p # o
      BY SMTT(30), <1>0, <2>4, <3>1, <3>3
    <3>4. QED BY <3>2, <3>3
  <2>6. /\ Len(preventDelete') = Len(id') /\ Len(list') = Len(id') /\ Len(handlers') = Len(id')
        /\ Len(id') \in Nat /\ Len(handles') \in Nat
        /\ \A p \in 1 .. Len(id) : Len(handlers'[p]) \in Nat
    BY <1>0, <1>00, <1>000, <2>3, <2>4 DEF PlacesInv
  <2>7. QED BY SMTT(30), <1>0, <1>00, <1>000, <2>3, <2>4, <2>5, <2>6 DEF EventTypes, ListTypes
<1>6. CASE \/ ExAcquireSpinLock(t) \/ ObEnumerateObjects(t) \/ RunEvents(t) \/ StartHandler(t) \/ Reset(t)
           \/ ObiGetOpenHandle(t) \/ Allocate(t) \/ NextHandler(t)
  <2>1. UNCHANGED <<id, handles, preventDelete, list, handlers>>
    BY <1>6 DEF ExAcquireSpinLock, ObEnumerateObjects, RunEvents, StartHandler, Reset, ObiGetOpenHandle,
          Allocate, NextHandler
  <2>2. QED BY <1>0, <1>00, <1>000, <2>1 DEF EventTypes, ListTypes, CallTypes, PlacesInv
<1>7. QED BY <1>1, <1>2, <1>3, <1>4, <1>5, <1>6 DEF Step, KeOpenEvent, KeSignalEvent

-------------------------------------------------------------------------------
(* The inductive invariant, part by part.                                     *)

\* Every step keeps the types.
LEMMA EventTypesNext ==
  ASSUME EventTypes, PlacesInv, LockInv, MutexInv, NEW t \in Callers, Step(t)
  PROVE  EventTypes'
<1> USE DEF Goto, At, eventObjects, event, call, history
<1>1. /\ id' \in Seq(Ids) /\ handles' \in Seq(Nat) /\ preventDelete' \in Seq(Callers \cup {None})
      /\ list' \in Seq(Seq(AllSignals)) /\ handlers' \in Seq(Seq(Registrars))
  BY Grows
<1>2. /\ Len(id) \in Nat /\ Len(handles) \in Nat
      /\ pc[t] \in {"RunEvents", "Walk", "Reset"} => Handler(t) \in Registrars
  BY Elements
<1>0. /\ CallTypes
      /\ {"Acquire", "Find", "Create", "Open", "CreateHandle", "Ready", "Allocate", "LinkEvent", "Handler",
          "LinkHandler", "RunEvents", "Walk", "Reset", "Registered"} \subseteq Steps
  BY DEF EventTypes, Steps, RegistrarSteps, SignallerSteps, UnderMutex, Linked
<1>3. ASSUME ExAcquireSpinLock(t) \/ ObCreateObject(t) PROVE CallTypes'
  <2>1. CASE ExAcquireSpinLock(t)
    BY <1>0, <2>1 DEF CallTypes, ExAcquireSpinLock
  <2>2. CASE ObCreateObject(t)
    <3>1. PICK n \in Nat : n = Len(id) + 1
      BY <1>2
    <3>2. /\ object' = [object EXCEPT ![t] = n]
          /\ pc' = [pc EXCEPT ![t] = IF t \in Registrars THEN "LinkHandler" ELSE "Acquire"]
          /\ sl' \in {sl, None}
          /\ UNCHANGED <<previous, running, clean, handle, current, position, signals, history>>
      BY <2>2, <3>1 DEF ObCreateObject
    <3>3. QED BY <1>0, <3>2 DEF CallTypes
  <2>3. QED BY <1>3, <2>1, <2>2
<1>4. ASSUME ObEnumerateObjects(t) PROVE CallTypes'
  <2>1. EventOf[t] \in ToSet(id) => First(EventOf[t]) \in Nat
    BY FirstThere, <1>2
  <2>2. QED BY <1>0, <1>4, <2>1 DEF CallTypes, ObEnumerateObjects
<1>5. ASSUME RunEvents(t) \/ Reset(t) PROVE CallTypes'
  <2>1. PICK h \in Registrars, b \in BOOLEAN : running' = [running EXCEPT ![h] = b]
    BY <1>2, <1>5 DEF RunEvents, Reset
  <2>2. PICK label \in {"Registered", "Handler", "Reset", "Walk"} : pc' = [pc EXCEPT ![t] = label]
    BY <1>5 DEF RunEvents, Reset, Return
  <2>3. \/ current' = current \/ current' = [current EXCEPT ![t] = @ + 1]
    BY <1>5 DEF RunEvents, Reset, Return
  <2>4. \/ position' = position \/ position' = [position EXCEPT ![t] = 1]
    BY <1>5 DEF RunEvents, Reset
  <2>5. UNCHANGED <<sl, previous, clean, object, handle, signals, history>>
    BY <1>5 DEF RunEvents, Reset
  <2>6. current' \in [Callers -> Nat] /\ position' \in [Callers -> Nat]
    BY <1>0, <2>3, <2>4 DEF CallTypes
  <2>7. QED BY <1>0, <2>1, <2>2, <2>5, <2>6 DEF CallTypes
<1>6. ASSUME StartHandler(t) PROVE CallTypes'
  <2>1. list[object[t]][position[t]] \in AllSignals
    BY <1>6, Elements DEF StartHandler, PlacesInv
  <2>2. QED BY SMTT(30), <1>0, <1>2, <1>6, <2>1 DEF CallTypes, StartHandler
<1>7. ASSUME t \in Registrars /\ LinkHandler(t) PROVE CallTypes'
  <2>1. list[object[t]] \in Seq(AllSignals) /\ Len(handlers[object[t]]) \in Nat
    BY <1>7, Elements DEF LinkHandler, PlacesInv
  <2>2. ToSet(list[object[t]]) \subseteq AllSignals
    BY <2>1, ElementOfSeq, LenProperties DEF ToSet
  <2>3. QED BY <1>0, <1>7, <2>1, <2>2 DEF CallTypes, LinkHandler
<1>8. ASSUME t \in Signallers /\ ObiGetOpenHandle(t) PROVE CallTypes'
  <2>1. DOMAIN handles = 1 .. Len(handles)
    BY DEF EventTypes, ListTypes
  <2>2. PICK n \in Nat, label \in {"Ready", "CreateHandle"} :
          /\ handle' \in {handle, [handle EXCEPT ![t] = n]}
          /\ pc' = [pc EXCEPT ![t] = label]
          /\ sl' \in {sl, None}
    <3>1. CASE object[t] \in ToSet(handles)
      <4>1. PICK n \in Nat : n = CHOOSE h \in DOMAIN handles : handles[h] = object[t]
        BY <1>2, <2>1, <3>1 DEF ToSet
      <4>2. handle' = [handle EXCEPT ![t] = n] /\ pc' = [pc EXCEPT ![t] = "Ready"] /\ sl' = None
        BY <1>8, <3>1, <4>1 DEF ObiGetOpenHandle
      <4>3. QED BY <4>2
    <3>2. CASE object[t] \notin ToSet(handles)
      BY <1>8, <3>2 DEF ObiGetOpenHandle
    <3>3. QED BY <3>1, <3>2
  <2>3. UNCHANGED <<previous, running, clean, object, current, position, signals, history>>
    BY <1>8 DEF ObiGetOpenHandle
  <2>4. QED BY <1>0, <1>8, <2>2, <2>3 DEF CallTypes
<1>9. ASSUME t \in Signallers /\ (ObiCreateHandle(t) \/ ExMutexWait(t) \/ LinkEvent(t)) PROVE CallTypes'
  <2>1. CASE ObiCreateHandle(t)
    <3>1. PICK n \in Nat : n = Len(handles) + 1
      BY <1>2
    <3>2. /\ handle' = [handle EXCEPT ![t] = n] /\ pc' = [pc EXCEPT ![t] = "Ready"] /\ sl' = None
          /\ UNCHANGED <<previous, running, clean, object, current, position, signals, history>>
      BY <2>1, <3>1 DEF ObiCreateHandle
    <3>3. QED BY <1>0, <1>9, <3>2 DEF CallTypes
  <2>2. CASE ExMutexWait(t)
    BY <1>0, <1>9, <2>2 DEF CallTypes, ExMutexWait
  <2>3. CASE LinkEvent(t)
    BY <1>0, <1>9, <2>3 DEF CallTypes, LinkEvent
  <2>4. QED BY <1>9, <2>1, <2>2, <2>3
<1>10. ASSUME t \in Signallers /\ Allocate(t) PROVE CallTypes'
  <2>1. Signal(t) \in AllSignals
    BY <1>10, NewSignal DEF Allocate
  <2>2. LastEvent(object[t]) \in AllSignals \cup {None}
    <3>1. object[t] \in 1 .. Len(id)
      BY <1>10 DEF Allocate, PlacesInv
    <3>2. list[object[t]] \in Seq(AllSignals)
      BY <3>1, Elements
    <3>3. list[object[t]] # <<>> => Len(list[object[t]]) \in 1 .. Len(list[object[t]])
      BY <3>2, EmptySeq, LenProperties
    <3>4. QED BY <3>2, <3>3, ElementOfSeq DEF LastEvent, Last
  <2>3. QED BY <1>0, <1>10, <2>1, <2>2 DEF CallTypes, Allocate
<1>11. ASSUME t \in Signallers /\ (NextHandler(t) \/ ExMutexRelease(t)) PROVE CallTypes'
  BY <1>0, <1>11 DEF CallTypes, NextHandler, ExMutexRelease
<1>12. CallTypes'
  BY <1>3, <1>4, <1>5, <1>6, <1>7, <1>8, <1>9, <1>10, <1>11 DEF Step, KeOpenEvent, KeSignalEvent
<1>13. QED BY <1>1, <1>12 DEF EventTypes, ListTypes

\* The numbers of a call.
InPlace(t) ==
  /\ t \in Registrars => pc[t] \in RegistrarSteps
  /\ t \in Signallers => pc[t] \in SignallerSteps
  /\ pc[t] \notin {"Acquire", "Find", "Create"} => object[t] \in 1 .. Len(id)
  /\ t \in Signallers /\ pc[t] \in {"Ready"} \cup UnderMutex =>
       handle[t] \in 1 .. Len(handles) /\ handles[handle[t]] = object[t]
  /\ pc[t] \in {"RunEvents", "Walk", "Reset"} => current[t] \in 1 .. Len(handlers[object[t]])
  /\ pc[t] = "Walk" => position[t] \in 1 .. Len(list[object[t]])
  /\ pc[t] = "Handler" => current[t] > 0

\* PlacesInv says that of every call.
LEMMA PlacesAsCalls ==
  PlacesInv <=> /\ Len(preventDelete) = Len(id) /\ Len(list) = Len(id) /\ Len(handlers) = Len(id)
                /\ \A h \in 1 .. Len(handles) : handles[h] \in 1 .. Len(id)
                /\ \A t \in Callers : InPlace(t)
BY DEF PlacesInv, InPlace, Callers

\* The step of a thread that finds or makes its object and its handle.
LEMMA ObjectInPlace ==
  ASSUME EventTypes, PlacesInv, LockInv, MutexInv, NEW t \in Callers, Step(t),
         \/ ExAcquireSpinLock(t) \/ ObEnumerateObjects(t) \/ ObCreateObject(t)
         \/ t \in Signallers /\ KeOpenEvent(t)
  PROVE  /\ \A h \in 1 .. Len(handles') : handles'[h] \in 1 .. Len(id')
         /\ InPlace(t)'
<1> USE DEF Goto, At, eventObjects, event, call, history, RegistrarSteps, SignallerSteps, UnderMutex, Linked
<1>1. CallTypes /\ InPlace(t) /\ Len(id) \in Nat /\ Len(handles) \in Nat
  BY PlacesAsCalls, Elements DEF EventTypes
<1>2. /\ \A h \in 1 .. Len(handles) : handles[h] \in 1 .. Len(id)
      /\ Len(id) <= Len(id') /\ Len(id') \in Nat /\ \A h \in 1 .. Len(handles) : handles'[h] = handles[h]
  BY Grows DEF PlacesInv
<1>3. CASE ExAcquireSpinLock(t)
  BY <1>1, <1>2, <1>3 DEF CallTypes, InPlace, ExAcquireSpinLock
<1>4. CASE ObEnumerateObjects(t)
  <2>1. EventOf[t] \in ToSet(id) => First(EventOf[t]) \in 1 .. Len(id)
    BY FirstThere
  <2>2. PICK o, label : /\ pc' = [pc EXCEPT ![t] = label]
                        /\ object' \in {object, [object EXCEPT ![t] = o]}
                        /\ label = "Create" \/ (object'[t] \in 1 .. Len(id)
                             /\ label = IF t \in Registrars THEN "LinkHandler" ELSE "Open")
    <3>1. CASE EventOf[t] \in ToSet(id)
      BY <1>1, <1>4, <2>1, <3>1 DEF CallTypes, ObEnumerateObjects
    <3>2. CASE EventOf[t] \notin ToSet(id)
      BY <1>4, <3>2 DEF ObEnumerateObjects
    <3>3. QED BY <3>1, <3>2
  <2>3. UNCHANGED <<id, handles>> /\ pc'[t] = label
    BY <1>1, <1>4, <2>2 DEF CallTypes, ObEnumerateObjects
  <2>4. t \in Registrars => t \notin Signallers
    BY EventsAssumption
  <2>5. QED BY <1>2, <2>2, <2>3, <2>4 DEF InPlace
<1>5. CASE ObCreateObject(t)
  <2>1. PICK n \in Nat : n = Len(id) + 1
    BY <1>1
  <2>2. /\ object' = [object EXCEPT ![t] = n] /\ handles' = handles
        /\ pc' = [pc EXCEPT ![t] = IF t \in Registrars THEN "LinkHandler" ELSE "Acquire"]
    BY <1>5, <2>1 DEF ObCreateObject
  <2>3. Len(id') = n
    BY <1>5, <2>1 DEF ObCreateObject, EventTypes, ListTypes
  <2>4. t \in Registrars => t \notin Signallers
    BY EventsAssumption
  <2>5. QED BY <1>1, <1>2, <2>1, <2>2, <2>3, <2>4 DEF CallTypes, InPlace
<1>6. CASE t \in Signallers /\ ObiGetOpenHandle(t)
  <2>0. t \notin Registrars
    BY <1>6, EventsAssumption
  <2>1. DOMAIN handles = 1 .. Len(handles)
    BY DEF EventTypes, ListTypes
  <2>2. CASE object[t] \in ToSet(handles)
    <3>1. PICK n \in 1 .. Len(handles) : n = CHOOSE h \in DOMAIN handles : handles[h] = object[t]
      BY <2>1, <2>2 DEF ToSet
    <3>2. handles[n] = object[t]
      BY <2>1, <2>2, <3>1 DEF ToSet
    <3>3. handle' = [handle EXCEPT ![t] = n] /\ pc' = [pc EXCEPT ![t] = "Ready"]
          /\ UNCHANGED <<id, handles, object>> /\ pc[t] = "Open"
      BY <1>6, <2>2, <3>1 DEF ObiGetOpenHandle
    <3>4. QED BY <1>1, <1>2, <1>6, <2>0, <3>1, <3>2, <3>3 DEF CallTypes, InPlace
  <2>3. CASE object[t] \notin ToSet(handles)
    <3>1. pc' = [pc EXCEPT ![t] = "CreateHandle"] /\ UNCHANGED <<id, handles, object>> /\ pc[t] = "Open"
      BY <1>6, <2>3 DEF ObiGetOpenHandle
    <3>2. QED BY <1>1, <1>2, <1>6, <2>0, <3>1 DEF CallTypes, InPlace
  <2>4. QED BY <2>2, <2>3
<1>7. CASE t \in Signallers /\ ObiCreateHandle(t)
  <2>1. t \notin Registrars
    BY <1>7, EventsAssumption
  <2>2. PICK n \in Nat : n = Len(handles) + 1
    BY <1>1
  <2>3. /\ pc[t] = "CreateHandle" /\ pc' = [pc EXCEPT ![t] = "Ready"] /\ handle' = [handle EXCEPT ![t] = n]
        /\ UNCHANGED <<id, object>>
    BY <1>7, <2>2 DEF ObiCreateHandle
  <2>4. object[t] \in 1 .. Len(id)
    BY <1>1, <2>3 DEF InPlace
  <2>5. Len(handles') = n /\ handles'[n] = object[t]
    <3>1. handles \in Seq(Nat) /\ object[t] \in Nat
      BY <2>4 DEF EventTypes, ListTypes
    <3>2. QED BY <1>7, <2>2, <3>1, AppendProperties DEF ObiCreateHandle
  <2>6. \A h \in 1 .. Len(handles') : h \in 1 .. Len(handles) \/ h = n
    BY <2>2, <2>5, <1>1
  <2>7. \A h \in 1 .. Len(handles') : handles'[h] \in 1 .. Len(id')
    BY <1>2, <2>3, <2>4, <2>5, <2>6
  <2>8. pc'[t] = "Ready" /\ handle'[t] = n /\ n \in 1 .. Len(handles') /\ object'[t] = object[t]
    BY <1>1, <1>7, <2>2, <2>3, <2>5 DEF CallTypes
  <2>9. QED BY <2>1, <2>3, <2>4, <2>5, <2>7, <2>8 DEF InPlace
<1>8. QED BY <1>3, <1>4, <1>5, <1>6, <1>7 DEF KeOpenEvent

\* The step of a thread that has them.
LEMMA EventInPlace ==
  ASSUME EventTypes, PlacesInv, MutexInv, NEW t \in Callers, Step(t),
         \/ t \in Signallers /\ KeSignalEvent(t)
         \/ t \in Registrars /\ LinkHandler(t)
         \/ RunEvents(t) \/ StartHandler(t) \/ Reset(t)
  PROVE  UNCHANGED <<id, handles, object, handle>> /\ InPlace(t)'
<1> USE DEF Goto, At, eventObjects, event, call, history, RegistrarSteps, SignallerSteps, UnderMutex, Linked
<1>1. CallTypes /\ InPlace(t) /\ Len(id) \in Nat /\ Len(handles) \in Nat
  BY PlacesAsCalls, Elements DEF EventTypes
<1>2. UNCHANGED <<id, handles, object, handle>>
  <2>1. CASE t \in Registrars /\ LinkHandler(t)
    BY <2>1 DEF LinkHandler
  <2>2. CASE RunEvents(t) \/ StartHandler(t) \/ Reset(t)
    BY <2>2 DEF RunEvents, StartHandler, Reset
  <2>3. CASE t \in Signallers /\ KeSignalEvent(t)
    BY <2>3 DEF KeSignalEvent, ExMutexWait, Allocate, LinkEvent, NextHandler, ExMutexRelease
  <2>4. QED BY <2>1, <2>2, <2>3
<1>3. t \in Registrars <=> t \notin Signallers
  BY EventsAssumption DEF Callers
<1>4. pc[t] \notin {"Acquire", "Find", "Create"}
  <2>1. CASE t \in Registrars /\ LinkHandler(t)
    BY <2>1 DEF LinkHandler
  <2>2. CASE RunEvents(t) \/ StartHandler(t) \/ Reset(t)
    BY <2>2 DEF RunEvents, StartHandler, Reset
  <2>3. CASE t \in Signallers /\ KeSignalEvent(t)
    BY <2>3 DEF KeSignalEvent, ExMutexWait, Allocate, LinkEvent, NextHandler, ExMutexRelease
  <2>4. QED BY <2>1, <2>2, <2>3
<1>5. /\ object[t] \in 1 .. Len(id) /\ Len(list[object[t]]) \in Nat /\ Len(handlers[object[t]]) \in Nat
      /\ list[object[t]] \in Seq(AllSignals)
  BY <1>1, <1>4, Elements DEF InPlace
<1>6. /\ Len(handlers[object[t]]) <= Len(handlers'[object[t]]) /\ Len(handlers'[object[t]]) \in Nat
      /\ Len(list[object[t]]) <= Len(list'[object[t]]) /\ Len(list'[object[t]]) \in Nat
  BY <1>5, Grows
<1>7. CASE t \in Registrars /\ LinkHandler(t)
  <2>1. PICK o \in 1 .. Len(handlers) : o = object[t]
    BY <1>5 DEF PlacesInv
  <2>2. PICK n \in Nat : n = Len(handlers[o]) + 1
    BY <1>5, <2>1
  <2>3. handlers' = [handlers EXCEPT ![o] = Append(@, t)]
    BY <1>7, <2>1 DEF LinkHandler
  <2>4. Len(handlers'[o]) = n
    BY <1>7, <2>2, <2>3, AppendAt DEF EventTypes, ListTypes
  <2>5. pc'[t] = "RunEvents" /\ current'[t] = n
    BY <1>1, <1>7, <2>1, <2>2 DEF CallTypes, LinkHandler
  <2>6. QED BY <1>2, <1>3, <1>5, <1>7, <2>1, <2>2, <2>4, <2>5 DEF InPlace
<1>8. CASE t \in Signallers /\ KeSignalEvent(t)
  <2>1. CASE ExMutexWait(t)
    BY <1>1, <1>2, <1>3, <1>8, <2>1 DEF CallTypes, InPlace, ExMutexWait
  <2>2. CASE Allocate(t)
    BY <1>1, <1>2, <1>3, <1>8, <2>2 DEF CallTypes, InPlace, Allocate
  <2>3. CASE LinkEvent(t)
    BY <1>1, <1>2, <1>3, <1>8, <2>3 DEF CallTypes, InPlace, LinkEvent
  <2>4. CASE NextHandler(t)
    BY <1>1, <1>2, <1>3, <1>5, <1>8, <2>4 DEF CallTypes, InPlace, NextHandler
  <2>5. CASE ExMutexRelease(t)
    BY <1>1, <1>2, <1>3, <1>8, <2>5 DEF CallTypes, InPlace, ExMutexRelease
  <2>6. QED BY <1>8, <2>1, <2>2, <2>3, <2>4, <2>5 DEF KeSignalEvent
<1>9. ASSUME Return(t), pc[t] \in {"RunEvents", "Reset"} PROVE InPlace(t)'
  <2>1. current[t] \in Nat /\ current[t] > 0
    BY <1>1, <1>9 DEF CallTypes, InPlace
  <2>2. /\ t \in Registrars => pc'[t] = "Registered"
        /\ t \notin Registrars => pc'[t] = "Handler" /\ current'[t] = current[t] + 1
    BY <1>1, <1>9 DEF CallTypes, Return
  <2>3. /\ t \in Signallers => handle[t] \in 1 .. Len(handles) /\ handles[handle[t]] = object[t]
    BY <1>1, <1>9 DEF InPlace
  <2>4. QED BY <1>2, <1>3, <1>5, <2>1, <2>2, <2>3 DEF InPlace
<1>10. CASE RunEvents(t)
  <2>1. CASE running[Handler(t)]
    BY <1>9, <1>10, <2>1 DEF RunEvents
  <2>2. CASE ~running[Handler(t)]
    <3>1. /\ position'[t] = 1 /\ pc'[t] = IF list[object[t]] = <<>> THEN "Reset" ELSE "Walk"
          /\ current' = current /\ pc[t] = "RunEvents"
      BY <1>1, <1>10, <2>2 DEF CallTypes, RunEvents
    <3>2. list[object[t]] # <<>> => Len(list[object[t]]) > 0
      BY <1>5, EmptySeq
    <3>3. QED BY SMTT(30), <1>1, <1>2, <1>3, <1>5, <1>6, <3>1, <3>2 DEF InPlace
  <2>3. QED BY <2>1, <2>2
<1>11. CASE StartHandler(t)
  <2>1. /\ pc[t] = "Walk" /\ position'[t] = position[t] + 1 /\ current' = current
        /\ pc'[t] = IF position[t] = Len(list[object[t]]) THEN "Reset" ELSE "Walk"
        /\ list' = list /\ handlers' = handlers
    BY <1>1, <1>11 DEF CallTypes, StartHandler
  <2>2. QED BY <1>1, <1>2, <1>3, <1>5, <2>1 DEF InPlace
<1>12. CASE Reset(t)
  BY <1>9, <1>12 DEF Reset
<1>13. QED BY <1>2, <1>7, <1>8, <1>10, <1>11, <1>12

\* Every step keeps the places, of the thread that takes it and of the others.
LEMMA PlacesNext ==
  ASSUME EventTypes, PlacesInv, LockInv, MutexInv, NEW t \in Callers, Step(t)
  PROVE  PlacesInv'
<1>1. Len(preventDelete') = Len(id') /\ Len(list') = Len(id') /\ Len(handlers') = Len(id')
  BY Grows
<1>2. (\A h \in 1 .. Len(handles') : handles'[h] \in 1 .. Len(id')) /\ InPlace(t)'
  <2>1. CASE \/ ExAcquireSpinLock(t) \/ ObEnumerateObjects(t) \/ ObCreateObject(t)
             \/ t \in Signallers /\ KeOpenEvent(t)
    BY <2>1, ObjectInPlace
  <2>2. CASE \/ t \in Signallers /\ KeSignalEvent(t)
             \/ t \in Registrars /\ LinkHandler(t)
             \/ RunEvents(t) \/ StartHandler(t) \/ Reset(t)
    BY <2>2, EventInPlace DEF PlacesInv
  <2>3. QED BY <2>1, <2>2 DEF Step
<1>3. ASSUME NEW u \in Callers, u # t PROVE InPlace(u)'
  <2>1. /\ pc'[u] = pc[u] /\ object'[u] = object[u] /\ current'[u] = current[u] /\ position'[u] = position[u]
        /\ u \in Signallers => handle'[u] = handle[u]
    BY <1>3, Others
  <2>2. InPlace(u)
    BY PlacesAsCalls
  <2>3. /\ Len(id) \in Nat /\ Len(id') \in Nat /\ Len(id) <= Len(id')
        /\ Len(handles) \in Nat /\ Len(handles') \in Nat /\ Len(handles) <= Len(handles')
        /\ \A h \in 1 .. Len(handles) : handles'[h] = handles[h]
    BY Grows, Elements
  <2>4. object[u] \in 1 .. Len(id) =>
          /\ Len(handlers[object[u]]) \in Nat /\ Len(list[object[u]]) \in Nat
          /\ Len(handlers[object[u]]) <= Len(handlers'[object[u]]) /\ Len(handlers'[object[u]]) \in Nat
          /\ Len(list[object[u]]) <= Len(list'[object[u]]) /\ Len(list'[object[u]]) \in Nat
    BY Grows, Elements
  <2>5. pc[u] \notin {"Acquire", "Find", "Create"} => object'[u] \in 1 .. Len(id')
    BY <2>1, <2>2, <2>3 DEF InPlace
  <2>6. u \in Signallers /\ pc[u] \in {"Ready"} \cup UnderMutex =>
          handle'[u] \in 1 .. Len(handles') /\ handles'[handle'[u]] = object'[u]
    <3>1. u \in Signallers /\ pc[u] \in {"Ready"} \cup UnderMutex =>
            handle[u] \in 1 .. Len(handles) /\ handles[handle[u]] = object[u]
      BY <2>2 DEF InPlace
    <3>2. QED BY <2>1, <2>3, <3>1
  <2>7. pc[u] \in {"RunEvents", "Walk", "Reset"} => current'[u] \in 1 .. Len(handlers'[object'[u]])
    BY <2>1, <2>2, <2>4 DEF InPlace
  <2>8. pc[u] = "Walk" => position'[u] \in 1 .. Len(list'[object'[u]])
    BY <2>1, <2>2, <2>4 DEF InPlace
  <2>9. /\ u \in Registrars => pc'[u] \in RegistrarSteps
        /\ u \in Signallers => pc'[u] \in SignallerSteps
        /\ pc'[u] = "Handler" => current'[u] > 0
    BY <2>1, <2>2 DEF InPlace
  <2>10. QED BY <2>1, <2>5, <2>6, <2>7, <2>8, <2>9 DEF InPlace
<1>4. \A u \in Callers : InPlace(u)'
  BY <1>2, <1>3
<1>5. QED BY <1>1, <1>2, <1>4 DEF PlacesInv, InPlace, Callers

\* Only the owner of the spin lock adds an object or a handle, and one that is
\* missing.
LEMMA LockNext ==
  ASSUME EventTypes, PlacesInv, LockInv, MutexInv, NEW t \in Callers, Step(t)
  PROVE  LockInv'
<1> USE DEF Goto, At, eventObjects, event, call, history, UnderLock
<1>1. CallTypes /\ Len(id) \in Nat /\ Len(handles) \in Nat /\ None \notin Callers
  BY Elements, EventsAssumption DEF EventTypes
<1>2. \A u \in Callers : u # t => pc'[u] = pc[u] /\ object'[u] = object[u]
  BY Others
<1>3. ASSUME UNCHANGED <<id, handles>>,
             \A u \in Callers : pc'[u] \in UnderLock => sl' = u,
             pc'[t] = "Create" => \A o \in 1 .. Len(id) : id[o] # EventOf[t],
             pc'[t] = "CreateHandle" => \A h \in 1 .. Len(handles) : handles[h] # object'[t]
      PROVE  LockInv'
  BY <1>2, <1>3 DEF LockInv
<1>4. ASSUME pc[t] \in UnderLock, NEW u \in Callers, u # t PROVE pc'[u] \notin UnderLock
  BY <1>2, <1>4 DEF LockInv
<1>5. CASE ExAcquireSpinLock(t)
  <2>1. sl = None /\ sl' = t /\ pc'[t] = "Find" /\ UNCHANGED <<id, handles>>
    BY <1>1, <1>5 DEF CallTypes, ExAcquireSpinLock
  <2>2. \A u \in Callers : pc'[u] \in UnderLock => sl' = u
    BY <1>1, <1>2, <2>1 DEF LockInv
  <2>3. QED BY <1>3, <2>1, <2>2
<1>6. CASE ObEnumerateObjects(t)
  <2>1. pc[t] = "Find" /\ UNCHANGED <<id, handles, sl>> /\ pc'[t] # "CreateHandle"
    BY <1>1, <1>6 DEF CallTypes, ObEnumerateObjects
  <2>2. pc'[t] = "Create" => \A o \in 1 .. Len(id) : id[o] # EventOf[t]
    <3>1. DOMAIN id = 1 .. Len(id)
      BY DEF EventTypes, ListTypes
    <3>2. CASE EventOf[t] \in ToSet(id)
      BY <1>1, <1>6, <3>2 DEF CallTypes, ObEnumerateObjects
    <3>3. CASE EventOf[t] \notin ToSet(id)
      BY <3>1, <3>3 DEF ToSet
    <3>4. QED BY <3>2, <3>3
  <2>3. \A u \in Callers : pc'[u] \in UnderLock => sl' = u
    BY <1>4, <2>1 DEF LockInv
  <2>4. QED BY <1>3, <2>1, <2>2, <2>3
<1>7. CASE ObCreateObject(t)
  <2>1. /\ pc[t] = "Create" /\ id' = Append(id, EventOf[t]) /\ handles' = handles
        /\ IF t \in Registrars THEN pc'[t] = "LinkHandler" /\ sl' = sl ELSE pc'[t] = "Acquire" /\ sl' = None
    BY <1>1, <1>7 DEF CallTypes, ObCreateObject
  <2>2. \A u \in Callers : pc'[u] \in UnderLock => sl' = u /\ u = t /\ pc'[t] = "LinkHandler"
    BY <1>4, <2>1 DEF LockInv
  <2>3. /\ Len(id') = Len(id) + 1 /\ id'[Len(id) + 1] = EventOf[t]
        /\ \A o \in 1 .. Len(id) : id'[o] = id[o]
    <3>1. id \in Seq(Ids) /\ EventOf[t] \in Ids
      BY EventsAssumption DEF EventTypes, ListTypes
    <3>2. QED BY <2>1, <3>1, AppendProperties
  <2>4. \A o \in 1 .. Len(id) : id[o] # EventOf[t]
    BY <2>1 DEF LockInv
  <2>5. ASSUME NEW o \in 1 .. Len(id'), NEW n \in 1 .. Len(id'), id'[o] = id'[n] PROVE o = n
    <3>1. (o \in 1 .. Len(id) \/ o = Len(id) + 1) /\ (n \in 1 .. Len(id) \/ n = Len(id) + 1)
      BY <1>1, <2>3
    <3>2. QED BY <2>3, <2>4, <2>5, <3>1 DEF LockInv
  <2>6. QED BY <2>1, <2>2, <2>5 DEF LockInv
<1>8. CASE t \in Registrars /\ LinkHandler(t)
  <2>1. pc[t] = "LinkHandler" /\ UNCHANGED <<id, handles>> /\ pc'[t] = "RunEvents"
    BY <1>1, <1>8 DEF CallTypes, LinkHandler
  <2>2. QED BY <1>3, <1>4, <2>1
<1>9. CASE t \in Signallers /\ ObiGetOpenHandle(t)
  <2>1. pc[t] = "Open" /\ UNCHANGED <<id, handles, object>>
    BY <1>9 DEF ObiGetOpenHandle
  <2>2. CASE object[t] \in ToSet(handles)
    <3>1. pc'[t] = "Ready"
      BY <1>1, <1>9, <2>2 DEF CallTypes, ObiGetOpenHandle
    <3>2. QED BY <1>3, <1>4, <2>1, <3>1
  <2>3. CASE object[t] \notin ToSet(handles)
    <3>1. pc'[t] = "CreateHandle" /\ sl' = sl
      BY <1>1, <1>9, <2>3 DEF CallTypes, ObiGetOpenHandle
    <3>2. DOMAIN handles = 1 .. Len(handles)
      BY DEF EventTypes, ListTypes
    <3>3. \A h \in 1 .. Len(handles) : handles[h] # object[t]
      BY <2>3, <3>2 DEF ToSet
    <3>4. \A u \in Callers : pc'[u] \in UnderLock => sl' = u
      BY <1>4, <2>1, <3>1 DEF LockInv
    <3>5. QED BY <1>3, <2>1, <3>1, <3>3, <3>4
  <2>4. QED BY <2>2, <2>3
<1>10. CASE t \in Signallers /\ ObiCreateHandle(t)
  <2>1. pc[t] = "CreateHandle" /\ handles' = Append(handles, object[t]) /\ id' = id /\ pc'[t] = "Ready"
    BY <1>1, <1>10 DEF CallTypes, ObiCreateHandle
  <2>2. \A u \in Callers : pc'[u] \notin UnderLock
    BY <1>4, <2>1
  <2>3. /\ Len(handles') = Len(handles) + 1 /\ handles'[Len(handles) + 1] = object[t]
        /\ \A h \in 1 .. Len(handles) : handles'[h] = handles[h]
    <3>1. handles \in Seq(Nat) /\ object[t] \in Nat
      BY <1>1 DEF EventTypes, ListTypes, CallTypes
    <3>2. QED BY <2>1, <3>1, AppendProperties
  <2>4. \A h \in 1 .. Len(handles) : handles[h] # object[t]
    BY <2>1 DEF LockInv
  <2>5. ASSUME NEW h \in 1 .. Len(handles'), NEW n \in 1 .. Len(handles'), handles'[h] = handles'[n] PROVE h = n
    <3>1. (h \in 1 .. Len(handles) \/ h = Len(handles) + 1) /\ (n \in 1 .. Len(handles) \/ n = Len(handles) + 1)
      BY <1>1, <2>3
    <3>2. QED BY <2>3, <2>4, <2>5, <3>1 DEF LockInv
  <2>6. QED BY <2>1, <2>2, <2>5 DEF LockInv
<1>11. CASE t \in Signallers /\ KeSignalEvent(t)
  <2>1. UNCHANGED <<id, handles, sl>> /\ pc'[t] \notin UnderLock
    BY <1>1, <1>11 DEF CallTypes, KeSignalEvent, ExMutexWait, Allocate, LinkEvent, NextHandler, ExMutexRelease
  <2>2. \A u \in Callers : pc'[u] \in UnderLock => sl' = u
    BY <1>2, <2>1 DEF LockInv
  <2>3. QED BY <1>3, <2>1, <2>2
<1>12. CASE RunEvents(t) \/ StartHandler(t) \/ Reset(t)
  <2>1. UNCHANGED <<id, handles, sl>> /\ pc'[t] \notin UnderLock
    BY <1>1, <1>12 DEF CallTypes, RunEvents, StartHandler, Reset, Return
  <2>2. \A u \in Callers : pc'[u] \in UnderLock => sl' = u
    BY <1>2, <2>1 DEF LockInv
  <2>3. QED BY <1>3, <2>1, <2>2
<1>13. QED BY <1>5, <1>6, <1>7, <1>8, <1>9, <1>10, <1>11, <1>12 DEF Step, KeOpenEvent

\* The events of an object are as they were, but for the one that is linked.
LEMMA ListsKept ==
  ASSUME EventTypes, PlacesInv, NEW t \in Callers, Step(t), ~(t \in Signallers /\ LinkEvent(t))
  PROVE  /\ \A o \in 1 .. Len(list) : list'[o] = list[o]
         /\ \A o \in 1 .. Len(list') : o \in 1 .. Len(list) \/ (list'[o] = <<>> /\ Len(list'[o]) = 0)
<1> USE DEF Goto, At, eventObjects, event, call, history
<1>1. CASE ObCreateObject(t)
  <2>1. list' = Append(list, <<>>) /\ list \in Seq(Seq(AllSignals)) /\ Len(list) \in Nat
    BY <1>1, Elements DEF ObCreateObject, EventTypes, ListTypes, PlacesInv
  <2>2. QED BY <2>1, AppendEmpty
<1>2. CASE list' = list
  BY <1>2
<1>3. CASE \/ ExAcquireSpinLock(t) \/ ObEnumerateObjects(t) \/ RunEvents(t) \/ StartHandler(t) \/ Reset(t)
           \/ LinkHandler(t) \/ KeOpenEvent(t) \/ (t \in Signallers /\ KeSignalEvent(t))
  <2>1. list' = list
    BY <1>3 DEF ExAcquireSpinLock, ObEnumerateObjects, RunEvents, StartHandler, Reset, LinkHandler, KeOpenEvent,
          ObiGetOpenHandle, ObiCreateHandle, KeSignalEvent, ExMutexWait, Allocate, NextHandler, ExMutexRelease
  <2>2. QED BY <1>2, <2>1
<1>4. QED BY <1>1, <1>3 DEF Step

\* The mutex of an event has one owner.
MutexOwned == \A t \in Signallers : pc[t] \in UnderMutex => preventDelete[object[t]] = t

\* Nobody takes a mutex that is owned, and only its owner releases it.
LEMMA MutexOwnedNext ==
  ASSUME EventTypes, PlacesInv, LockInv, MutexInv, NEW t \in Callers, Step(t)
  PROVE  MutexOwned'
<1> USE DEF Goto, At, eventObjects, event, call, history, UnderMutex
<1>1. CallTypes /\ MutexOwned /\ None \notin Callers /\ Signallers \subseteq Callers
  BY EventsAssumption DEF EventTypes, MutexInv, MutexOwned, Callers
<1>2. \A u \in Signallers : u # t => pc'[u] = pc[u] /\ object'[u] = object[u]
  BY <1>1, Others
<1>3. \A u \in Signallers : pc[u] \in UnderMutex => object[u] \in 1 .. Len(preventDelete)
  BY <1>1 DEF PlacesInv
<1>4. CASE t \in Signallers /\ ExMutexWait(t)
  <2>1. PICK o \in 1 .. Len(preventDelete) : o = object[t] /\ o = handles[handle[t]]
    BY <1>1, <1>4 DEF ExMutexWait, PlacesInv
  <2>2. preventDelete[o] = None /\ preventDelete' = [preventDelete EXCEPT ![o] = t] /\ object' = object
    BY <1>4, <2>1 DEF ExMutexWait
  <2>3. \A u \in Signallers : u # t /\ pc[u] \in UnderMutex => object[u] # o
    BY <1>1, <2>2 DEF MutexOwned
  <2>4. preventDelete'[o] = t /\ \A p \in 1 .. Len(preventDelete) : p # o => preventDelete'[p] = preventDelete[p]
    BY <2>2 DEF EventTypes, ListTypes
  <2>5. QED BY <1>1, <1>2, <1>3, <2>1, <2>2, <2>3, <2>4 DEF MutexOwned
<1>5. CASE t \in Signallers /\ ExMutexRelease(t)
  <2>1. PICK o \in 1 .. Len(preventDelete) : o = object[t]
    BY <1>3, <1>5 DEF ExMutexRelease
  <2>2. preventDelete[o] = t /\ preventDelete' = [preventDelete EXCEPT ![o] = None] /\ object' = object
    BY <1>1, <1>5, <2>1 DEF ExMutexRelease, MutexOwned
  <2>3. \A u \in Signallers : u # t /\ pc[u] \in UnderMutex => object[u] # o
    BY <1>1, <2>2 DEF MutexOwned
  <2>4. \A p \in 1 .. Len(preventDelete) : p # o => preventDelete'[p] = preventDelete[p]
    BY <2>2 DEF EventTypes, ListTypes
  <2>5. pc'[t] = "Ready"
    BY <1>1, <1>5 DEF CallTypes, ExMutexRelease
  <2>6. QED BY <1>1, <1>2, <1>3, <2>3, <2>4, <2>5 DEF MutexOwned
<1>6. CASE ObCreateObject(t)
  <2>1. preventDelete' = Append(preventDelete, None) /\ pc'[t] \in {"LinkHandler", "Acquire"}
    BY <1>1, <1>6 DEF CallTypes, ObCreateObject
  <2>2. \A p \in 1 .. Len(preventDelete) : preventDelete'[p] = preventDelete[p]
    BY <2>1 DEF EventTypes, ListTypes
  <2>3. QED BY <1>1, <1>2, <1>3, <2>1, <2>2 DEF MutexOwned
<1>7. CASE ExAcquireSpinLock(t) \/ ObEnumerateObjects(t) \/ KeOpenEvent(t)
  <2>1. preventDelete' = preventDelete /\ pc'[t] \notin UnderMutex
    BY <1>1, <1>7 DEF CallTypes, ExAcquireSpinLock, ObEnumerateObjects, KeOpenEvent, ObiGetOpenHandle, ObiCreateHandle
  <2>2. QED BY <1>1, <1>2, <2>1 DEF MutexOwned
<1>8. CASE \/ t \in Registrars /\ LinkHandler(t)
           \/ t \in Signallers /\ (Allocate(t) \/ LinkEvent(t) \/ NextHandler(t))
           \/ RunEvents(t) \/ StartHandler(t) \/ Reset(t)
  <2>1. preventDelete' = preventDelete /\ object' = object /\ (t \in Signallers => pc[t] \in UnderMutex)
    <3>1. CASE t \in Registrars /\ LinkHandler(t)
      BY <3>1, EventsAssumption DEF LinkHandler
    <3>2. CASE t \in Signallers /\ (Allocate(t) \/ LinkEvent(t) \/ NextHandler(t))
      BY <3>2 DEF Allocate, LinkEvent, NextHandler
    <3>3. CASE RunEvents(t) \/ StartHandler(t) \/ Reset(t)
      BY <3>3 DEF RunEvents, StartHandler, Reset
    <3>4. QED BY <1>8, <3>1, <3>2, <3>3
  <2>2. QED BY <1>1, <1>2, <2>1 DEF MutexOwned
<1>9. QED BY <1>4, <1>5, <1>6, <1>7, <1>8 DEF Step, KeSignalEvent

\* A signal is numbered anew, and linked once: Previous stays that of the list.
LEMMA MutexNext ==
  ASSUME EventTypes, PlacesInv, LockInv, MutexInv, NEW t \in Callers, Step(t)
  PROVE  MutexInv'
<1> DEFINE Pending(u) == pc[u] \in {"Allocate", "LinkEvent"}
           Numbered(u) == signals[u] <= NumSignals /\ (Pending(u) => signals[u] > 0)
           Old(e) == e.number <= signals[e.by] /\ (Pending(e.by) => e # Signal(e.by))
           Links(o, i) == previous[list[o][i]] = IF i = 1 THEN None ELSE list[o][i - 1]
           Follows(u) == pc[u] = "LinkEvent" => previous[Signal(u)] = LastEvent(object[u])
<1> USE DEF Goto, At, eventObjects, event, call, history
<1>1. CallTypes /\ NumSignals \in Nat /\ Signallers \subseteq Callers
  BY EventsAssumption DEF EventTypes, Callers
<1>2. /\ \A u \in Signallers : Numbered(u) /\ Follows(u)
      /\ \A o \in 1 .. Len(list) : \A i \in 1 .. Len(list[o]) : Old(list[o][i]) /\ Links(o, i)
  BY DEF MutexInv
<1>3. \A u \in Signallers : u # t => pc'[u] = pc[u] /\ object'[u] = object[u] /\ signals'[u] = signals[u]
  BY <1>1, Others
<1>4. /\ \A o \in 1 .. Len(list) : \A i \in 1 .. Len(list[o]) : list[o][i] \in AllSignals
      /\ \A o \in 1 .. Len(list) : Len(list[o]) \in Nat
      /\ \A e \in AllSignals : e.by \in Signallers /\ e.number \in Nat
  BY Elements DEF PlacesInv, AllSignals
<1>5. \A u \in Signallers : pc[u] = "LinkEvent" => object[u] \in 1 .. Len(list)
  BY <1>1 DEF PlacesInv
<1>6. ASSUME \A u \in Signallers : Numbered(u)' /\ Follows(u)',
             \A o \in 1 .. Len(list') : \A i \in 1 .. Len(list'[o]) : Old(list[o][i])' /\ Links(o, i)'
      PROVE  MutexInv'
  BY ZenonT(60), <1>6, MutexOwnedNext DEF MutexInv, MutexOwned
<1>7. CASE t \in Signallers /\ ExMutexWait(t)
  <2>1. /\ signals[t] < NumSignals /\ signals' = [signals EXCEPT ![t] = @ + 1] /\ pc'[t] = "Allocate"
        /\ UNCHANGED <<list, previous, object>>
    BY <1>1, <1>7 DEF CallTypes, ExMutexWait
  <2>2. signals'[t] = signals[t] + 1 /\ signals[t] \in Nat
    BY <1>1, <1>7, <2>1 DEF CallTypes
  <2>3. ASSUME NEW u \in Signallers PROVE Numbered(u)' /\ Follows(u)'
    <3>1. CASE u = t
      BY <1>1, <2>1, <2>2, <3>1
    <3>2. CASE u # t
      BY <1>2, <1>3, <2>1, <3>2 DEF Signal, LastEvent
    <3>3. QED BY <3>1, <3>2
  <2>4. ASSUME NEW e \in AllSignals, Old(e) PROVE Old(e)'
    <3>1. CASE e.by = t
      BY <1>4, <2>2, <2>4, <3>1 DEF Signal
    <3>2. CASE e.by # t
      BY <1>3, <1>4, <2>4, <3>2 DEF Signal
    <3>3. QED BY <3>1, <3>2
  <2>5. \A o \in 1 .. Len(list') : \A i \in 1 .. Len(list'[o]) : Old(list[o][i])' /\ Links(o, i)'
    BY ZenonT(60), <1>2, <1>4, <2>1, <2>4
  <2>6. QED BY <1>6, <2>3, <2>5
<1>8. CASE t \in Signallers /\ Allocate(t)
  <2>1. PICK e \in AllSignals : e = Signal(t)
    BY <1>8, NewSignal DEF Allocate
  <2>2. /\ previous' = [previous EXCEPT ![e] = LastEvent(object[t])] /\ pc[t] = "Allocate" /\ pc'[t] = "LinkEvent"
        /\ UNCHANGED <<list, signals, object>>
    BY <1>1, <1>8, <2>1 DEF CallTypes, Allocate
  <2>3. \A d \in AllSignals : previous'[d] = IF d = e THEN LastEvent(object[t]) ELSE previous[d]
    BY <1>1, <2>2 DEF CallTypes
  <2>4. ASSUME NEW u \in Signallers PROVE Numbered(u)' /\ Follows(u)'
    <3>1. CASE u = t
      BY <1>2, <2>1, <2>2, <2>3, <3>1 DEF Signal, LastEvent
    <3>2. CASE u # t
      <4>1. pc[u] = "LinkEvent" => Signal(u) \in AllSignals
        BY NewSignal DEF EventTypes
      <4>2. Signal(u) # e
        BY <2>1, <3>2 DEF Signal
      <4>3. Numbered(u)'
        BY <1>2, <1>3, <3>2
      <4>4. Signal(u)' = Signal(u) /\ LastEvent(object[u])' = LastEvent(object[u])
        BY <1>3, <2>2, <3>2 DEF Signal, LastEvent
      <4>5. QED BY <1>2, <1>3, <2>3, <3>2, <4>1, <4>2, <4>3, <4>4
    <3>3. QED BY <3>1, <3>2
  <2>5. ASSUME NEW o \in 1 .. Len(list), NEW i \in 1 .. Len(list[o]) PROVE Old(list[o][i])' /\ Links(o, i)'
    <3>1. PICK d \in AllSignals : d = list[o][i]
      BY <1>4
    <3>2. Old(d) /\ d # e
      <4>1. Old(d)
        BY <1>2, <3>1
      <4>2. e.by = t /\ Pending(t)
        BY <2>1, <2>2 DEF Signal
      <4>3. QED BY <2>1, <4>1, <4>2
    <3>3. Old(d)'
      <4>1. CASE d.by = t
        BY <2>1, <2>2, <3>2, <4>1 DEF Signal
      <4>2. CASE d.by # t
        BY <1>3, <1>4, <2>2, <3>2, <4>2 DEF Signal
      <4>3. QED BY <4>1, <4>2
    <3>4. Links(o, i)'
      BY <1>2, <2>2, <2>3, <3>1, <3>2
    <3>5. QED BY <2>2, <3>1, <3>3, <3>4
  <2>6. \A o \in 1 .. Len(list') : \A i \in 1 .. Len(list'[o]) : Old(list[o][i])' /\ Links(o, i)'
    BY <2>2, <2>5
  <2>7. QED BY <1>6, <2>4, <2>6
<1>9. CASE t \in Signallers /\ LinkEvent(t)
  <2>1. PICK e \in AllSignals, o \in 1 .. Len(list) : e = Signal(t) /\ o = object[t]
    BY <1>5, <1>9, NewSignal DEF LinkEvent
  <2>2. /\ list' = [list EXCEPT ![o] = Append(@, e)] /\ pc[t] = "LinkEvent" /\ pc'[t] = "Handler"
        /\ UNCHANGED <<previous, signals, object>>
    BY <1>1, <1>9, <2>1 DEF CallTypes, LinkEvent
  <2>3. PICK n \in Nat : n = Len(list[o]) + 1
    BY <1>4
  <2>4. /\ Len(list') = Len(list)
        /\ \A p \in 1 .. Len(list) : p # o => list'[p] = list[p]
        /\ Len(list'[o]) = n /\ list'[o][n] = e
        /\ \A i \in 1 .. Len(list[o]) : list'[o][i] = list[o][i]
    BY SMTT(30), <2>2, <2>3, AppendAt DEF EventTypes, ListTypes
  <2>5. ASSUME NEW u \in Signallers PROVE Numbered(u)' /\ Follows(u)'
    <3>1. CASE u = t
      BY <1>2, <2>2, <3>1
    <3>2. CASE u # t
      <4>1. pc[u] = "LinkEvent" => object[u] # o
        BY <1>9, <2>1, <2>2, <3>2 DEF MutexInv, UnderMutex
      <4>2. pc[u] = "LinkEvent" => LastEvent(object[u])' = LastEvent(object[u])
        BY <1>3, <1>5, <2>4, <3>2, <4>1 DEF LastEvent
      <4>3. Signal(u)' = Signal(u)
        BY <1>3, <3>2 DEF Signal
      <4>4. QED BY <1>2, <1>3, <2>2, <3>2, <4>2, <4>3
    <3>3. QED BY <3>1, <3>2
  <2>6. ASSUME NEW d \in AllSignals, d.number <= signals[d.by], d.by # t => Old(d) PROVE Old(d)'
    <3>1. CASE d.by = t
      BY <2>2, <2>6, <3>1
    <3>2. CASE d.by # t
      BY <1>3, <1>4, <2>2, <2>6, <3>2 DEF Signal
    <3>3. QED BY <3>1, <3>2
  <2>7. Old(e)'
    <3>1. e.by = t /\ e.number = signals[t] /\ signals[t] \in Nat
      BY <1>1, <1>9, <2>1 DEF Signal, CallTypes
    <3>2. QED BY <2>2, <3>1
  <2>8. ASSUME NEW p \in 1 .. Len(list), NEW i \in 1 .. Len(list[p])
        PROVE  list'[p][i] = list[p][i] /\ Old(list[p][i])' /\ Links(p, i)'
    <3>1. PICK d \in AllSignals : d = list[p][i] /\ Old(d)
      BY <1>2, <1>4
    <3>2. Old(d)'
      BY <2>6, <3>1
    <3>3. list'[p][i] = list[p][i] /\ (i # 1 => list'[p][i - 1] = list[p][i - 1])
      <4>1. CASE p = o
        <5>1. i # 1 => i - 1 \in 1 .. Len(list[p])
          BY <1>4
        <5>2. QED BY <2>4, <4>1, <5>1
      <4>2. CASE p # o
        BY <2>4, <4>2
      <4>3. QED BY <4>1, <4>2
    <3>4. Links(p, i)
      BY <1>2
    <3>5. QED BY <2>2, <3>1, <3>2, <3>3, <3>4
  <2>9. Links(o, n)'
    <3>1. list[o] \in Seq(AllSignals) /\ Len(list[o]) = n - 1
      BY <2>3, Elements DEF PlacesInv
    <3>2. list[o] = <<>> <=> n = 1
      BY <3>1, EmptySeq
    <3>3. previous[e] = IF n = 1 THEN None ELSE list[o][n - 1]
      BY <1>2, <1>9, <2>1, <2>2, <3>1, <3>2 DEF LastEvent, Last
    <3>4. n # 1 => n - 1 \in 1 .. Len(list[o])
      BY <1>4, <2>3
    <3>5. QED BY <2>2, <2>4, <3>3, <3>4
  <2>10. ASSUME NEW p \in 1 .. Len(list'), NEW i \in 1 .. Len(list'[p]) PROVE Old(list[p][i])' /\ Links(p, i)'
    <3>1. CASE p = o /\ i = n
      BY <2>4, <2>7, <2>9, <3>1
    <3>2. CASE ~(p = o /\ i = n)
      <4>1. p \in 1 .. Len(list) /\ i \in 1 .. Len(list[p])
        <5>1. CASE p = o
          BY <2>3, <2>4, <3>2, <5>1
        <5>2. CASE p # o
          BY <2>4, <5>2
        <5>3. QED BY <5>1, <5>2
      <4>2. list'[p][i] = list[p][i] /\ Old(list[p][i])' /\ Links(p, i)'
        BY <2>8, <4>1
      <4>3. QED BY <4>2
    <3>3. QED BY <3>1, <3>2
  <2>11. QED BY <1>6, <2>5, <2>10
<1>10. CASE ~(t \in Signallers /\ (ExMutexWait(t) \/ Allocate(t) \/ LinkEvent(t)))
  <2>1. signals' = signals /\ previous' = previous /\ pc'[t] \notin {"Allocate", "LinkEvent"}
    <3>1. CASE ExAcquireSpinLock(t) \/ ObEnumerateObjects(t) \/ ObCreateObject(t)
      BY <1>1, <3>1 DEF CallTypes, ExAcquireSpinLock, ObEnumerateObjects, ObCreateObject
    <3>2. CASE RunEvents(t) \/ StartHandler(t) \/ Reset(t)
      BY <1>1, <3>2 DEF CallTypes, RunEvents, StartHandler, Reset, Return
    <3>3. CASE LinkHandler(t) \/ KeOpenEvent(t)
      BY <1>1, <3>3 DEF CallTypes, LinkHandler, KeOpenEvent, ObiGetOpenHandle, ObiCreateHandle
    <3>4. CASE NextHandler(t) \/ ExMutexRelease(t)
      BY <1>1, <3>4 DEF CallTypes, NextHandler, ExMutexRelease
    <3>5. QED BY <1>10, <3>1, <3>2, <3>3, <3>4 DEF Step, KeSignalEvent
  <2>2. /\ \A o \in 1 .. Len(list) : list'[o] = list[o]
        /\ \A o \in 1 .. Len(list') : o \in 1 .. Len(list) \/ Len(list'[o]) = 0
    BY <1>10, ListsKept
  <2>3. ASSUME NEW u \in Signallers PROVE Numbered(u)' /\ Follows(u)'
    <3>1. CASE u = t
      BY <1>2, <2>1, <3>1
    <3>2. CASE u # t
      <4>1. pc[u] = "LinkEvent" => LastEvent(object[u])' = LastEvent(object[u])
        BY <1>3, <1>5, <2>2, <3>2 DEF LastEvent
      <4>2. Signal(u)' = Signal(u)
        BY <1>3, <3>2 DEF Signal
      <4>3. QED BY <1>2, <1>3, <2>1, <3>2, <4>1, <4>2
    <3>3. QED BY <3>1, <3>2
  <2>4. ASSUME NEW e \in AllSignals, Old(e) PROVE Old(e)'
    <3>1. CASE e.by = t
      BY <2>1, <2>4, <3>1
    <3>2. CASE e.by # t
      BY <1>3, <1>4, <2>4, <3>2 DEF Signal
    <3>3. QED BY <3>1, <3>2
  <2>5. ASSUME NEW o \in 1 .. Len(list'), NEW i \in 1 .. Len(list'[o]) PROVE Old(list[o][i])' /\ Links(o, i)'
    <3>1. o \in 1 .. Len(list) /\ list'[o] = list[o]
      BY <2>2
    <3>2. list[o][i] \in AllSignals /\ Old(list[o][i]) /\ Links(o, i)
      BY ZenonT(60), <1>2, <1>4, <3>1
    <3>3. Old(list[o][i])'
      BY <2>4, <3>1, <3>2
    <3>4. QED BY <2>1, <3>1, <3>2, <3>3
  <2>6. QED BY <1>6, <2>3, <2>5
<1>11. QED BY <1>7, <1>8, <1>9, <1>10

\* Whom a thread runs events for: a linked handler of its own object.
LEMMA HandlerLinked ==
  ASSUME EventTypes, PlacesInv, HandlersInv, NEW u \in Callers, pc[u] \in {"RunEvents", "Walk", "Reset"}
  PROVE  /\ Handler(u) \in Registrars /\ pc[Handler(u)] \in Linked /\ object[Handler(u)] = object[u]
         /\ object[u] \in 1 .. Len(id) /\ current[u] \in 1 .. Len(handlers[object[u]])
<1>1. /\ object[u] \in 1 .. Len(id) /\ current[u] \in 1 .. Len(handlers[object[u]])
      /\ Len(handlers) = Len(id)
  BY DEF PlacesInv
<1>2. QED BY <1>1, Elements DEF Handler, HandlersInv

\* It stays the same while the thread keeps its place in the list.
LEMMA HandlerStays ==
  ASSUME EventTypes, PlacesInv, MutexInv, NEW t \in Callers, Step(t),
         NEW u \in Callers, pc[u] \in {"RunEvents", "Walk", "Reset"},
         object'[u] = object[u], current'[u] = current[u]
  PROVE  Handler(u)' = Handler(u)
<1>1. object[u] \in 1 .. Len(id) /\ current[u] \in 1 .. Len(handlers[object[u]])
  BY DEF PlacesInv
<1>2. handlers'[object[u]][current[u]] = handlers[object[u]][current[u]]
  BY <1>1, Grows
<1>3. QED BY <1>2 DEF Handler

\* A registrar that has linked its handler stays with it.
LEMMA LinkedStays ==
  ASSUME EventTypes, PlacesInv, NEW t \in Callers, Step(t), NEW r \in Registrars, pc[r] \in Linked
  PROVE  /\ pc'[r] \in Linked /\ (pc[r] \in Linked \ {"RunEvents"} => pc'[r] \in Linked \ {"RunEvents"})
         /\ object'[r] = object[r] /\ current'[r] = current[r]
         /\ existing'[r] = existing[r] /\ clean'[r] = clean[r]
<1> USE DEF Goto, At, eventObjects, event, call, history, Linked
<1>1. CallTypes /\ r \notin Signallers /\ r \in Callers
  BY EventsAssumption DEF EventTypes, Callers
<1>2. CASE t # r
  BY <1>1, <1>2, Others
<1>3. CASE t = r
  <2>1. RunEvents(r) \/ StartHandler(r) \/ Reset(r)
    BY <1>1, <1>3 DEF Step, ExAcquireSpinLock, ObEnumerateObjects, ObCreateObject, LinkHandler
  <2>2. CASE RunEvents(r)
    BY <1>1, <2>2 DEF CallTypes, RunEvents, Return
  <2>3. CASE StartHandler(r)
    BY <1>1, <2>3 DEF CallTypes, StartHandler
  <2>4. CASE Reset(r)
    BY <1>1, <2>4 DEF CallTypes, Reset, Return
  <2>5. QED BY <2>1, <2>2, <2>3, <2>4
<1>4. QED BY <1>2, <1>3

\* Every handler stays in the list of the object it was linked to.
LEMMA HandlersNext ==
  ASSUME EventTypes, PlacesInv, LockInv, MutexInv, HandlersInv, NEW t \in Callers, Step(t)
  PROVE  HandlersInv'
<1> DEFINE InOwn(o, i) == pc[handlers[o][i]] \in Linked /\ object[handlers[o][i]] = o
           Runs(r) == pc[r] \in {"RunEvents", "Walk", "Reset"} => Handler(r) = r
           Exists(r) == pc[r] \in Linked =>
             \A e \in existing[r] : \E i \in 1 .. Len(list[object[r]]) : list[object[r]][i] = e
<1> USE DEF Goto, At, eventObjects, event, call, history
<1>1. CallTypes /\ Registrars \subseteq Callers /\ Len(handlers) = Len(id) /\ Len(list) = Len(id)
  BY DEF EventTypes, PlacesInv, Callers
<1>2. /\ \A o \in 1 .. Len(handlers) : \A i \in 1 .. Len(handlers[o]) : InOwn(o, i) /\ handlers[o][i] \in Registrars
      /\ \A r \in Registrars : Runs(r) /\ Exists(r)
  BY <1>1, Elements DEF HandlersInv
<1>3. ASSUME NEW r \in Registrars, pc[r] \in Linked PROVE Runs(r)' /\ Exists(r)'
  <2>1. /\ pc'[r] \in Linked /\ object'[r] = object[r] /\ current'[r] = current[r] /\ existing'[r] = existing[r]
    BY <1>3, LinkedStays
  <2>2. pc'[r] \in {"RunEvents", "Walk", "Reset"} => pc[r] \in {"RunEvents", "Walk", "Reset"}
    <3>1. CASE t # r
      BY <1>1, <3>1, Others
    <3>2. CASE t = r
      <4>1. pc[r] # "Registered"
        BY <1>3, <3>2, EventsAssumption
           DEF Step, ExAcquireSpinLock, ObEnumerateObjects, ObCreateObject, LinkHandler, RunEvents, StartHandler, Reset
      <4>2. QED BY <1>3, <4>1 DEF Linked
    <3>3. QED BY <3>1, <3>2
  <2>3. Runs(r)'
    BY <1>1, <1>2, <2>1, <2>2, HandlerStays
  <2>4. object[r] \in 1 .. Len(id)
    BY <1>1, <1>3 DEF PlacesInv, Linked
  <2>5. \A i \in 1 .. Len(list[object[r]]) : i \in 1 .. Len(list'[object[r]]) /\ list'[object[r]][i] = list[object[r]][i]
    <3>1. PICK o \in 1 .. Len(id) : o = object[r]
      BY <2>4
    <3>2. /\ Len(list[o]) <= Len(list'[o]) /\ Len(list'[o]) \in Nat /\ Len(list[o]) \in Nat
          /\ \A i \in 1 .. Len(list[o]) : list'[o][i] = list[o][i]
      BY Grows, Elements
    <3>3. QED BY <3>1, <3>2
  <2>6. Exists(r)'
    BY <1>2, <1>3, <2>1, <2>5
  <2>7. QED BY <2>3, <2>6
<1>4. ASSUME NEW o \in 1 .. Len(handlers), NEW i \in 1 .. Len(handlers[o])
      PROVE  /\ handlers'[o][i] = handlers[o][i] /\ InOwn(o, i)'
  <2>1. PICK r \in Registrars : r = handlers[o][i] /\ pc[r] \in Linked /\ object[r] = o
    BY <1>2
  <2>2. o \in 1 .. Len(id)
    BY <1>1
  <2>3. handlers'[o][i] = r
    BY <2>1, <2>2, Grows
  <2>4. pc'[r] \in Linked /\ object'[r] = o
    BY <2>1, LinkedStays
  <2>5. QED BY <2>1, <2>3, <2>4
<1>5. CASE t \in Registrars /\ LinkHandler(t)
  <2>1. PICK o \in 1 .. Len(handlers) : o = object[t]
    BY <1>1, <1>5 DEF LinkHandler, PlacesInv
  <2>2. PICK n \in Nat : n = Len(handlers[o]) + 1
    BY <1>1, Elements
  <2>3. /\ handlers' = [handlers EXCEPT ![o] = Append(@, t)] /\ object' = object /\ list' = list
        /\ existing' = [existing EXCEPT ![t] = ToSet(list[o])]
        /\ current'[t] = n /\ pc'[t] = "RunEvents"
    BY <1>1, <1>5, <2>1, <2>2 DEF CallTypes, LinkHandler
  <2>4. /\ Len(handlers') = Len(handlers)
        /\ \A p \in 1 .. Len(handlers) : p # o => handlers'[p] = handlers[p]
        /\ Len(handlers'[o]) = n /\ handlers'[o][n] = t
    BY <1>5, <2>2, <2>3, AppendAt DEF EventTypes, ListTypes
  <2>5. ASSUME NEW p \in 1 .. Len(handlers'), NEW i \in 1 .. Len(handlers'[p]) PROVE InOwn(p, i)'
    <3>1. CASE p = o /\ i = n
      BY <2>1, <2>3, <2>4, <3>1 DEF Linked
    <3>2. CASE ~(p = o /\ i = n)
      <4>1. p \in 1 .. Len(handlers) /\ i \in 1 .. Len(handlers[p])
        <5>1. CASE p = o
          BY <2>2, <2>4, <3>2, <5>1
        <5>2. CASE p # o
          BY <2>4, <5>2
        <5>3. QED BY <5>1, <5>2
      <4>2. QED BY <1>4, <4>1
    <3>3. QED BY <3>1, <3>2
  <2>6. Runs(t)' /\ Exists(t)'
    <3>1. Runs(t)'
      BY <2>1, <2>3, <2>4 DEF Handler
    <3>2. existing'[t] = ToSet(list[o])
      BY <1>1, <1>5, <2>3 DEF CallTypes
    <3>3. DOMAIN list[o] = 1 .. Len(list[o])
      BY <1>1, Elements
    <3>4. QED BY <2>1, <2>3, <3>1, <3>2, <3>3 DEF ToSet
  <2>7. ASSUME NEW r \in Registrars, r # t PROVE Runs(r)' /\ Exists(r)'
    BY <1>1, <1>3, <2>7, Others DEF Linked
  <2>8. QED BY <2>5, <2>6, <2>7 DEF HandlersInv
<1>6. CASE ~(t \in Registrars /\ LinkHandler(t))
  <2>1. /\ \A o \in 1 .. Len(handlers) : handlers'[o] = handlers[o]
        /\ \A o \in 1 .. Len(handlers') : o \in 1 .. Len(handlers) \/ Len(handlers'[o]) = 0
    <3>1. CASE ObCreateObject(t)
      <4>1. handlers' = Append(handlers, <<>>) /\ handlers \in Seq(Seq(Registrars)) /\ Len(handlers) \in Nat
        BY <1>1, <3>1, Elements DEF ObCreateObject, EventTypes, ListTypes
      <4>2. QED BY <4>1, AppendEmpty
    <3>2. CASE ~ObCreateObject(t)
      <4>1. handlers' = handlers
        <5>1. CASE ExAcquireSpinLock(t) \/ ObEnumerateObjects(t) \/ RunEvents(t) \/ StartHandler(t) \/ Reset(t)
          BY <5>1 DEF ExAcquireSpinLock, ObEnumerateObjects, RunEvents, StartHandler, Reset
        <5>2. CASE KeOpenEvent(t) \/ KeSignalEvent(t)
          BY <5>2 DEF KeOpenEvent, ObiGetOpenHandle, ObiCreateHandle, KeSignalEvent, ExMutexWait, Allocate,
                LinkEvent, NextHandler, ExMutexRelease
        <5>3. QED BY <1>6, <3>2, <5>1, <5>2 DEF Step
      <4>2. QED BY <4>1
    <3>3. QED BY <3>1, <3>2
  <2>2. \A o \in 1 .. Len(handlers') : \A i \in 1 .. Len(handlers'[o]) : InOwn(o, i)'
    BY <1>4, <2>1
  <2>3. ASSUME NEW r \in Registrars, pc[r] \notin Linked PROVE pc'[r] \notin Linked
    <3>1. CASE t # r
      BY <1>1, <2>3, <3>1, Others
    <3>2. CASE t = r
      <4>1. r \notin Signallers
        BY EventsAssumption
      <4>2. ExAcquireSpinLock(r) \/ ObEnumerateObjects(r) \/ ObCreateObject(r)
        BY <1>6, <2>3, <3>2, <4>1 DEF Step, RunEvents, StartHandler, Reset, Linked
      <4>3. QED BY <1>1, <2>3, <4>1, <4>2
              DEF CallTypes, Linked, ExAcquireSpinLock, ObEnumerateObjects, ObCreateObject
    <3>3. QED BY <3>1, <3>2
  <2>4. \A r \in Registrars : Runs(r)' /\ Exists(r)'
    BY <1>3, <2>3 DEF Linked
  <2>5. QED BY <2>2, <2>4 DEF HandlersInv
<1>7. QED BY <1>5, <1>6

\* A thread walks for a handler that is not marked as running, marks it, has
\* delivered what it has passed, and all that was there at the end.
LEMMA RunningNext ==
  ASSUME EventTypes, PlacesInv, LockInv, MutexInv, HandlersInv, RunningInv, NEW t \in Callers, Step(t)
  PROVE  RunningInv'
<1> DEFINE Walks(u) == pc[u] \in {"Walk", "Reset"}
           Free(r) == clean[r] /\ ~running[r] => \A u \in Callers : u \notin Walking(r)
           Taken(r) == clean[r] /\ running[r] => \E u \in Walking(r) : \A v \in Walking(r) : v = u
           Passed(u) == pc[u] = "Walk" =>
             \A i \in 1 .. position[u] - 1 : list[object[u]][i] \in delivered[Handler(u)]
           Finished(u) == pc[u] = "Reset" => existing[Handler(u)] \subseteq delivered[Handler(u)]
           Served(r) == clean[r] /\ pc[r] \in Linked \ {"RunEvents"} =>
             running[r] \/ existing[r] \subseteq delivered[r]
<1> USE DEF Goto, At, eventObjects, event, call, history, Walking
<1>1. CallTypes /\ Registrars \subseteq Callers /\ Len(handlers) = Len(id) /\ Len(list) = Len(id)
  BY DEF EventTypes, PlacesInv, Callers
<1>2. /\ \A r \in Registrars : Free(r) /\ Taken(r) /\ Served(r)
      /\ \A u \in Callers : Passed(u) /\ Finished(u)
  BY DEF RunningInv
<1>3. ASSUME \A r \in Registrars : Free(r)' /\ Taken(r)' /\ Served(r)',
             \A u \in Callers : Passed(u)' /\ Finished(u)'
      PROVE  RunningInv'
  BY <1>3 DEF RunningInv
<1>4. \A u \in Callers : u # t => /\ pc'[u] = pc[u] /\ object'[u] = object[u] /\ current'[u] = current[u]
                                  /\ position'[u] = position[u]
                                  /\ u \in Registrars => existing'[u] = existing[u] /\ clean'[u] = clean[u]
  BY Others
<1>5. \A u \in Callers : u # t /\ Walks(u) => Handler(u)' = Handler(u)
  BY <1>4, HandlerStays
<1>6. \A u \in Callers : Walks(u) => Handler(u) \in Registrars /\ pc[Handler(u)] \in Linked
  BY HandlerLinked
<1>7. ASSUME NEW r \in Registrars, NEW u \in Callers, u # t
      PROVE  (u \in Walking(r))' <=> u \in Walking(r)
  BY <1>4, <1>5, <1>7
<1>8. \A h \in Registrars : pc[h] \in Linked => existing'[h] = existing[h] /\ clean'[h] = clean[h]
  BY LinkedStays
\* What others have passed stays delivered.
<1>9. ASSUME \A r \in Registrars : delivered[r] \subseteq delivered'[r],
             NEW u \in Callers, u # t
      PROVE  Passed(u)' /\ Finished(u)'
  <2>1. CASE pc[u] = "Walk"
    <3>1. /\ Handler(u)' = Handler(u) /\ Handler(u) \in Registrars
          /\ object'[u] = object[u] /\ position'[u] = position[u]
      BY <1>4, <1>5, <1>6, <1>9, <2>1
    <3>2. object[u] \in 1 .. Len(id) /\ position[u] \in 1 .. Len(list[object[u]])
      BY <2>1 DEF PlacesInv
    <3>3. \A i \in 1 .. position[u] - 1 : i \in 1 .. Len(list[object[u]])
      BY <3>2, Elements
    <3>4. \A i \in 1 .. position[u] - 1 : list'[object[u]][i] = list[object[u]][i]
      BY <3>2, <3>3, Grows
    <3>5. Passed(u)'
      BY <1>2, <1>9, <2>1, <3>1, <3>4
    <3>6. Finished(u)'
      BY <1>4, <1>9, <2>1
    <3>7. QED BY <3>5, <3>6
  <2>2. CASE pc[u] = "Reset"
    BY <1>2, <1>4, <1>5, <1>6, <1>8, <1>9, <2>2
  <2>3. CASE ~Walks(u)
    BY <1>4, <1>9, <2>3
  <2>4. QED BY <2>1, <2>2, <2>3
<1>10. CASE RunEvents(t)
  <2>1. PICK h \in Registrars : h = Handler(t) /\ pc[h] \in Linked /\ object[h] = object[t]
    BY <1>10, HandlerLinked DEF RunEvents
  <2>2. /\ pc[t] = "RunEvents" /\ running' = [running EXCEPT ![h] = TRUE]
        /\ UNCHANGED <<delivered, existing, clean, object, list>>
    BY <1>10, <2>1 DEF RunEvents
  <2>3. running'[h] = TRUE /\ \A r \in Registrars : r # h => running'[r] = running[r]
    BY <1>1, <2>2 DEF CallTypes
  <2>4. \A u \in Callers : u # t => Passed(u)' /\ Finished(u)'
    BY <1>9, <2>2
  <2>5. CASE running[h]
    <3>1. running' = running
      BY <1>1, <2>2, <2>5 DEF CallTypes
    <3>2. pc'[t] \in {"Registered", "Handler"}
      BY <1>1, <1>10, <2>1, <2>5 DEF CallTypes, RunEvents, Return
    <3>3. \A r \in Registrars : t \notin Walking(r) /\ ~(t \in Walking(r))'
      BY <2>2, <3>2
    <3>4. ASSUME NEW r \in Registrars PROVE Free(r)' /\ Taken(r)'
      <4>1. Free(r) /\ Taken(r)
        BY <1>2
      <4>2. \A u \in Callers : (u \in Walking(r))' <=> u \in Walking(r)
        BY <1>7, <3>3
      <4>3. QED BY <2>2, <3>1, <4>1, <4>2
    <3>5. ASSUME NEW r \in Registrars PROVE Served(r)'
      <4>1. CASE r = t
        <5>1. h = t
          BY <2>1, <2>2, <4>1 DEF HandlersInv
        <5>2. QED BY <2>3, <4>1, <5>1
      <4>2. CASE r # t
        BY <1>1, <1>2, <1>4, <2>2, <3>1, <4>2
      <4>3. QED BY <4>1, <4>2
    <3>6. Passed(t)' /\ Finished(t)'
      BY <3>2
    <3>7. QED BY <1>3, <2>4, <3>4, <3>5, <3>6
  <2>6. CASE ~running[h]
    <3>1. /\ position'[t] = 1 /\ pc'[t] = IF list[object[t]] = <<>> THEN "Reset" ELSE "Walk"
          /\ current'[t] = current[t]
      BY <1>1, <1>10, <2>1, <2>6 DEF CallTypes, RunEvents
    <3>2. Handler(t)' = h
      BY <2>1, <2>2, <3>1, HandlerStays
    <3>3. ASSUME NEW r \in Registrars PROVE Free(r)' /\ Taken(r)'
      <4>1. Free(r) /\ Taken(r)
        BY <1>2
      <4>2. CASE r = h
        <5>1. (t \in Walking(h))'
          BY <1>1, <3>1, <3>2
        <5>2. ASSUME clean[h], NEW u \in Callers, u # t PROVE ~(u \in Walking(h))'
          BY <1>7, <2>6, <4>1, <4>2, <5>2
        <5>3. QED BY <2>2, <2>3, <4>2, <5>1, <5>2
      <4>3. CASE r # h
        <5>1. t \notin Walking(r) /\ ~(t \in Walking(r))'
          BY <2>2, <3>2, <4>3
        <5>2. \A u \in Callers : (u \in Walking(r))' <=> u \in Walking(r)
          BY <1>7, <5>1
        <5>3. QED BY <2>2, <2>3, <4>1, <4>3, <5>2
      <4>4. QED BY <4>2, <4>3
    <3>4. ASSUME NEW r \in Registrars PROVE Served(r)'
      <4>1. CASE r = h
        BY <2>3, <4>1
      <4>2. CASE r # h
        <5>1. r # t
          BY <2>1, <2>2, <4>2 DEF HandlersInv
        <5>2. QED BY <1>1, <1>2, <1>4, <2>2, <2>3, <4>2, <5>1
      <4>3. QED BY <4>1, <4>2
    <3>5. Passed(t)'
      BY <3>1
    <3>6. Finished(t)'
      <4>1. CASE list[object[t]] = <<>>
        <5>1. Len(list[object[t]]) = 0
          BY <4>1, EmptySeq
        <5>2. existing[h] = {}
          BY <2>1, <5>1 DEF HandlersInv
        <5>3. QED BY <2>2, <3>2, <5>2
      <4>2. CASE list[object[t]] # <<>>
        BY <3>1, <4>2
      <4>3. QED BY <4>1, <4>2
    <3>7. QED BY <1>3, <2>4, <3>3, <3>4, <3>5, <3>6
  <2>7. QED BY <2>5, <2>6
<1>11. CASE StartHandler(t)
  <2>1. PICK h \in Registrars, e \in AllSignals :
          /\ h = Handler(t) /\ pc[h] \in Linked /\ object[h] = object[t]
          /\ e = list[object[t]][position[t]] /\ position[t] \in 1 .. Len(list[object[t]])
          /\ Len(list[object[t]]) \in Nat
    BY <1>11, HandlerLinked, Elements DEF StartHandler, PlacesInv
  <2>2. /\ pc[t] = "Walk" /\ delivered' = [delivered EXCEPT ![h] = @ \cup {e}]
        /\ pc'[t] = IF position[t] = Len(list[object[t]]) THEN "Reset" ELSE "Walk"
        /\ position'[t] = position[t] + 1
        /\ UNCHANGED <<running, existing, clean, object, current, list>>
    BY <1>1, <1>11, <2>1 DEF CallTypes, StartHandler
  <2>3. /\ delivered'[h] = delivered[h] \cup {e}
        /\ \A r \in Registrars : delivered[r] \subseteq delivered'[r]
    BY <1>1, <2>2 DEF CallTypes
  <2>4. \A u \in Callers : u # t => Passed(u)' /\ Finished(u)'
    BY <1>9, <2>3
  <2>5. Handler(t)' = h
    BY <2>1, <2>2, HandlerStays
  <2>6. ASSUME NEW r \in Registrars PROVE Free(r)' /\ Taken(r)'
    <3>1. Free(r) /\ Taken(r)
      BY <1>2
    <3>2. (t \in Walking(r))' <=> t \in Walking(r)
      BY <2>1, <2>2, <2>5
    <3>3. \A u \in Callers : (u \in Walking(r))' <=> u \in Walking(r)
      BY <1>7, <3>2
    <3>4. QED BY <2>2, <3>1, <3>3
  <2>7. ASSUME NEW r \in Registrars PROVE Served(r)'
    <3>1. pc'[r] \in Linked \ {"RunEvents"} => pc[r] \in Linked \ {"RunEvents"}
      BY <1>1, <1>4, <2>2 DEF Linked
    <3>2. QED BY <1>2, <2>2, <2>3, <3>1
  <2>8. \A i \in 1 .. position[t] : list[object[t]][i] \in delivered'[h]
    <3>1. \A i \in 1 .. position[t] : i \in 1 .. position[t] - 1 \/ i = position[t]
      BY <2>1
    <3>2. \A i \in 1 .. position[t] - 1 : list[object[t]][i] \in delivered[h]
      BY <1>2, <2>1, <2>2
    <3>3. QED BY <2>1, <2>3, <3>1, <3>2
  <2>9. Passed(t)'
    <3>1. position'[t] - 1 = position[t]
      BY <2>1, <2>2
    <3>2. QED BY <2>2, <2>5, <2>8, <3>1
  <2>10. Finished(t)'
    <3>1. CASE position[t] = Len(list[object[t]])
      <4>1. \A d \in existing[h] : \E i \in 1 .. position[t] : list[object[t]][i] = d
        BY <2>1, <3>1 DEF HandlersInv
      <4>2. QED BY <2>2, <2>5, <2>8, <4>1
    <3>2. CASE position[t] # Len(list[object[t]])
      BY <2>2, <3>2
    <3>3. QED BY <3>1, <3>2
  <2>11. QED BY <1>3, <2>4, <2>6, <2>7, <2>9, <2>10
<1>12. CASE Reset(t)
  <2>1. PICK h \in Registrars : h = Handler(t) /\ pc[h] \in Linked
    BY <1>12, HandlerLinked DEF Reset
  <2>2. /\ pc[t] = "Reset" /\ running' = [running EXCEPT ![h] = FALSE]
        /\ pc'[t] = IF t \in Registrars THEN "Registered" ELSE "Handler"
        /\ UNCHANGED <<delivered, existing, clean, object, list>>
    BY <1>1, <1>12, <2>1 DEF CallTypes, Reset, Return
  <2>3. running'[h] = FALSE /\ \A r \in Registrars : r # h => running'[r] = running[r]
    BY <1>1, <2>2 DEF CallTypes
  <2>4. \A u \in Callers : u # t => Passed(u)' /\ Finished(u)'
    BY <1>9, <2>2
  <2>5. Passed(t)' /\ Finished(t)'
    BY <2>2
  <2>6. existing[h] \subseteq delivered[h] /\ t \in Walking(h)
    BY <1>2, <2>1, <2>2
  <2>7. ASSUME NEW r \in Registrars PROVE Free(r)' /\ Taken(r)'
    <3>1. Free(r) /\ Taken(r)
      BY <1>2
    <3>2. ~(t \in Walking(r))'
      BY <2>2
    <3>3. CASE r = h
      <4>1. ASSUME clean[h], NEW u \in Callers, u # t PROVE ~(u \in Walking(h))'
        <5>1. running[h]
          BY <2>6, <3>1, <3>3, <4>1
        <5>2. u \notin Walking(h)
          BY <2>6, <3>1, <3>3, <4>1, <5>1
        <5>3. QED BY <1>7, <4>1, <5>2
      <4>2. QED BY <2>2, <2>3, <3>2, <3>3, <4>1
    <3>4. CASE r # h
      <4>1. t \notin Walking(r)
        BY <2>1, <3>4
      <4>2. \A u \in Callers : (u \in Walking(r))' <=> u \in Walking(r)
        BY <1>7, <3>2, <4>1
      <4>3. QED BY <2>2, <2>3, <3>1, <3>4, <4>2
    <3>5. QED BY <3>3, <3>4
  <2>8. ASSUME NEW r \in Registrars PROVE Served(r)'
    <3>1. CASE r = h
      BY <2>2, <2>6, <3>1
    <3>2. CASE r # h
      <4>1. r # t
        BY <2>1, <2>2, <3>2 DEF HandlersInv
      <4>2. QED BY <1>1, <1>2, <1>4, <2>2, <2>3, <3>2, <4>1
    <3>3. QED BY <3>1, <3>2
  <2>9. QED BY <1>3, <2>4, <2>5, <2>7, <2>8
<1>13. CASE t \in Registrars /\ LinkHandler(t)
  <2>1. /\ pc[t] = "LinkHandler" /\ pc'[t] = "RunEvents" /\ clean'[t] = ~running'[t]
        /\ \A r \in Registrars : r # t => running'[r] = running[r] /\ clean'[r] = clean[r]
        /\ delivered' = delivered
    BY <1>1, <1>13 DEF CallTypes, LinkHandler
  <2>2. \A u \in Callers : u # t => Passed(u)' /\ Finished(u)'
    BY <1>9, <2>1
  <2>3. Passed(t)' /\ Finished(t)'
    BY <2>1
  <2>4. \A r \in Registrars : t \notin Walking(r) /\ ~(t \in Walking(r))'
    BY <2>1
  <2>5. \A r \in Registrars : \A u \in Callers : (u \in Walking(r))' <=> u \in Walking(r)
    BY <1>7, <2>4
  <2>6. \A u \in Callers : u \notin Walking(t)
    BY <1>6, <2>1 DEF Linked
  <2>7. ASSUME NEW r \in Registrars PROVE Free(r)' /\ Taken(r)' /\ Served(r)'
    <3>1. CASE r = t
      BY <1>13, <2>1, <2>5, <2>6, <3>1 DEF Linked
    <3>2. CASE r # t
      <4>1. Free(r) /\ Taken(r) /\ Served(r)
        BY <1>2
      <4>2. QED BY <1>1, <1>4, <2>1, <2>5, <3>2, <4>1
    <3>3. QED BY <3>1, <3>2
  <2>8. QED BY <1>3, <2>2, <2>3, <2>7
<1>14. CASE \/ ExAcquireSpinLock(t) \/ ObEnumerateObjects(t) \/ ObCreateObject(t)
            \/ t \in Signallers /\ (KeOpenEvent(t) \/ KeSignalEvent(t))
  <2>1. /\ UNCHANGED <<running, clean, delivered, existing>>
        /\ ~Walks(t) /\ pc'[t] \notin {"Walk", "Reset"}
        /\ t \in Registrars => pc'[t] \notin Linked
    <3>1. CASE ExAcquireSpinLock(t) \/ ObEnumerateObjects(t) \/ ObCreateObject(t)
      <4>1. t \in Registrars => t \notin Signallers
        BY EventsAssumption
      <4>2. QED BY <1>1, <3>1, <4>1
              DEF CallTypes, Linked, ExAcquireSpinLock, ObEnumerateObjects, ObCreateObject
    <3>2. CASE t \in Signallers /\ KeOpenEvent(t)
      BY <1>1, <3>2, EventsAssumption DEF CallTypes, KeOpenEvent, ObiGetOpenHandle, ObiCreateHandle
    <3>3. CASE t \in Signallers /\ KeSignalEvent(t)
      BY <1>1, <3>3, EventsAssumption
         DEF CallTypes, KeSignalEvent, ExMutexWait, Allocate, LinkEvent, NextHandler, ExMutexRelease
    <3>4. QED BY <1>14, <3>1, <3>2, <3>3
  <2>2. \A u \in Callers : u # t => Passed(u)' /\ Finished(u)'
    BY <1>9, <2>1
  <2>3. Passed(t)' /\ Finished(t)'
    BY <2>1
  <2>4. \A r \in Registrars : t \notin Walking(r) /\ ~(t \in Walking(r))'
    BY <2>1
  <2>5. \A r \in Registrars : \A u \in Callers : (u \in Walking(r))' <=> u \in Walking(r)
    BY <1>7, <2>4
  <2>6. ASSUME NEW r \in Registrars PROVE Free(r)' /\ Taken(r)' /\ Served(r)'
    <3>1. Free(r) /\ Taken(r) /\ Served(r)
      BY <1>2
    <3>2. Free(r)' /\ Taken(r)'
      BY <2>1, <2>5, <3>1
    <3>3. Served(r)'
      BY <1>1, <1>4, <2>1, <3>1
    <3>4. QED BY <3>2, <3>3
  <2>7. QED BY <1>3, <2>2, <2>3, <2>6
<1>15. QED BY <1>10, <1>11, <1>12, <1>13, <1>14 DEF Step

\* At first there is no event.
LEMMA EventsInvInit ==
  ASSUME EventsInit
  PROVE  EventsInv
<1>1. id = <<>> /\ list = <<>> /\ handlers = <<>> /\ handles = <<>> /\ preventDelete = <<>>
  BY DEF EventsInit
<1>2. Len(id) = 0 /\ Len(list) = 0 /\ Len(handlers) = 0 /\ Len(handles) = 0 /\ Len(preventDelete) = 0
  BY <1>1, EmptySeq
<1>3. ListTypes
  BY <1>1, EmptySeq DEF ListTypes
<1>4. CallTypes
  BY DEF EventsInit, CallTypes, Steps, RegistrarSteps
<1>5. \A t \in Callers : pc[t] = "Acquire"
  BY DEF EventsInit
<1>6. Registrars \subseteq Callers /\ Signallers \subseteq Callers
  BY DEF Callers
<1>7. PlacesInv
  BY <1>2, <1>5, <1>6 DEF PlacesInv, RegistrarSteps, SignallerSteps, UnderMutex, Linked
<1>8. LockInv
  BY <1>2, <1>5 DEF LockInv, UnderLock
<1>9. MutexInv
  <2>1. \A t \in Signallers : signals[t] = 0
    BY DEF EventsInit
  <2>2. QED BY <1>2, <1>5, <1>6, <2>1, EventsAssumption DEF MutexInv, UnderMutex
<1>10. HandlersInv
  BY <1>2, <1>5, <1>6 DEF HandlersInv, Linked
<1>11. RunningInv
  <2>1. \A r \in Registrars : running[r] = FALSE
    BY DEF EventsInit
  <2>2. QED BY <1>5, <1>6, <2>1 DEF RunningInv, Linked, Walking
<1>12. QED BY <1>3, <1>4, <1>7, <1>8, <1>9, <1>10, <1>11 DEF EventsInv, EventTypes

\* A step that changes nothing keeps it.
LEMMA EventsInvStutter ==
  ASSUME EventsInv, UNCHANGED eventVars
  PROVE  EventsInv'
<1> USE DEF eventVars, eventObjects, event, call, history
<1>1. ListTypes' /\ CallTypes'
  BY DEF EventsInv, EventTypes, ListTypes, CallTypes
<1>2. PlacesInv'
  BY DEF EventsInv, PlacesInv
<1>3. LockInv'
  BY DEF EventsInv, LockInv
<1>4. MutexInv'
  BY DEF EventsInv, MutexInv, LastEvent, Signal
<1>5. HandlersInv'
  BY DEF EventsInv, HandlersInv, Handler
<1>6. RunningInv'
  BY DEF EventsInv, RunningInv, Walking, Handler
<1>7. QED BY <1>1, <1>2, <1>3, <1>4, <1>5, <1>6 DEF EventsInv, EventTypes

-------------------------------------------------------------------------------
(* What the invariant says.                                                   *)

\* Locks have one owner, lists only grow, and a handler has one runner.
THEOREM EventsInvariant == EventsSpec => []EventsInv
<1>1. EventsInit => EventsInv
  BY EventsInvInit
<1>2. EventsInv /\ [EventsNext]_eventVars => EventsInv'
  <2>1. ASSUME EventsInv, NEW t \in Callers, Step(t) PROVE EventsInv'
    BY <2>1, EventTypesNext, PlacesNext, LockNext, MutexNext, HandlersNext, RunningNext DEF EventsInv
  <2>2. QED BY <2>1, EventsInvStutter DEF EventsNext
<1>3. QED BY <1>1, <1>2, PTL DEF EventsSpec

\* Registrars and signallers of one event, in whatever order they come, find the
\* same object, and signallers the same handle.
THEOREM EventsAreShared == EventsSpec => []Meet
<1>1. EventsInv => Meet
  <2> SUFFICES ASSUME EventsInv PROVE Meet
    OBVIOUS
  <2>1. DOMAIN id = 1 .. Len(id) /\ DOMAIN handles = 1 .. Len(handles)
    BY LenProperties DEF EventsInv, EventTypes, ListTypes
  <2>2. /\ \A o, n \in 1 .. Len(id) : id[o] = id[n] => o = n
        /\ \A h, n \in 1 .. Len(handles) : handles[h] = handles[n] => h = n
    BY DEF EventsInv, LockInv
  <2>3. QED BY <2>1, <2>2 DEF Meet, IsInjective
<1>2. QED BY <1>1, EventsInvariant, PTL

\* Previous, read before the lock is taken, is the event before it in the list.
THEOREM ListsAreLinked == EventsSpec => []PreviousLinks
<1>1. EventsInv => PreviousLinks
  <2> SUFFICES ASSUME EventsInv, NEW o \in DOMAIN list, NEW i \in DOMAIN list[o]
               PROVE  previous[list[o][i]] = IF i = 1 THEN None ELSE list[o][i - 1]
    BY DEF PreviousLinks
  <2>1. o \in 1 .. Len(list) /\ o \in 1 .. Len(id)
    BY DEF EventsInv, EventTypes, ListTypes, PlacesInv
  <2>2. list[o] \in Seq(AllSignals)
    BY <2>1, Elements DEF EventsInv
  <2>3. i \in 1 .. Len(list[o])
    BY <2>2
  <2>4. QED BY <2>1, <2>3 DEF EventsInv, MutexInv
<1>2. QED BY <1>1, EventsInvariant, PTL

\* Running is set while one thread runs the handler's events, and no longer.
THEOREM RunningIsOwned == EventsSpec => []RunningHasRunner
<1>1. EventsInv => RunningHasRunner
  <2> SUFFICES ASSUME EventsInv, NEW h \in Registrars, clean[h]
               PROVE  Cardinality(Walking(h)) = IF running[h] THEN 1 ELSE 0
    BY DEF RunningHasRunner
  <2>1. CASE running[h]
    <3>1. PICK t \in Walking(h) : \A u \in Walking(h) : u = t
      BY <2>1 DEF EventsInv, RunningInv
    <3>2. Walking(h) = {t}
      BY <3>1
    <3>3. QED BY <2>1, <3>2, FS_Singleton
  <2>2. CASE ~running[h]
    <3>1. Walking(h) = {}
      BY <2>2 DEF EventsInv, RunningInv, Walking
    <3>2. QED BY <2>2, <3>1, FS_EmptySet
  <2>3. QED BY <2>1, <2>2
<1>2. QED BY <1>1, EventsInvariant, PTL

\* KeCreateThread has been called with a handler for every event that was in the
\* list when the handler was registered.
THEOREM ExistingAreDelivered == EventsSpec => []ExistingDelivered
<1>1. EventsInv => ExistingDelivered
  BY DEF EventsInv, RunningInv, ExistingDelivered, Linked
<1>2. QED BY <1>1, EventsInvariant, PTL
================================================================================
