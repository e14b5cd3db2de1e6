------------------------------- MODULE AhciProofs -------------------------------
(* Proofs about Ahci for any number of threads, processors, ports and slots,  *)
(* and any programs.                                                          *)
EXTENDS AhciInvariant, FiniteSetTheorems, SequenceTheorems, WellFoundedInduction, TLAPS

Below == {ss \in Nat \X Nat : ss[1] < ss[2]}

\* What a scan from the lowest bit finds is one of the bits.
LEMMA LowestIn ==
  ASSUME NEW S \in SUBSET Nat, S # {}
  PROVE  Lowest(S) \in S
<1>1. IsWellFoundedOn(Below, Nat)
  BY NatLessThanWellFounded, Zenon DEF OpToRel, Below
<1>2. PICK c \in S : \A d \in S : ~(<<d, c>> \in Below)
  BY <1>1, WFMin
<1>3. \A n, m \in Nat : n < m => <<n, m>> \in Below
  BY DEF Below
<1>4. ASSUME NEW d \in S PROVE c <= d
  <2>1. c \in Nat /\ d \in Nat /\ ~(d < c)
    BY <1>2, <1>3
  <2>2. QED BY <2>1
<1>5. QED BY <1>4 DEF Lowest

\* Who describes or marks a command has a slot that exists.
LEMMA ServedSlot ==
  ASSUME CallsInv, NEW t \in Threads, Issue(t) \/ SetPending(t)
  PROVE  slot[t] \in Slots
BY DEF CallsInv, Served, Issue, SetPending, At

\* The lowest command the handler takes for completed is pending and described
\* by a thread of the port.
LEMMA CompletedFacts ==
  ASSUME TypeInv, SlotsInv, OwnersInv, HandlerAt("Commands"), Completed # {}
  PROVE  \E p \in Ports, c \in Slots, u \in Threads :
           /\ p = handler.port /\ c = Lowest(Completed) /\ u = commands[p][c].thread
           /\ c \in pending[p] /\ c \notin handler.issued /\ PortOf[u] = p /\ c \in Own(u)
<1>1. PICK p \in Ports : p = handler.port
  BY DEF TypeInv, HandlerAt
<1>2. Completed \subseteq pending[p] /\ pending[p] \subseteq Slots
  BY <1>1 DEF Completed, TypeInv, SlotsInv, Reading, HandlerAt
<1>3. Completed \in SUBSET Nat
  BY <1>2, AhciAssumption
<1>4. PICK c \in Slots : c = Lowest(Completed) /\ c \in Completed
  BY <1>2, <1>3, LowestIn
<1>5. c \in pending[p] /\ c \notin handler.issued
  BY <1>2, <1>4 DEF Completed
<1>6. commands[p][c].thread \in Threads /\ PortOf[commands[p][c].thread] = p
  BY <1>5 DEF OwnersInv
<1>7. QED BY <1>1, <1>4, <1>5, <1>6 DEF Own

\* Every step keeps the types; a thread that has not found a slot may hold what
\* the stack held.
LEMMA TypeNext ==
  ASSUME TypeInv, CallsInv, OwnersInv, SlotsInv, [Next]_vars
  PROVE  TypeInv'
<1> USE AhciAssumption, ProgramAssumption
    DEF TypeInv, Labels, Served, HandlerLabels, thread, port, device, Goto, At
<1>1. ASSUME NEW t \in Threads, Begin(t) PROVE TypeInv'
  <2>1. Current(t) \in Nat
    BY <1>1 DEF Begin, Current, Returned, CallsInv
  <2>2. left' \in [Threads -> Nat]
    BY <1>1, <2>1 DEF Begin
  <2>3. QED BY <1>1, <2>2 DEF Begin
<1>2. ASSUME NEW t \in Threads, Scan(t) PROVE TypeInv'
  <2>1. Free(PortOf[t]) \in SUBSET Nat /\ Free(PortOf[t]) \subseteq Slots
    BY DEF Free
  <2>2. Lowest(Free(PortOf[t])) \in Slots
    BY <1>2, <2>1, LowestIn DEF Scan
  <2>3. QED BY <1>2, <2>2 DEF Scan
<1>3. ASSUME NEW t \in Threads, ScanFull(t) PROVE TypeInv'
  BY SMTT(30), <1>3 DEF ScanFull
<1>4. ASSUME NEW t \in Threads, Take(t) PROVE TypeInv'
  BY <1>4 DEF Take
<1>4a. ASSUME NEW t \in Threads, TakeBeyond(t) PROVE TypeInv'
  BY <1>4a DEF TakeBeyond
<1>5. ASSUME NEW t \in Threads, Retry(t) PROVE TypeInv'
  BY <1>5 DEF Retry
<1>6. ASSUME NEW t \in Threads, Issue(t) PROVE TypeInv'
  <2>1. PICK p \in Ports : p = PortOf[t]
    OBVIOUS
  <2>2. PICK c \in Slots : c = slot[t]
    BY <1>6, ServedSlot
  <2>3. commands' \in [Ports -> [Slots -> [async : BOOLEAN, thread : Threads \cup {None}]]]
    <3>1. (commands[p][c].async \/ ~Sync(t)) \in BOOLEAN
      OBVIOUS
    <3> DEFINE r == [async |-> commands[p][c].async \/ ~Sync(t), thread |-> t]
    <3>2. r \in [async : BOOLEAN, thread : Threads \cup {None}]
      BY <3>1
    <3>3. commands' = [commands EXCEPT ![p][c] = r]
      BY <1>6, <2>1, <2>2 DEF Issue
    <3> HIDE DEF r
    <3>4. QED BY <3>2, <3>3
  <2>4. left' \in [Threads -> Nat]
    BY <1>6 DEF Issue, CallsInv
  <2>5. commandIssue' \in [Ports -> SUBSET Slots]
    BY <1>6, <2>1, <2>2 DEF Issue
  <2>6. QED BY <1>6, <2>3, <2>4, <2>5 DEF Issue
<1>7. ASSUME NEW t \in Threads, SetPending(t) PROVE TypeInv'
  <2>1. slot[t] \in Slots
    BY <1>7 DEF SetPending, CallsInv
  <2>2. pending' \in [Ports -> SUBSET Slots]
    BY <1>7, <2>1 DEF SetPending
  <2>3. QED BY <1>7, <2>2 DEF SetPending
<1>8. ASSUME NEW t \in Threads, Test(t) PROVE TypeInv'
  BY <1>8 DEF Test
<1>9. ASSUME NEW t \in Threads, KeSuspendThread(t) PROVE TypeInv'
  BY <1>9 DEF KeSuspendThread
<1>10. ASSUME NEW t \in Threads, Release(t) PROVE TypeInv'
  <2>1. allocated' \in [Ports -> SUBSET Slots]
    BY <1>10 DEF Release
  <2>2. QED BY SMTT(30), <1>10, <2>1 DEF Release
<1>11. ASSUME NEW t \in Threads, Poll(t) PROVE TypeInv'
  BY SMTT(30), <1>11 DEF Poll
<1>12. ASSUME NEW t \in Threads, PollSleep(t) PROVE TypeInv'
  BY <1>12 DEF PollSleep
<1>13. ASSUME NEW t \in Threads, KiThreadResumeRoutine(t) PROVE TypeInv'
  BY <1>13 DEF KiThreadResumeRoutine
<1>14. ASSUME NEW p \in Ports, NEW c \in Slots, DeviceExecute(p, c) PROVE TypeInv'
  BY <1>14 DEF DeviceExecute
<1>15. ASSUME AhciInterruptHandler PROVE TypeInv'
  BY <1>15 DEF AhciInterruptHandler, HandlerAt, Idle
<1>16. ASSUME ReadCommandIssue PROVE TypeInv'
  <2>1. Lowest(handler.ports) \in Ports
    BY <1>16, LowestIn DEF ReadCommandIssue
  <2>2. QED BY <1>16, <2>1 DEF ReadCommandIssue, HandlerAt
<1>17. ASSUME ReadPending PROVE TypeInv'
  BY <1>17 DEF ReadPending, HandlerAt
<1>18. ASSUME CountAsync PROVE TypeInv'
  <2>1. PICK p \in Ports, c \in Slots, u \in Threads :
          p = handler.port /\ c = Lowest(Completed) /\ u = commands[p][c].thread
    BY <1>18, CompletedFacts DEF CountAsync
  <2>2. pending' = [pending EXCEPT ![p] = @ \ {c}]
    BY <1>18, <2>1 DEF CountAsync
  <2>3. pending' \in [Ports -> SUBSET Slots]
    BY <2>2
  <2>4. commands[p][c] \in [async : BOOLEAN, thread : Threads \cup {None}]
    OBVIOUS
  <2>5. handler' \in [at : HandlerLabels, ports : SUBSET Ports, port : Ports \cup {None},
                    gis : SUBSET Ports, issued : SUBSET Slots, seen : SUBSET Slots,
                    thread : Threads \cup {None}]
    BY <1>18, <2>1, <2>4 DEF CountAsync, HandlerAt
  <2>6. allocated' \in [Ports -> SUBSET Slots]
    BY <1>18, <2>1 DEF CountAsync
  <2>7. done' = [done EXCEPT ![u] = @ + 1]
    BY <1>18, <2>1 DEF CountAsync
  <2>8. done' \in [Threads -> Nat]
    BY SMTT(30), <2>7
  <2>9. QED BY <1>18, <2>1, <2>3, <2>5, <2>6, <2>8 DEF CountAsync, HandlerAt
<1>19. ASSUME CompleteSync PROVE TypeInv'
  <2>1. PICK p \in Ports, c \in Slots : p = handler.port /\ c = Lowest(Completed)
    BY <1>19, CompletedFacts DEF CompleteSync
  <2>2. pending' = [pending EXCEPT ![p] = @ \ {c}]
    BY <1>19, <2>1 DEF CompleteSync
  <2>3. pending' \in [Ports -> SUBSET Slots]
    BY <2>2
  <2>4. commands[p][c] \in [async : BOOLEAN, thread : Threads \cup {None}]
    OBVIOUS
  <2>5. handler' \in [at : HandlerLabels, ports : SUBSET Ports, port : Ports \cup {None},
                    gis : SUBSET Ports, issued : SUBSET Slots, seen : SUBSET Slots,
                    thread : Threads \cup {None}]
    BY <1>19, <2>1, <2>4 DEF CompleteSync, HandlerAt
  <2>6. allocated' \in [Ports -> SUBSET Slots]
    BY <1>19, <2>1 DEF CompleteSync
  <2>7. done' \in [Threads -> Nat]
    BY <1>19 DEF CompleteSync
  <2>8. QED BY <1>19, <2>1, <2>3, <2>5, <2>6, <2>7 DEF CompleteSync, HandlerAt
<1>20. ASSUME StoreReturnCode PROVE TypeInv'
  BY <1>20 DEF StoreReturnCode, HandlerAt
<1>21. ASSUME Resume PROVE TypeInv'
  BY ZenonT(60), <1>21 DEF Resume, HandlerAt
<1>22. ASSUME CommandsDone PROVE TypeInv'
  BY <1>22 DEF CommandsDone, HandlerAt
<1>23. ASSUME Acknowledge PROVE TypeInv'
  BY <1>23 DEF Acknowledge, HandlerAt
<1>24. ASSUME HandlerExit PROVE TypeInv'
  BY <1>24 DEF HandlerExit, HandlerAt, Idle
<1>25. ASSUME UNCHANGED vars PROVE TypeInv'
  BY SMTT(30), <1>25 DEF vars
<1>26. QED
  BY <1>1, <1>2, <1>3, <1>4, <1>4a, <1>5, <1>6, <1>7, <1>8, <1>9, <1>10, <1>11, <1>12, <1>13, <1>14,
     <1>15, <1>16, <1>17, <1>18, <1>19, <1>20, <1>21, <1>22, <1>23, <1>24, <1>25
  DEF Next, Step, Handler
-------------------------------------------------------------------------------
(* Calls.                                                                     *)

\* A step that is not one of thread t does not move it.
LEMMA OthersDoNotMove ==
  ASSUME TypeInv, [Next]_vars, NEW t \in Threads, ~Step(t)
  PROVE  UNCHANGED <<pc[t], call[t], left[t], slot[t]>>
<1> USE DEF TypeInv, thread, port, device, Goto, At
<1>1. ASSUME NEW u \in Threads, u # t, Step(u) PROVE UNCHANGED <<pc[t], call[t], left[t], slot[t]>>
  BY <1>1 DEF Step, Begin, Scan, ScanFull, Take, TakeBeyond, Retry, Issue, SetPending, Test,
              KeSuspendThread,
              Release, Poll, PollSleep
<1>2. ASSUME NEW u \in Threads, KiThreadResumeRoutine(u) PROVE UNCHANGED <<pc, call, left, slot>>
  BY <1>2 DEF KiThreadResumeRoutine
<1>3. ASSUME NEW p \in Ports, NEW c \in Slots, DeviceExecute(p, c) PROVE UNCHANGED <<pc, call, left, slot>>
  BY <1>3 DEF DeviceExecute
<1>4. ASSUME AhciInterruptHandler \/ Handler PROVE UNCHANGED <<pc, call, left, slot>>
  BY <1>4 DEF AhciInterruptHandler, Handler, ReadCommandIssue, ReadPending, CountAsync, CompleteSync,
              StoreReturnCode, Resume, CommandsDone, Acknowledge, HandlerExit
<1>5. ASSUME UNCHANGED vars PROVE UNCHANGED <<pc, call, left, slot>>
  BY <1>5 DEF vars
<1>6. QED BY <1>1, <1>2, <1>3, <1>4, <1>5 DEF Next

\* A thread in a call is in one of its program's; one in a synchronous call
\* initialises its port.
LEMMA InCall ==
  ASSUME TypeInv, CallsInv, NEW t \in Threads, call[t] <= Len(Program[t])
  PROVE  /\ Current(t) \in Nat
         /\ Sync(t) => call[t] = 1 /\ Initialises(t) /\ ~Returned(t)
<1> USE ProgramAssumption DEF CallsInv, TypeInv
<1>1. call[t] \in 1 .. Len(Program[t]) /\ Program[t] \in Seq(Nat)
  OBVIOUS
<1>2. Current(t) \in Nat
  <2>1. PICK i \in 1 .. Len(Program[t]) : i = call[t]
    BY <1>1
  <2>2. Program[t][i] \in Nat
    BY <1>1, ElementOfSeq, Zenon
  <2>3. QED BY <1>1, <2>1, <2>2 DEF Current
<1>3. ASSUME Sync(t) PROVE call[t] = 1
  <2>1. call[t] \in Nat /\ ~(call[t] \in 2 .. Len(Program[t]))
    BY <1>1, <1>3 DEF Sync, Current
  <2>2. QED BY <1>1, <2>1
<1>4. QED BY <1>1, <1>2, <1>3 DEF Sync, Current, Initialises, Returned

\* Who is in a synchronous call has the port to itself.
LEMMA SyncAlone ==
  ASSUME TypeInv, CallsInv, Alone, NEW t \in Threads, pc[t] # "Idle", Sync(t)
  PROVE  /\ \A u \in Threads : u # t /\ PortOf[u] = PortOf[t] => pc[u] = "Idle"
         /\ \A c \in Slots : ~commands[PortOf[t]][c].async
<1>1. call[t] <= Len(Program[t])
  BY DEF CallsInv
<1>2. QED BY <1>1, InCall DEF Alone

\* A step of a thread leaves it where its call allows.
LEMMA CallsNext ==
  ASSUME TypeInv, CallsInv, [Next]_vars
  PROVE  CallsInv'
<1> DEFINE Part(t) ==
      /\ call[t] \in 1 .. Len(Program[t]) + 1
      /\ pc[t] # "Idle" => call[t] <= Len(Program[t])
      /\ pc[t] \in {"Allocate", "Take", "Issue"} => left[t] > 0 /\ (Sync(t) => left[t] = 1)
      /\ pc[t] = "SetPending" /\ Sync(t) => left[t] = 0
      /\ pc[t] \in {"Test", "Suspend", "Release"} => Sync(t)
      /\ pc[t] = "Poll" => ~Sync(t) /\ left[t] = 0
      /\ pc[t] \in Served => slot[t] \in Slots
<1>1. ASSUME NEW t \in Threads, Step(t) PROVE Part(t)'
  <2> USE <1>1, ProgramAssumption DEF CallsInv, TypeInv, Served, Goto, At, Sync, Current
  <2>0. Len(Program[t]) \in Nat
    OBVIOUS
  <2>1. CASE Begin(t)
    <3>1. call[t] <= Len(Program[t])
      BY <2>1, <2>0 DEF Begin, Returned
    <3>2. Current(t) \in Nat
      BY <3>1, InCall
    <3>3. QED BY <2>0, <2>1, <3>1, <3>2 DEF Begin, Identify
  <2>2. CASE Scan(t) \/ ScanFull(t) \/ Take(t) \/ TakeBeyond(t) \/ Retry(t)
    BY <2>2 DEF Scan, ScanFull, Take, TakeBeyond, Retry
  <2>3. CASE Issue(t)
    BY <2>3 DEF Issue
  <2>4. CASE SetPending(t)
    BY <2>4 DEF SetPending
  <2>5. CASE Test(t) \/ KeSuspendThread(t) \/ PollSleep(t)
    BY ZenonT(60), <2>5 DEF Test, KeSuspendThread, PollSleep
  <2>6. CASE Release(t) \/ Poll(t)
    <3>1. /\ pc' = [pc EXCEPT ![t] = "Idle"] /\ call' = [call EXCEPT ![t] = @ + 1]
          /\ pc[t] # "Idle"
      BY <2>6 DEF Release, Poll
    <3>2. call[t] \in 1 .. Len(Program[t])
      BY <2>0, <3>1
    <3>3. QED BY <2>0, <3>1, <3>2
  <2>7. QED BY <2>1, <2>2, <2>3, <2>4, <2>5, <2>6 DEF Step
<1>2. ASSUME NEW t \in Threads, ~Step(t) PROVE Part(t)'
  BY <1>2, OthersDoNotMove DEF CallsInv, Sync, Current
<1>3. QED BY <1>1, <1>2 DEF CallsInv

\* Descriptions change only where a thread issues a command.
LEMMA DescriptionsKept ==
  ASSUME [Next]_vars, \A t \in Threads : ~Issue(t)
  PROVE  commands' = commands
<1> USE DEF thread, port, device
<1>1. ASSUME NEW t \in Threads, Step(t) PROVE commands' = commands
  BY <1>1 DEF Step, Begin, Scan, ScanFull, Take, TakeBeyond, Retry, SetPending, Test,
              KeSuspendThread, Release,
              Poll, PollSleep
<1>2. ASSUME NEW u \in Threads, KiThreadResumeRoutine(u) PROVE commands' = commands
  BY <1>2 DEF KiThreadResumeRoutine
<1>3. ASSUME NEW p \in Ports, NEW c \in Slots, DeviceExecute(p, c) PROVE commands' = commands
  BY <1>3 DEF DeviceExecute
<1>4. ASSUME AhciInterruptHandler \/ Handler PROVE commands' = commands
  BY <1>4 DEF AhciInterruptHandler, Handler, ReadCommandIssue, ReadPending, CountAsync, CompleteSync,
              StoreReturnCode, Resume, CommandsDone, Acknowledge, HandlerExit
<1>5. ASSUME UNCHANGED vars PROVE commands' = commands
  BY <1>5 DEF vars
<1>6. QED BY <1>1, <1>2, <1>3, <1>4, <1>5 DEF Next

\* Nobody begins a call on a port before its drive is there, and the thread that
\* initialises it sets no Async flag.
LEMMA AloneNext ==
  ASSUME TypeInv, CallsInv, Alone, [Next]_vars
  PROVE  Alone'
<1> SUFFICES ASSUME NEW t \in Threads, Initialises(t), ~Returned(t)'
             PROVE  /\ \A u \in Threads : u # t /\ PortOf[u] = PortOf[t] => pc'[u] = "Idle"
                    /\ call'[t] = 1 => \A c \in Slots : ~commands'[PortOf[t]][c].async
  BY DEF Alone
<1> USE ProgramAssumption, AhciAssumption DEF TypeInv
<1>1. ~Returned(t) /\ (call'[t] = 1 => call[t] = 1)
  <2>1. CASE Step(t)
    BY <2>1 DEF Returned, CallsInv, Step, Begin, Scan, ScanFull, Take, TakeBeyond, Retry, Issue,
                SetPending, Test,
                KeSuspendThread, Release, Poll, PollSleep
  <2>2. CASE ~Step(t)
    BY <2>2, OthersDoNotMove DEF Returned
  <2>3. QED BY <2>1, <2>2
<1>2. ASSUME NEW u \in Threads, u # t, PortOf[u] = PortOf[t] PROVE pc'[u] = "Idle"
  <2>1. pc[u] = "Idle"
    BY <1>1, <1>2 DEF Alone
  <2>2. CASE Step(u)
    <3>1. Begin(u)
      BY <2>1, <2>2 DEF Step, Scan, ScanFull, Take, TakeBeyond, Retry, Issue, SetPending, Test,
                        KeSuspendThread,
                        Release, Poll, PollSleep, At
    <3>2. Initialises(u) \/ Returned(t)
      BY <3>1, <1>2 DEF Begin, Attached
    <3>3. QED BY <3>2, <1>1, <1>2
  <2>3. CASE ~Step(u)
    BY <2>1, <2>3, OthersDoNotMove
  <2>4. QED BY <2>2, <2>3
<1>3. ASSUME call'[t] = 1, NEW c \in Slots PROVE ~commands'[PortOf[t]][c].async
  <2>1. ~commands[PortOf[t]][c].async
    BY <1>1, <1>3 DEF Alone
  <2>2. ASSUME NEW u \in Threads, Issue(u) PROVE ~commands'[PortOf[t]][c].async
    <3>1. pc[u] = "Issue"
      BY <2>2 DEF Issue, At
    <3>2. CASE PortOf[u] = PortOf[t]
      <4>1. u = t
        BY <1>1, <3>1, <3>2 DEF Alone
      <4>2. Sync(t)
        BY <1>1, <1>3 DEF Sync, Current, Initialises
      <4>3. PICK p \in Ports : p = PortOf[t]
        OBVIOUS
      <4>4. PICK d \in Slots : d = slot[t]
        BY <2>2, <4>1, ServedSlot
      <4> DEFINE r == [async |-> commands[p][d].async \/ ~Sync(t), thread |-> t]
      <4>5. commands' = [commands EXCEPT ![p][d] = r]
        BY <2>2, <4>1, <4>3, <4>4 DEF Issue
      <4>6. ~commands[p][d].async
        BY <1>1, <1>3, <4>3 DEF Alone
      <4>7. ~r.async
        BY <4>2, <4>6
      <4> HIDE DEF r
      <4>8. QED BY <2>1, <4>3, <4>5, <4>7
    <3>3. CASE PortOf[u] # PortOf[t]
      BY <2>1, <2>2, <3>3 DEF Issue
    <3>4. QED BY <3>2, <3>3
  <2>3. QED BY <2>1, <2>2, DescriptionsKept
<1>4. QED BY <1>2, <1>3
-------------------------------------------------------------------------------
(* Slots.                                                                     *)

\* The handler completes a command that is pending: it belongs to no thread that
\* still describes its own.
LEMMA CompletedIsNobodys ==
  ASSUME TypeInv, SlotsInv, NEW p \in Ports, NEW c \in pending[p]
  PROVE  \A t \in Threads : Describing(t) /\ PortOf[t] = p => slot[t] # c
BY DEF SlotsInv

\* A thread keeps the slot it has, and no thread gets one of another.
LEMMA SlotsNextOfThread ==
  ASSUME TypeInv, CallsInv, Alone, SlotsInv, NEW t \in Threads, Step(t)
  PROVE  SlotsInv'
<1> USE AhciAssumption DEF TypeInv, Goto, At, Describing, Reading, thread, port, device
<1>1. PICK p \in Ports : p = PortOf[t]
  OBVIOUS
<1>2. CASE Begin(t) \/ Scan(t) \/ ScanFull(t) \/ TakeBeyond(t) \/ Retry(t) \/ Poll(t) \/ PollSleep(t)
  <2>1. UNCHANGED <<allocated, pending, handler>>
    BY <1>2 DEF Begin, Scan, ScanFull, TakeBeyond, Retry, Poll, PollSleep
  <2>2. pc'[t] \notin {"Issue", "SetPending", "Test", "Suspend", "Release"}
    BY <1>2 DEF Begin, Scan, ScanFull, TakeBeyond, Retry, Poll, PollSleep
  <2>3. \A u \in Threads : u # t => pc'[u] = pc[u] /\ slot'[u] = slot[u]
    BY <1>2 DEF Begin, Scan, ScanFull, TakeBeyond, Retry, Poll, PollSleep
  <2>4. QED BY <2>1, <2>2, <2>3 DEF SlotsInv
<1>3. CASE Take(t)
  <2>1. /\ pc[t] = "Take" /\ slot[t] \in Slots /\ slot[t] \notin allocated[p]
        /\ pc' = [pc EXCEPT ![t] = "Issue"]
        /\ allocated' = [allocated EXCEPT ![p] = @ \cup {slot[t]}]
        /\ UNCHANGED <<slot, pending, handler>>
    BY <1>1, <1>3 DEF Take
  <2>2. \A q \in Ports : allocated[q] \subseteq allocated'[q]
    BY <2>1
  <2>3. slot[t] \in allocated'[p] /\ slot[t] \notin pending[p]
    BY <2>1 DEF SlotsInv
  <2>4. \A q \in Ports : pending'[q] \subseteq allocated'[q]
    BY <2>1, <2>2 DEF SlotsInv
  <2>5. ASSUME NEW u \in Threads, Describing(u)', u # t
        PROVE  /\ slot'[u] \in allocated'[PortOf[u]] /\ slot'[u] \notin pending'[PortOf[u]]
               /\ ~(PortOf[u] = p /\ slot'[u] = slot'[t])
    BY <2>1, <2>2, <2>5 DEF SlotsInv
  <2>6. ASSUME NEW u \in Threads, Describing(u)', NEW v \in Threads, Describing(v)',
               PortOf[u] = PortOf[v], slot'[u] = slot'[v]
        PROVE  u = v
    BY <1>1, <2>1, <2>5, <2>6 DEF SlotsInv
  <2>7. ASSUME NEW u \in Threads, Describing(u)'
        PROVE  slot'[u] \in allocated'[PortOf[u]] /\ slot'[u] \notin pending'[PortOf[u]]
    BY <1>1, <2>1, <2>3, <2>5, <2>7
  <2>8. QED BY <2>1, <2>2, <2>4, <2>6, <2>7 DEF SlotsInv
<1>4. CASE Issue(t)
  BY <1>4, ServedSlot DEF SlotsInv, Issue
<1>5. CASE SetPending(t)
  <2>1. PICK c \in Slots : c = slot[t]
    BY <1>5, ServedSlot
  <2>2. pending' = [pending EXCEPT ![p] = @ \cup {c}] /\ c \in allocated[p] /\ c \notin pending[p]
    BY <1>1, <1>5, <2>1 DEF SetPending, SlotsInv
  <2>3. \A q \in Ports : pending[q] \subseteq pending'[q] /\ pending'[q] \subseteq allocated[q]
    BY <2>2 DEF SlotsInv
  <2>4. /\ pc[t] = "SetPending" /\ pc'[t] \in {"Test", "Allocate", "Poll"}
        /\ \A u \in Threads : u # t => pc'[u] = pc[u] /\ slot'[u] = slot[u]
        /\ (Sync(t) => slot'[t] = c) /\ (~Sync(t) => pc'[t] # "Test")
        /\ UNCHANGED <<allocated, handler>>
    BY <1>5, <2>1 DEF SetPending
  <2>5. ASSUME NEW u \in Threads, Describing(u)'
        PROVE  u # t /\ Describing(u)
               /\ slot'[u] \in allocated'[PortOf[u]] /\ slot'[u] \notin pending'[PortOf[u]]
    <3>1. u # t /\ Describing(u)
      BY <2>4, <2>5
    <3>2. ~(PortOf[u] = p /\ slot[u] = c)
      BY <1>1, <2>1, <2>4, <3>1 DEF SlotsInv
    <3>3. QED BY <2>2, <2>4, <3>1, <3>2 DEF SlotsInv
  <2>6. ASSUME NEW u \in Threads, pc'[u] = "Release" PROVE slot'[u] \notin pending'[PortOf[u]]
    <3>1. u # t /\ pc[u] = "Release" /\ slot'[u] = slot[u]
      BY <2>4, <2>6
    <3>2. PortOf[u] # p
      BY <1>1, <2>4, <3>1, SyncAlone DEF CallsInv
    <3>3. QED BY <2>2, <3>1, <3>2 DEF SlotsInv
  <2>7. ASSUME NEW u \in Threads, pc'[u] \in {"Test", "Suspend", "Release"}
        PROVE  slot'[u] \in allocated'[PortOf[u]]
    BY <1>1, <2>2, <2>4, <2>7 DEF SlotsInv
  <2>8. ASSUME Reading' PROVE handler'.seen \subseteq pending'[handler'.port]
    BY <2>3, <2>4, <2>8 DEF SlotsInv
  <2>9. QED BY <2>3, <2>4, <2>5, <2>6, <2>7, <2>8 DEF SlotsInv
<1>6. CASE Test(t)
  BY <1>6 DEF SlotsInv, Test
<1>7. CASE KeSuspendThread(t)
  BY <1>7 DEF SlotsInv, KeSuspendThread
<1>8. CASE Release(t)
  <2>1. /\ pc[t] = "Release" /\ pc' = [pc EXCEPT ![t] = "Idle"]
        /\ allocated' = [allocated EXCEPT ![p] = @ \ {slot[t]}]
        /\ \A u \in Threads : u # t => slot'[u] = slot[u]
        /\ UNCHANGED <<pending, handler>>
    BY <1>1, <1>8 DEF Release
  <2>2. \A u \in Threads : u # t /\ PortOf[u] = p => pc[u] = "Idle"
    BY <1>1, <2>1, SyncAlone DEF CallsInv
  <2>3. slot[t] \notin pending[p]
    BY <1>1, <2>1 DEF SlotsInv
  <2>4. \A u \in Threads : pc'[u] # "Idle" =>
          u # t /\ PortOf[u] # p /\ pc'[u] = pc[u] /\ slot'[u] = slot[u]
          /\ allocated'[PortOf[u]] = allocated[PortOf[u]]
    BY <2>1, <2>2
  <2>5. \A q \in Ports : pending'[q] \subseteq allocated'[q]
    BY <2>1, <2>3 DEF SlotsInv
  <2>6. QED BY <2>1, <2>4, <2>5 DEF SlotsInv
<1>9. QED BY <1>2, <1>3, <1>4, <1>5, <1>6, <1>7, <1>8 DEF Step

\* A command that the handler completes is not pending any more; the slot of an
\* asynchronous one is freed, and nobody waits with it.
LEMMA SlotsNextOfHandler ==
  ASSUME TypeInv, CallsInv, Alone, SlotsInv, OwnersInv, CountAsync \/ CompleteSync
  PROVE  SlotsInv'
<1> USE AhciAssumption DEF TypeInv, HandlerAt, Describing, Reading, thread
<1>1. PICK p \in Ports, c \in Slots : p = handler.port /\ c = Lowest(Completed) /\ c \in pending[p]
  BY CompletedFacts DEF CountAsync, CompleteSync
<1>2. /\ handler.at = "Commands" /\ handler'.port = p /\ handler'.seen = handler.seen \ {c}
      /\ pending' = [pending EXCEPT ![p] = @ \ {c}] /\ UNCHANGED <<pc, slot, commands>>
      /\ \/ commands[p][c].async /\ allocated' = [allocated EXCEPT ![p] = @ \ {c}]
         \/ ~commands[p][c].async /\ UNCHANGED allocated
  BY ZenonT(60), <1>1 DEF CountAsync, CompleteSync
<1>3. \A q \in Ports : pending'[q] \subseteq pending[q] /\ pending'[q] \subseteq allocated'[q]
  BY <1>2 DEF SlotsInv
<1>4. ASSUME NEW t \in Threads, NEW d \in Slots, d \in allocated[PortOf[t]],
             ~(PortOf[t] = p /\ d = c /\ commands[p][c].async)
      PROVE  d \in allocated'[PortOf[t]]
  BY <1>2, <1>4
<1>5. ASSUME NEW t \in Threads, Describing(t)
      PROVE  slot[t] \in allocated'[PortOf[t]] /\ slot[t] \notin pending'[PortOf[t]]
  <2>1. slot[t] \in allocated[PortOf[t]] /\ slot[t] \notin pending[PortOf[t]]
    BY <1>5 DEF SlotsInv
  <2>2. ~(PortOf[t] = p /\ slot[t] = c)
    BY <1>1, <2>1
  <2>3. QED BY <1>3, <1>4, <1>5, <2>1, <2>2
<1>6. ASSUME NEW t \in Threads, pc[t] \in {"Test", "Suspend", "Release"}
      PROVE  slot[t] \in allocated'[PortOf[t]]
  <2>1. slot[t] \in allocated[PortOf[t]] /\ slot[t] \in Slots /\ Sync(t)
    BY <1>6 DEF SlotsInv, CallsInv
  <2>2. ~commands[PortOf[t]][slot[t]].async
    BY <1>6, <2>1, SyncAlone
  <2>3. QED BY <1>4, <2>1, <2>2
<1>7. handler'.seen \subseteq pending'[handler'.port]
  BY <1>1, <1>2 DEF SlotsInv
<1>8. QED
  <2>1. \A t \in Threads : pc'[t] = "Release" => slot'[t] \notin pending'[PortOf[t]]
    BY <1>2, <1>3 DEF SlotsInv
  <2>2. QED BY <1>2, <1>3, <1>5, <1>6, <1>7, <2>1 DEF SlotsInv

\* No step gives a slot to two threads or frees one that is in use.
LEMMA SlotsNext ==
  ASSUME TypeInv, CallsInv, Alone, SlotsInv, OwnersInv, [Next]_vars
  PROVE  SlotsInv'
<1> USE DEF TypeInv, HandlerAt, Describing, Reading, thread, port, device
<1>1. ASSUME NEW u \in Threads, KiThreadResumeRoutine(u) PROVE SlotsInv'
  BY <1>1 DEF SlotsInv, KiThreadResumeRoutine
<1>2. ASSUME NEW p \in Ports, NEW c \in Slots, DeviceExecute(p, c) PROVE SlotsInv'
  BY <1>2 DEF SlotsInv, DeviceExecute
<1>3. ASSUME UNCHANGED <<pc, slot, allocated, pending>>, handler'.seen = pending[handler'.port] \/ ~Reading'
               \/ (Reading /\ handler'.seen = handler.seen /\ handler'.port = handler.port)
      PROVE  SlotsInv'
  BY <1>3 DEF SlotsInv
<1>4. ASSUME AhciInterruptHandler PROVE SlotsInv'
  BY <1>3, <1>4 DEF AhciInterruptHandler, Idle
<1>5. ASSUME ReadCommandIssue \/ ReadPending \/ CommandsDone \/ Acknowledge PROVE SlotsInv'
  BY ZenonT(60), <1>3, <1>5 DEF ReadCommandIssue, ReadPending, CommandsDone, Acknowledge
<1>6. ASSUME StoreReturnCode \/ Resume PROVE SlotsInv'
  BY <1>3, <1>6 DEF StoreReturnCode, Resume
<1>7. ASSUME HandlerExit PROVE SlotsInv'
  BY <1>3, <1>7 DEF HandlerExit, Idle
<1>8. ASSUME UNCHANGED vars PROVE SlotsInv'
  BY <1>8 DEF SlotsInv, vars
<1>9. QED
  BY <1>1, <1>2, <1>4, <1>5, <1>6, <1>7, <1>8, SlotsNextOfThread, SlotsNextOfHandler DEF Next, Handler
-------------------------------------------------------------------------------
(* Owners of pending commands.                                                *)

\* A command is described while it is not pending, so it has no owner yet.
LEMMA OwnIssue ==
  ASSUME TypeInv, CallsInv, SlotsInv, NEW t \in Threads, Issue(t)
  PROVE  /\ \A u \in Threads : Own(u)' = Own(u)
         /\ \A q \in Ports, c \in Slots : q # PortOf[t] \/ c # slot[t] => commands'[q][c] = commands[q][c]
         /\ commands'[PortOf[t]][slot[t]].thread = t
         /\ ~Sync(t) => commands'[PortOf[t]][slot[t]].async
<1> USE AhciAssumption DEF TypeInv, At, Goto
<1>1. PICK p \in Ports : p = PortOf[t]
  OBVIOUS
<1>2. PICK c \in Slots : c = slot[t]
  BY ServedSlot
<1> DEFINE r == [async |-> commands[p][c].async \/ ~Sync(t), thread |-> t]
<1>3. commands' = [commands EXCEPT ![p][c] = r] /\ UNCHANGED pending
  BY <1>1, <1>2 DEF Issue
<1>4. r.thread = t /\ (~Sync(t) => r.async)
  OBVIOUS
<1> HIDE DEF r
<1>5. \A q \in Ports, d \in Slots : q # p \/ d # c => commands'[q][d] = commands[q][d]
  BY <1>3
<1>6. commands'[p][c] = r
  BY <1>3
<1>7. c \notin pending[p]
  BY <1>1, <1>2 DEF SlotsInv, Describing, Issue
<1>8. ASSUME NEW u \in Threads PROVE Own(u)' = Own(u)
  BY <1>3, <1>5, <1>7 DEF Own
<1>9. QED BY <1>1, <1>2, <1>4, <1>5, <1>6, <1>8

\* A command that becomes pending is a new one of its thread.
LEMMA OwnSetPending ==
  ASSUME TypeInv, CallsInv, SlotsInv, OwnersInv, NEW t \in Threads, SetPending(t)
  PROVE  /\ slot[t] \in Slots /\ slot[t] \notin Own(t) /\ Own(t)' = Own(t) \cup {slot[t]}
         /\ \A u \in Threads : u # t => Own(u)' = Own(u)
<1> USE AhciAssumption DEF TypeInv, At, Goto
<1>1. PICK p \in Ports : p = PortOf[t]
  OBVIOUS
<1>2. PICK c \in Slots : c = slot[t]
  BY ServedSlot
<1>3. /\ pending' = [pending EXCEPT ![p] = @ \cup {c}] /\ c \notin pending[p]
      /\ commands[p][c].thread = t /\ UNCHANGED commands
  BY <1>1, <1>2 DEF SetPending, SlotsInv, OwnersInv, Describing
<1>4. Own(t)' = Own(t) \cup {c} /\ c \notin Own(t)
  BY <1>1, <1>3 DEF Own
<1>5. ASSUME NEW u \in Threads, u # t PROVE Own(u)' = Own(u)
  BY <1>3, <1>5 DEF Own
<1>6. QED BY <1>2, <1>4, <1>5

\* A completed command is one of its thread less.
LEMMA OwnCompleted ==
  ASSUME TypeInv, SlotsInv, OwnersInv, CountAsync \/ CompleteSync
  PROVE  \E p \in Ports, c \in Slots, u \in Threads :
           /\ p = handler.port /\ c = Lowest(Completed) /\ PortOf[u] = p
           /\ u = commands[p][c].thread /\ c \in Own(u) /\ Own(u)' = Own(u) \ {c}
           /\ \A v \in Threads : v # u => Own(v)' = Own(v)
<1> USE AhciAssumption DEF TypeInv
<1>1. PICK p \in Ports, c \in Slots, u \in Threads :
        /\ p = handler.port /\ c = Lowest(Completed) /\ u = commands[p][c].thread
        /\ PortOf[u] = p /\ c \in Own(u)
  BY CompletedFacts DEF CountAsync, CompleteSync
<1>2. pending' = [pending EXCEPT ![p] = @ \ {c}] /\ UNCHANGED commands
  BY <1>1 DEF CountAsync, CompleteSync
<1>3. Own(u)' = Own(u) \ {c}
  BY <1>1, <1>2 DEF Own
<1>4. ASSUME NEW v \in Threads, v # u PROVE Own(v)' = Own(v)
  BY <1>1, <1>2, <1>4 DEF Own
<1>5. QED BY <1>1, <1>3, <1>4

\* No other step changes what is pending.
LEMMA OthersKeepPending ==
  ASSUME [Next]_vars, ~(CountAsync \/ CompleteSync), \A t \in Threads : ~SetPending(t)
  PROVE  pending' = pending
<1> USE DEF thread, port, device
<1>1. ASSUME NEW t \in Threads, Step(t) PROVE pending' = pending
  BY <1>1 DEF Step, Begin, Scan, ScanFull, Take, TakeBeyond, Retry, Issue, Test, KeSuspendThread,
              Release,
              Poll, PollSleep
<1>2. ASSUME NEW u \in Threads, KiThreadResumeRoutine(u) PROVE pending' = pending
  BY <1>2 DEF KiThreadResumeRoutine
<1>3. ASSUME NEW p \in Ports, NEW c \in Slots, DeviceExecute(p, c) PROVE pending' = pending
  BY <1>3 DEF DeviceExecute
<1>4. ASSUME AhciInterruptHandler \/ Handler PROVE pending' = pending
  BY <1>4 DEF AhciInterruptHandler, Handler, ReadCommandIssue, ReadPending,
              StoreReturnCode, Resume, CommandsDone, Acknowledge, HandlerExit
<1>5. ASSUME UNCHANGED vars PROVE pending' = pending
  BY <1>5 DEF vars, port
<1>6. QED BY <1>1, <1>2, <1>3, <1>4, <1>5 DEF Next

\* The pending commands of a thread can be counted.
LEMMA OwnFinite ==
  ASSUME TypeInv, NEW t \in Threads
  PROVE  Own(t) \subseteq Slots /\ IsFiniteSet(Own(t)) /\ Cardinality(Own(t)) \in Nat
<1>1. Own(t) \subseteq Slots
  BY AhciAssumption DEF Own, TypeInv
<1>2. IsFiniteSet(Own(t))
  BY <1>1, AhciAssumption, FS_Subset
<1>3. QED BY <1>1, <1>2, FS_CardinalityType

\* A transfer that has counted all its commands has none that is pending.
LEMMA CountedAll ==
  ASSUME TypeInv, CallsInv, CountInv, NEW t \in Threads, pc[t] = "Poll", done[t] = Current(t)
  PROVE  Own(t) = {}
<1>1. ~Sync(t) /\ left[t] = 0 /\ Current(t) \in Nat
  BY InCall DEF CallsInv
<1>2. Cardinality(Own(t)) = 0
  BY <1>1, OwnFinite DEF CountInv
<1>3. QED BY <1>2, OwnFinite, FS_EmptySet
\* Of every pending command one knows who described it.
LEMMA PendingOwned ==
  ASSUME TypeInv, CallsInv, SlotsInv, OwnersInv, [Next]_vars,
         NEW p \in Ports, NEW c \in pending'[p]
  PROVE  commands'[p][c].thread \in Threads /\ PortOf[commands'[p][c].thread] = p
<1> USE DEF TypeInv
<1>1. ASSUME NEW t \in Threads, Issue(t)
      PROVE  commands'[p][c].thread \in Threads /\ PortOf[commands'[p][c].thread] = p
  <2>1. pending' = pending /\ slot[t] \notin pending[PortOf[t]]
    BY <1>1, ServedSlot DEF Issue, SlotsInv, Describing, At
  <2>2. commands'[p][c] = commands[p][c]
    BY <1>1, <2>1, OwnIssue
  <2>3. QED BY <2>1, <2>2 DEF OwnersInv
<1>2. ASSUME \A t \in Threads : ~Issue(t)
      PROVE  commands'[p][c].thread \in Threads /\ PortOf[commands'[p][c].thread] = p
  <2>1. commands' = commands
    BY <1>2, DescriptionsKept
  <2>2. CASE c \in pending[p]
    BY <2>1, <2>2 DEF OwnersInv
  <2>3. ASSUME c \notin pending[p], NEW t \in Threads, SetPending(t)
        PROVE  PortOf[t] = p /\ commands[p][c].thread = t
    BY <2>3, AhciAssumption DEF SetPending, OwnersInv, At
  <2>4. ASSUME c \notin pending[p], CountAsync \/ CompleteSync PROVE FALSE
    <3>1. PICK q \in Ports, d \in Slots : pending' = [pending EXCEPT ![q] = @ \ {d}]
      BY <2>4, CompletedFacts DEF CountAsync, CompleteSync
    <3>2. QED BY <2>4, <3>1
  <2>5. QED BY <2>1, <2>2, <2>3, <2>4, OthersKeepPending
<1>3. QED BY <1>1, <1>2

\* A step keeps to each thread its own pending commands.
LEMMA OwnersNext ==
  ASSUME TypeInv, CallsInv, Alone, SlotsInv, OwnersInv, CountInv, [Next]_vars
  PROVE  OwnersInv'
<1> DEFINE Part(t) ==
      /\ pc[t] = "SetPending" => /\ commands[PortOf[t]][slot[t]].thread = t
                                 /\ ~Sync(t) => commands[PortOf[t]][slot[t]].async
      /\ pc[t] # "Idle" /\ ~Sync(t) => \A c \in Own(t) : commands[PortOf[t]][c].async
      /\ pc[t] \in {"Test", "Suspend"} => Own(t) \subseteq {slot[t]}
      /\ pc[t] = "Idle" \/ (Sync(t) /\ pc[t] \notin {"Test", "Suspend"}) => Own(t) = {}
<1> USE DEF TypeInv, At, Goto
<1>1. \A t \in Threads : Part(t) /\ Own(t) \subseteq Slots
  BY OwnFinite DEF OwnersInv
<1>2. ASSUME NEW t \in Threads, Issue(t), NEW u \in Threads PROVE Part(u)'
  <2>1. /\ slot'[u] = slot[u] /\ (Sync(u)' <=> Sync(u))
        /\ pc[t] = "Issue" /\ pc'[t] = "SetPending" /\ (u # t => pc'[u] = pc[u])
        /\ slot[t] \in Slots
    BY <1>2, ServedSlot DEF Issue, Sync, Current
  <2>2. slot[t] \notin pending[PortOf[t]]
    BY <2>1 DEF SlotsInv, Describing
  <2>3. PICK p \in Ports : p = PortOf[t]
    BY AhciAssumption
  <2>4. PICK q \in Ports : q = PortOf[u]
    BY AhciAssumption
  <2>5. /\ Own(u)' = Own(u)
        /\ \A c \in Slots : q # p \/ c # slot[t] => commands'[q][c] = commands[q][c]
        /\ commands'[p][slot[t]].thread = t /\ (~Sync(t) => commands'[p][slot[t]].async)
    BY <1>2, <2>3, <2>4, OwnIssue
  <2>6. \A c \in Own(u) : commands'[q][c] = commands[q][c]
    <3>1. \A c \in Own(u) : c \in Slots /\ c \in pending[q]
      BY <1>1, <2>4 DEF Own
    <3>2. QED BY <2>2, <2>3, <2>5, <3>1
  <2>7. CASE u = t
    BY <1>1, <2>1, <2>3, <2>4, <2>5, <2>6, <2>7
  <2>8. CASE u # t
    <3>1. ASSUME pc[u] = "SetPending" PROVE commands'[q][slot[u]] = commands[q][slot[u]]
      <4>1. slot[u] \in Slots /\ ~(q = p /\ slot[u] = slot[t])
        BY <2>1, <2>3, <2>4, <2>8, <3>1 DEF SlotsInv, Describing, CallsInv, Served
      <4>2. QED BY <2>5, <4>1
    <3>2. QED BY <1>1, <2>1, <2>4, <2>5, <2>6, <2>8, <3>1
  <2>9. QED BY <2>7, <2>8
<1>3. ASSUME NEW t \in Threads, SetPending(t), NEW u \in Threads PROVE Part(u)'
  <2>1. /\ commands' = commands /\ (Sync(u)' <=> Sync(u))
        /\ pc[t] = "SetPending" /\ (u # t => pc'[u] = pc[u] /\ slot'[u] = slot[u])
        /\ IF Sync(t) THEN pc'[t] = "Test" /\ slot'[t] = slot[t] ELSE pc'[t] \in {"Allocate", "Poll"}
    BY <1>3 DEF SetPending, Sync, Current
  <2>2. CASE u # t
    BY <1>1, <1>3, <2>1, <2>2, OwnSetPending
  <2>3. CASE u = t
    <3>1. Own(t)' = Own(t) \cup {slot[t]}
      BY <1>3, OwnSetPending
    <3>2. CASE Sync(t)
      BY <1>1, <2>1, <2>3, <3>1, <3>2
    <3>3. CASE ~Sync(t)
      BY <1>1, <2>1, <2>3, <3>1, <3>3
    <3>4. QED BY <3>2, <3>3
  <2>4. QED BY <2>2, <2>3
<1>4. ASSUME NEW t \in Threads, Step(t), ~Issue(t), ~SetPending(t), NEW u \in Threads PROVE Part(u)'
  <2>1. commands' = commands /\ pending' = pending /\ Own(u)' = Own(u)
    BY <1>4 DEF Step, Begin, Scan, ScanFull, Take, TakeBeyond, Retry, Test, KeSuspendThread, Release,
                Poll, PollSleep, Own, port
  <2>2. CASE u # t
    <3>1. pc'[u] = pc[u] /\ slot'[u] = slot[u] /\ (Sync(u)' <=> Sync(u))
      BY <1>4, <2>2 DEF Step, Begin, Scan, ScanFull, Take, TakeBeyond, Retry, Test, KeSuspendThread,
                        Release,
                Poll, PollSleep, thread, Sync, Current
    <3>2. QED BY <1>1, <2>1, <3>1
  <2>3. CASE u = t
    <3>1. CASE Begin(t)
      <4>1. pc[t] = "Idle" /\ pc'[t] = "Allocate"
        BY <3>1 DEF Begin
      <4>2. Own(t)' = {}
        BY <1>1, <2>1, <2>3, <4>1
      <4>3. QED BY <2>3, <4>1, <4>2
    <3>2. CASE Scan(t) \/ ScanFull(t) \/ Take(t) \/ TakeBeyond(t) \/ Retry(t) \/ PollSleep(t)
      <4>1. /\ (Sync(t)' <=> Sync(t)) /\ pc[t] \notin {"Idle", "Test", "Suspend"}
            /\ pc'[t] \notin {"Idle", "Test", "Suspend", "SetPending"}
        BY <3>2 DEF Scan, ScanFull, Take, TakeBeyond, Retry, PollSleep, Sync, Current
      <4>2. QED BY <1>1, <2>1, <2>3, <4>1
    <3>3. CASE Test(t)
      <4>1. /\ (Sync(t)' <=> Sync(t)) /\ pc[t] = "Test" /\ slot'[t] = slot[t]
            /\ pc'[t] = IF slot[t] \in pending[PortOf[t]] THEN "Suspend" ELSE "Release"
        BY <3>3 DEF Test, Sync, Current
      <4>2. Own(t) \subseteq pending[PortOf[t]] /\ Sync(t)
        BY <4>1 DEF Own, CallsInv
      <4>3. QED BY <1>1, <2>1, <2>3, <4>1, <4>2
    <3>4. CASE KeSuspendThread(t)
      <4>1. /\ (Sync(t)' <=> Sync(t)) /\ pc[t] = "Suspend" /\ pc'[t] = "Test" /\ slot'[t] = slot[t]
        BY <3>4 DEF KeSuspendThread, Sync, Current
      <4>2. Sync(t)
        BY <4>1 DEF CallsInv
      <4>3. QED BY <1>1, <2>1, <2>3, <4>1, <4>2
    <3>5. CASE Release(t)
      <4>1. pc[t] = "Release" /\ pc'[t] = "Idle"
        BY <3>5 DEF Release
      <4>2. Own(t) = {}
        BY <1>1, <4>1 DEF CallsInv
      <4>3. QED BY <2>1, <2>3, <4>1, <4>2
    <3>6. CASE Poll(t)
      <4>1. pc[t] = "Poll" /\ done[t] = Current(t) /\ pc'[t] = "Idle"
        BY <3>6 DEF Poll
      <4>2. QED BY <2>1, <2>3, <4>1, CountedAll
    <3>7. QED BY <1>4, <3>1, <3>2, <3>3, <3>4, <3>5, <3>6 DEF Step
  <2>4. QED BY <2>2, <2>3
<1>5. ASSUME \A t \in Threads : ~Step(t), NEW u \in Threads PROVE Part(u)'
  <2>1. UNCHANGED <<pc[u], slot[u], Sync(u)>> /\ commands' = commands
    BY <1>5, OthersDoNotMove, DescriptionsKept DEF Sync, Current, Step
  <2>2. Own(u)' \subseteq Own(u)
    <3>1. CASE CountAsync \/ CompleteSync
      BY <3>1, OwnCompleted
    <3>2. CASE ~(CountAsync \/ CompleteSync)
      BY <1>5, <2>1, <3>2, OthersKeepPending DEF Own, Step
    <3>3. QED BY <3>1, <3>2
  <2>3. QED BY <1>1, <2>1, <2>2
<1>6. \A u \in Threads : Part(u)'
  BY <1>2, <1>3, <1>4, <1>5
<1>7. \A p \in Ports : \A c \in pending'[p] :
        commands'[p][c].thread \in Threads /\ PortOf[commands'[p][c].thread] = p
  BY PendingOwned
<1>8. QED BY <1>6, <1>7 DEF OwnersInv
\* A finite set without one of its members has one less.
LEMMA OneLess ==
  ASSUME NEW S, IsFiniteSet(S), NEW x \in S
  PROVE  Cardinality(S \ {x}) = Cardinality(S) - 1
BY FS_RemoveElement

\* Every command of a transfer stays accounted for.
LEMMA CountNext ==
  ASSUME TypeInv, CallsInv, Alone, SlotsInv, OwnersInv, CountInv, [Next]_vars
  PROVE  CountInv'
<1> DEFINE Part(t) ==
      pc[t] # "Idle" /\ ~Sync(t) =>
        done[t] + Cardinality(Own(t)) + (IF pc[t] = "SetPending" THEN 1 ELSE 0) + left[t]
          = Current(t)
<1> USE DEF TypeInv, At, Goto
<1>1. \A t \in Threads : /\ Part(t) /\ Cardinality(Own(t)) \in Nat /\ IsFiniteSet(Own(t))
                         /\ done[t] \in Nat /\ left[t] \in Nat
  BY OwnFinite DEF CountInv
<1>2. ASSUME NEW t \in Threads, Issue(t), NEW u \in Threads PROVE Part(u)'
  <2>1. Own(u)' = Own(u)
    BY <1>2, OwnIssue
  <2>2. /\ done' = done /\ left' = [left EXCEPT ![t] = @ - 1] /\ Current(u)' = Current(u)
        /\ pc[t] = "Issue" /\ pc' = [pc EXCEPT ![t] = "SetPending"] /\ (Sync(u)' <=> Sync(u))
    BY <1>2 DEF Issue, Sync, Current
  <2>3. CASE u = t
    <3>1. /\ pc[u] = "Issue" /\ pc'[u] = "SetPending" /\ left'[u] = left[u] - 1 /\ done'[u] = done[u]
      BY <2>2, <2>3
    <3>2. Part(u) /\ Cardinality(Own(u))' = Cardinality(Own(u))
      BY <1>1, <2>1
    <3>3. QED BY <1>1, <2>2, <3>1, <3>2
  <2>4. CASE u # t
    BY <1>1, <2>1, <2>2, <2>4
  <2>5. QED BY <2>3, <2>4
<1>3. ASSUME NEW t \in Threads, SetPending(t), NEW u \in Threads PROVE Part(u)'
  <2>1. /\ done' = done /\ left' = left /\ Current(u)' = Current(u)
        /\ pc[t] = "SetPending" /\ pc'[t] \notin {"Idle", "SetPending"}
        /\ (u # t => pc'[u] = pc[u]) /\ (Sync(u)' <=> Sync(u))
    BY <1>3 DEF SetPending, Sync, Current
  <2>2. CASE u = t
    <3>1. Own(t)' = Own(t) \cup {slot[t]} /\ slot[t] \notin Own(t)
      BY <1>3, OwnSetPending
    <3>2. Cardinality(Own(t))' = Cardinality(Own(t)) + 1
      <4>1. Cardinality(Own(t) \cup {slot[t]}) = Cardinality(Own(t)) + 1
        BY <1>1, <3>1, FS_AddElement
      <4>2. QED BY <3>1, <4>1
    <3>3. QED BY SMTT(30), <1>1, <2>1, <2>2, <3>2
  <2>3. CASE u # t
    <3>1. Own(u)' = Own(u)
      BY <1>3, <2>3, OwnSetPending
    <3>2. QED BY <1>1, <2>1, <2>3, <3>1
  <2>4. QED BY <2>2, <2>3
<1>4. ASSUME NEW t \in Threads, Begin(t), NEW u \in Threads PROVE Part(u)'
  <2>1. /\ done' = [done EXCEPT ![t] = 0] /\ Current(u)' = Current(u) /\ (Sync(u)' <=> Sync(u))
        /\ left' = [left EXCEPT ![t] = IF Sync(t) THEN 1 ELSE Current(t)]
        /\ pc[t] = "Idle" /\ pc' = [pc EXCEPT ![t] = "Allocate"] /\ pending' = pending
        /\ commands' = commands /\ call[t] <= Len(Program[t])
    <3>1. call[t] <= Len(Program[t])
      BY <1>4, ProgramAssumption DEF Begin, Returned, CallsInv
    <3>2. QED BY <1>4, <3>1 DEF Begin, Sync, Current, port
  <2>2. Own(u)' = Own(u)
    BY <2>1 DEF Own
  <2>3. CASE u = t
    <3>1. Own(t)' = {}
      BY <2>1, <2>2, <2>3 DEF OwnersInv
    <3>2. Cardinality(Own(t))' = 0
      BY <3>1, FS_EmptySet
    <3>3. Current(t) \in Nat
      BY <2>1, InCall
    <3>4. done'[t] = 0 /\ (~Sync(t) => left'[t] = Current(t)) /\ pc'[t] = "Allocate"
      BY <2>1
    <3>5. QED BY <2>1, <2>3, <3>2, <3>3, <3>4
  <2>4. CASE u # t
    BY <1>1, <2>1, <2>2, <2>4
  <2>5. QED BY <2>3, <2>4
<1>5. ASSUME NEW t \in Threads, Step(t), ~Issue(t), ~SetPending(t), ~Begin(t), NEW u \in Threads
      PROVE  Part(u)'
  <2>1. /\ UNCHANGED <<done, left, commands, pending>>
        /\ pc[t] \notin {"Idle", "SetPending"} /\ pc'[t] # "SetPending"
        /\ (pc'[u] = "Idle" \/ UNCHANGED <<Sync(u), Current(u)>>) /\ (u # t => pc'[u] = pc[u])
    <3>1. CASE Scan(t) \/ ScanFull(t) \/ Take(t) \/ TakeBeyond(t) \/ Retry(t) \/ PollSleep(t)
      BY <3>1 DEF Scan, ScanFull, Take, TakeBeyond, Retry, PollSleep, Sync, Current, port
    <3>2. CASE Test(t) \/ KeSuspendThread(t)
      BY <3>2 DEF Test, KeSuspendThread, Sync, Current, port
    <3>3. CASE Release(t) \/ Poll(t)
      BY <3>3 DEF Release, Poll, Sync, Current, port
    <3>4. QED BY <1>5, <3>1, <3>2, <3>3 DEF Step
  <2>2. Own(u)' = Own(u)
    BY <2>1 DEF Own
  <2>3. CASE pc'[u] = "Idle"
    BY <2>3
  <2>4. CASE pc'[u] # "Idle"
    BY <1>1, <2>1, <2>2, <2>4
  <2>5. QED BY <2>3, <2>4
<1>6. ASSUME \A t \in Threads : ~Step(t), ~CountAsync, NEW u \in Threads PROVE Part(u)'
  <2>1. UNCHANGED <<pc[u], left[u], Sync(u), Current(u)>> /\ commands' = commands
    BY <1>6, OthersDoNotMove, DescriptionsKept DEF Sync, Current, Step
  <2>2. done' = done
    BY <1>6 DEF Next, Handler, KiThreadResumeRoutine, DeviceExecute, AhciInterruptHandler, thread,
                ReadCommandIssue, ReadPending, CompleteSync, StoreReturnCode, Resume, CommandsDone,
                Acknowledge, HandlerExit, vars
  <2>3. CASE CompleteSync
    <3>1. PICK p \in Ports, c \in Slots, v \in Threads :
            /\ p = handler.port /\ c = Lowest(Completed) /\ PortOf[v] = p
            /\ v = commands[p][c].thread /\ c \in Own(v) /\ Own(v)' = Own(v) \ {c}
            /\ \A w \in Threads : w # v => Own(w)' = Own(w)
      BY <2>3, OwnCompleted
    <3>2. ~commands[p][c].async
      BY <2>3, <3>1 DEF CompleteSync
    <3>3. pc[v] = "Idle" \/ Sync(v)
      BY <3>1, <3>2 DEF OwnersInv
    <3>4. CASE u = v
      BY <2>1, <3>3, <3>4
    <3>5. CASE u # v
      BY <1>1, <2>1, <2>2, <3>1, <3>5
    <3>6. QED BY <3>4, <3>5
  <2>4. CASE ~CompleteSync
    <3>1. Own(u)' = Own(u)
      BY <1>6, <2>1, <2>4, OthersKeepPending DEF Own, Step
    <3>2. QED BY <1>1, <2>1, <2>2, <3>1
  <2>5. QED BY <2>3, <2>4
<1>7. ASSUME CountAsync, NEW u \in Threads PROVE Part(u)'
  <2>1. PICK p \in Ports, c \in Slots, v \in Threads :
          /\ p = handler.port /\ c = Lowest(Completed) /\ PortOf[v] = p
          /\ v = commands[p][c].thread /\ c \in Own(v) /\ Own(v)' = Own(v) \ {c}
          /\ \A w \in Threads : w # v => Own(w)' = Own(w)
    BY <1>7, OwnCompleted
  <2>2. /\ done' = [done EXCEPT ![v] = @ + 1]
        /\ UNCHANGED <<pc, left, Sync(u), Current(u)>>
    BY <1>7, <2>1 DEF CountAsync, Sync, Current
  <2>3. CASE u = v
    <3>1. Cardinality(Own(v))' = Cardinality(Own(v)) - 1
      <4>1. Cardinality(Own(v) \ {c}) = Cardinality(Own(v)) - 1
        BY <1>1, <2>1, OneLess
      <4>2. QED BY <2>1, <4>1
    <3>2. done'[v] = done[v] + 1
      BY <2>2
    <3>3. QED BY <1>1, <2>2, <2>3, <3>1, <3>2
  <2>4. CASE u # v
    BY <1>1, <2>1, <2>2, <2>4
  <2>5. QED BY <2>3, <2>4
<1>8. \A u \in Threads : Part(u)'
  BY <1>2, <1>3, <1>4, <1>5, <1>6, <1>7
<1>9. QED BY <1>8 DEF CountInv

\* At first nobody is in a call and no slot is in use.
LEMMA SharedInit ==
  ASSUME Init
  PROVE  SharedInv
<1> USE AhciAssumption, ProgramAssumption DEF Init, Idle
<1>1. TypeInv
  BY DEF TypeInv, Labels, Served, HandlerLabels
<1>2. CallsInv
  <2>1. ASSUME NEW t \in Threads PROVE call[t] \in 1 .. Len(Program[t]) + 1
    <3>1. Len(Program[t]) \in Nat
      OBVIOUS
    <3>2. QED BY <3>1
  <2>2. QED BY <2>1 DEF CallsInv, Served
<1>3. Alone
  BY DEF Alone
<1>4. SlotsInv
  BY DEF SlotsInv, Describing, Reading
<1>5. \A t \in Threads : Own(t) = {}
  BY DEF Own
<1>6. OwnersInv
  BY <1>5 DEF OwnersInv
<1>7. CountInv
  BY DEF CountInv
<1>8. QED BY <1>1, <1>2, <1>3, <1>4, <1>6, <1>7 DEF SharedInv

\* Wherever the threads run: slots, owners and counts of the driver fit together.
THEOREM SharedInvariant == Spec => []SharedInv
<1>1. Init => SharedInv
  BY SharedInit
<1>2. SharedInv /\ [Next]_vars => SharedInv'
  BY TypeNext, CallsNext, AloneNext, SlotsNext, OwnersNext, CountNext DEF SharedInv
<1>3. QED BY <1>1, <1>2, PTL DEF Spec

\* Whatever number a full scan leaves on its stack, who describes, issues or waits
\* for a command has a slot that exists, as long as nobody is known to have gone
\* beyond them.
THEOREM AhciTypes == Spec => []TypeOK
<1>1. SharedInv => TypeOK
  BY DEF SharedInv, TypeInv, CallsInv, Served, TypeOK
<1>2. QED BY <1>1, SharedInvariant, PTL

\* Two threads never describe, issue or wait with the same slot.
THEOREM SlotsNeverShared == Spec => []SlotsExclusive
<1>1. SharedInv => SlotsExclusive
  <2> SUFFICES ASSUME SharedInv, NEW t \in Threads, NEW u \in Threads, t # u, PortOf[t] = PortOf[u],
                      NEW c \in Holding(t), c \in Holding(u)
               PROVE  FALSE
    BY DEF SlotsExclusive
  <2>1. slot[t] = c /\ slot[u] = c /\ c \in Slots /\ pc[t] # "Idle" /\ pc[u] # "Idle"
    BY DEF Holding, Served
  <2>2. CASE pc[t] \in {"Test", "Suspend", "Release"}
    BY <2>1, <2>2, SyncAlone DEF SharedInv, CallsInv
  <2>3. CASE pc[u] \in {"Test", "Suspend", "Release"}
    BY <2>1, <2>3, SyncAlone DEF SharedInv, CallsInv
  <2>4. CASE pc[t] \in {"Issue", "SetPending"} /\ pc[u] \in {"Issue", "SetPending"}
    BY <2>1, <2>4 DEF SharedInv, SlotsInv, Describing
  <2>5. QED BY <2>2, <2>3, <2>4 DEF Holding, Served
<1>2. QED BY <1>1, SharedInvariant, PTL

\* The handler lets go of a pending slot only if it frees it or a thread waits for it.
LEMMA CompletedKept ==
  ASSUME SharedInv, NoSlotLost, CountAsync \/ CompleteSync
  PROVE  NoSlotLost'
<1> USE DEF SharedInv
<1>1. HandlerAt("Commands") /\ Completed # {}
  BY DEF CountAsync, CompleteSync
<1>2. PICK p \in Ports, c \in Slots, u \in Threads :
        /\ p = handler.port /\ c = Lowest(Completed) /\ u = commands[p][c].thread
        /\ c \in pending[p] /\ PortOf[u] = p /\ c \in Own(u)
  BY <1>1, CompletedFacts
<1>3. /\ pending' = [pending EXCEPT ![p] = @ \ {c}] /\ UNCHANGED <<pc, slot>>
      /\ \/ allocated' = [allocated EXCEPT ![p] = @ \ {c}]
         \/ allocated' = allocated /\ ~commands[p][c].async
  BY <1>2 DEF CountAsync, CompleteSync, thread
<1>4. Holding(u)' = Holding(u) /\ \A t \in Threads : Holding(t)' = Holding(t)
  BY <1>3 DEF Holding
<1>5. ASSUME ~commands[p][c].async PROVE c \in Holding(u)
  <2>1. pc[u] \in {"Test", "Suspend"} /\ c = slot[u]
    BY <1>2, <1>5 DEF OwnersInv
  <2>2. QED BY <2>1, <1>2 DEF Holding, Served
<1>6. SUFFICES ASSUME NEW q \in Ports, NEW d \in allocated'[q] \ pending'[q]
               PROVE  \E t \in Threads : PortOf[t] = q /\ d \in Holding(t)'
  BY DEF NoSlotLost
<1>7. CASE d \in pending[q]
  <2>1. q = p /\ d = c /\ ~commands[p][c].async
    BY <1>3, <1>6, <1>7 DEF TypeInv
  <2>2. QED BY <1>2, <1>4, <1>5, <2>1
<1>8. CASE d \notin pending[q]
  <2>1. d \in allocated[q]
    BY <1>3, <1>6 DEF TypeInv
  <2>2. QED BY <1>4, <1>8, <2>1 DEF NoSlotLost
<1>9. QED BY <1>7, <1>8

\* Every step leaves an allocated slot pending or with the thread that has it.
LEMMA NoSlotLostNext ==
  ASSUME SharedInv, NoSlotLost, [Next]_vars
  PROVE  NoSlotLost'
<1> USE DEF SharedInv, TypeInv, thread, port, device
<1>1. ASSUME NEW t \in Threads, Step(t) PROVE NoSlotLost'
  <2> USE <1>1, AhciAssumption DEF At, Goto
  <2>1. PICK p \in Ports : p = PortOf[t]
    OBVIOUS
  <2>2. \A u \in Threads : u # t => pc'[u] = pc[u] /\ slot'[u] = slot[u]
    BY DEF Step, Begin, Scan, ScanFull, Take, TakeBeyond, Retry, Issue, SetPending, Test,
           KeSuspendThread, Release, Poll, PollSleep
  <2>3. \A u \in Threads : u # t => Holding(u)' = Holding(u)
    BY <2>2 DEF Holding
  <2>4. CASE Begin(t) \/ Scan(t) \/ ScanFull(t) \/ TakeBeyond(t) \/ Retry(t) \/ Poll(t) \/ PollSleep(t)
    <3>1. UNCHANGED <<allocated, pending>> /\ Holding(t) = {}
      BY <2>4 DEF Begin, Scan, ScanFull, TakeBeyond, Retry, Poll, PollSleep, Holding, Served
    <3>2. QED BY <2>3, <3>1 DEF NoSlotLost
  <2>5. CASE Take(t)
    <3>1. /\ pending' = pending /\ allocated' = [allocated EXCEPT ![p] = @ \cup {slot[t]}]
          /\ Holding(t) = {} /\ Holding(t)' = {slot[t]}
      BY <2>1, <2>5 DEF Take, Holding, Served
    <3>2. QED BY <2>1, <2>3, <3>1 DEF NoSlotLost
  <2>6. CASE SetPending(t)
    <3>1. /\ allocated' = allocated /\ pending' = [pending EXCEPT ![p] = @ \cup {slot[t]}]
          /\ Holding(t) \subseteq {slot[t]}
      BY <2>1, <2>6 DEF SetPending, Holding
    <3>2. slot[t] \in pending'[p] /\ \A q \in Ports : pending[q] \subseteq pending'[q]
      BY <3>1
    <3>3. QED BY <2>1, <2>3, <3>1, <3>2 DEF NoSlotLost
  <2>7. CASE Issue(t) \/ Test(t) \/ KeSuspendThread(t)
    <3>1. UNCHANGED <<allocated, pending>> /\ Holding(t)' = Holding(t)
      BY <2>7 DEF Issue, Test, KeSuspendThread, Holding, Served
    <3>2. QED BY <2>3, <3>1 DEF NoSlotLost
  <2>8. CASE Release(t)
    <3>1. /\ pending' = pending /\ allocated' = [allocated EXCEPT ![p] = @ \ {slot[t]}]
          /\ Holding(t) \subseteq {slot[t]}
      BY <2>1, <2>8 DEF Release, Holding
    <3>2. QED BY <2>1, <2>3, <3>1 DEF NoSlotLost
  <2>9. QED BY <2>4, <2>5, <2>6, <2>7, <2>8 DEF Step
<1>2. ASSUME CountAsync \/ CompleteSync PROVE NoSlotLost'
  BY <1>2, CompletedKept
<1>3. ASSUME UNCHANGED <<pc, slot, allocated, pending>> PROVE NoSlotLost'
  <2>1. \A t \in Threads : Holding(t)' = Holding(t)
    BY <1>3 DEF Holding
  <2>2. QED BY <1>3, <2>1 DEF NoSlotLost
<1>4. ASSUME NEW t \in Threads, KiThreadResumeRoutine(t) PROVE NoSlotLost'
  BY <1>3, <1>4 DEF KiThreadResumeRoutine
<1>5. ASSUME NEW p \in Ports, NEW c \in Slots, DeviceExecute(p, c) PROVE NoSlotLost'
  BY <1>3, <1>5 DEF DeviceExecute
<1>6. ASSUME AhciInterruptHandler \/ (Handler /\ ~CountAsync /\ ~CompleteSync) PROVE NoSlotLost'
  BY <1>3, <1>6 DEF AhciInterruptHandler, Handler, ReadCommandIssue, ReadPending, StoreReturnCode,
                    Resume, CommandsDone, Acknowledge, HandlerExit
<1>7. ASSUME UNCHANGED vars PROVE NoSlotLost'
  BY <1>3, <1>7 DEF vars
<1>8. QED BY <1>1, <1>2, <1>4, <1>5, <1>6, <1>7 DEF Next

\* Every allocated slot is pending or has a thread that is to free it: none is lost
\* between the issuer and the handler.
THEOREM SlotsNeverLost == Spec => []NoSlotLost
<1>1. Init => NoSlotLost
  BY DEF Init, NoSlotLost
<1>2. SharedInv /\ NoSlotLost /\ [Next]_vars => NoSlotLost'
  BY NoSlotLostNext
<1>3. QED BY <1>1, <1>2, SharedInvariant, PTL DEF Spec

\* Done never passes the number of commands it is compared with, so that a
\* transfer cannot wait for a number it has missed.
THEOREM DoneNeverPasses == Spec => []DoneBounded
<1>1. SharedInv => DoneBounded
  <2> SUFFICES ASSUME SharedInv, NEW t \in Threads, pc[t] = "Poll"
               PROVE  done[t] <= Current(t)
    BY DEF DoneBounded
  <2>1. ~Sync(t) /\ left[t] = 0 /\ Current(t) \in Nat /\ done[t] \in Nat
    BY InCall DEF SharedInv, CallsInv, TypeInv
  <2>2. Cardinality(Own(t)) \in Nat
    BY OwnFinite DEF SharedInv
  <2>3. done[t] + Cardinality(Own(t)) = Current(t)
    BY <2>1, <2>2 DEF SharedInv, CountInv
  <2>4. QED BY <2>1, <2>2, <2>3
<1>2. QED BY <1>1, SharedInvariant, PTL
-------------------------------------------------------------------------------
(* Threads of the processor that takes the interrupt.                         *)

\* A thread steps only while no handler runs, and no other thread has interrupts
\* off.
LEMMA StepsAlone ==
  ASSUME AllLocal, NEW t \in Threads, Step(t)
  PROVE  handler.at = "Idle" /\ ~suspended[t] /\ \A u \in Threads : u # t => ~off[u]
<1>1. Executes(t)
  BY DEF Step, At, Begin, Scan, ScanFull, Take, TakeBeyond, Retry, Issue, SetPending, Test,
         KeSuspendThread,
         Release, Poll, PollSleep
<1>2. QED BY <1>1 DEF Executes, AllLocal

\* What a step of a thread does to the one that waits: it is the thread's own.
LEMMA WaitNextOfThread ==
  ASSUME AllLocal, SharedInv, WaitInv, NEW t \in Threads, Step(t)
  PROVE  WaitInv'
<1> DEFINE Part(u) ==
      /\ ~resume[u] /\ (suspended[u] => pc[u] = "Test" /\ ~off[u])
      /\ pc[u] = "SetPending" /\ Sync(u) => off[u]
      /\ pc[u] = "Suspend" => off[u]
      /\ pc[u] = "Test" /\ ~off[u] /\ ~suspended[u] => retSet[u]
      /\ pc[u] = "Release" => retSet[u]
      /\ pc[u] \in {"Test", "Suspend"} =>
           (slot[u] \in pending[PortOf[u]]
              <=> off[u] \/ (suspended[u] /\ ~(Completing /\ handler.thread = u)))
<1> USE DEF At, Goto, thread, port, device
<1>1. /\ TypeInv /\ CallsInv /\ Alone /\ SlotsInv /\ AhciAssumption
      /\ handler.at = "Idle" /\ ~Completing /\ ~suspended[t] /\ Part(t)
      /\ \A u \in Threads : u # t => Part(u) /\ ~off[u]
  BY StepsAlone, AhciAssumption DEF SharedInv, WaitInv, Completing
<1>2. handler' = handler
  BY DEF Step, Begin, Scan, ScanFull, Take, TakeBeyond, Retry, Issue, SetPending, Test, KeSuspendThread,
         Release, Poll, PollSleep
<1>3. handler'.at = "Idle" /\ ~Completing'
  BY <1>1, <1>2 DEF Completing
<1>4. Part(t)'
  <2> USE <1>1, <1>3 DEF TypeInv
  <2>1. CASE Begin(t) \/ Scan(t) \/ ScanFull(t) \/ Take(t) \/ TakeBeyond(t) \/ Retry(t) \/ Release(t) \/ Poll(t) \/ PollSleep(t)
    <3>1. /\ resume' = resume /\ suspended' = suspended
          /\ pc'[t] \notin {"SetPending", "Test", "Suspend", "Release"}
      BY <2>1 DEF Begin, Scan, ScanFull, Take, TakeBeyond, Retry, Release, Poll, PollSleep
    <3>2. QED BY <3>1
  <2>2. CASE Issue(t)
    <3>1. /\ resume' = resume /\ suspended' = suspended /\ pc'[t] = "SetPending"
          /\ off'[t] = (off[t] \/ Sync(t)) /\ (Sync(t)' <=> Sync(t))
      BY <2>2 DEF Issue, Sync, Current
    <3>2. QED BY <3>1
  <2>3. CASE SetPending(t)
    <3>1. /\ resume' = resume /\ suspended' = suspended /\ off' = off /\ pc[t] = "SetPending"
          /\ pc'[t] \in {"Test", "Allocate", "Poll"} /\ (pc'[t] = "Test" => Sync(t) /\ slot'[t] = slot[t])
          /\ pending'[PortOf[t]] = pending[PortOf[t]] \cup {slot[t]}
      BY <2>3 DEF SetPending
    <3>2. QED BY <3>1
  <2>4. CASE Test(t)
    <3>1. /\ resume' = resume /\ suspended' = suspended /\ off' = off /\ retSet' = retSet
          /\ slot' = slot /\ pending' = pending /\ pc[t] = "Test"
          /\ pc'[t] = IF slot[t] \in pending[PortOf[t]] THEN "Suspend" ELSE "Release"
      BY <2>4 DEF Test
    <3>2. QED BY <3>1
  <2>5. CASE KeSuspendThread(t)
    <3>1. /\ resume' = resume /\ suspended'[t] /\ ~off'[t] /\ slot' = slot /\ pending' = pending
          /\ pc[t] = "Suspend" /\ pc'[t] = "Test"
      BY <2>5 DEF KeSuspendThread
    <3>2. QED BY <3>1
  <2>6. QED BY <2>1, <2>2, <2>3, <2>4, <2>5 DEF Step
<1>5. ASSUME NEW u \in Threads, u # t PROVE Part(u)' /\ ~off'[u]
  <2> USE <1>1, <1>3, <1>5 DEF TypeInv
  <2>1. UNCHANGED <<pc[u], slot[u], resume[u], suspended[u], retSet[u], off[u], Sync(u)>>
    BY DEF Sync, Current, Step, Begin, Scan, ScanFull, Take, TakeBeyond, Retry, Issue, SetPending, Test,
           KeSuspendThread, Release, Poll, PollSleep
  <2>2. ASSUME pc[u] \in {"Test", "Suspend"} PROVE pending'[PortOf[u]] = pending[PortOf[u]]
    <3>1. PortOf[u] = PortOf[t] => pc[t] = "Idle"
      BY <2>2, SyncAlone DEF CallsInv
    <3>2. CASE Begin(t)
      BY <3>2 DEF Begin
    <3>3. CASE SetPending(t)
      BY <3>1, <3>3 DEF SetPending
    <3>4. CASE ~Begin(t) /\ ~SetPending(t)
      BY SMTT(30), <3>4 DEF Step, Scan, ScanFull, Take, TakeBeyond, Retry, Issue, Test,
                            KeSuspendThread, Release, Poll,
                  PollSleep
    <3>5. QED BY <3>2, <3>3, <3>4
  <2>3. QED BY <2>1, <2>2
<1>6. QED BY <1>3, <1>4, <1>5 DEF WaitInv, Completing
\* The handler completes a synchronous command only for a thread that is
\* suspended for it.
LEMMA CompletesSuspended ==
  ASSUME SharedInv, WaitInv, CompleteSync
  PROVE  \E p \in Ports, c \in Slots, u \in Threads :
           /\ p = handler.port /\ c = Lowest(Completed) /\ u = commands[p][c].thread
           /\ PortOf[u] = p /\ c = slot[u] /\ pc[u] = "Test" /\ suspended[u] /\ ~off[u] /\ Sync(u)
<1> USE DEF SharedInv
<1>1. PICK p \in Ports, c \in Slots, u \in Threads :
        /\ p = handler.port /\ c = Lowest(Completed) /\ u = commands[p][c].thread
        /\ PortOf[u] = p /\ c \in Own(u)
  BY CompletedFacts DEF CompleteSync
<1>2. ~commands[p][c].async /\ c \in pending[p]
  BY <1>1 DEF CompleteSync, Own
<1>3. Sync(u) /\ pc[u] \in {"Test", "Suspend"} /\ c = slot[u]
  BY SMTT(30), <1>1, <1>2 DEF OwnersInv
<1>4. handler.at = "Commands"
  BY SMTT(30) DEF CompleteSync, HandlerAt
<1>5. ~off[u] /\ suspended[u]
  BY <1>1, <1>2, <1>3, <1>4 DEF WaitInv
<1>6. pc[u] = "Test"
  BY <1>5 DEF WaitInv
<1>7. QED BY <1>1, <1>3, <1>5, <1>6

\* The handler resumes a thread after it has stored its return code, and takes no
\* command from another that waits.
LEMMA WaitNextOfHandler ==
  ASSUME AllLocal, SharedInv, WaitInv, Handler
  PROVE  WaitInv'
<1> USE DEF HandlerAt, thread, port, device, Completing
<1>1. /\ TypeInv /\ CallsInv /\ Alone /\ SlotsInv /\ OwnersInv /\ AhciAssumption
  BY AhciAssumption DEF SharedInv
<1>2. handler.at # "Idle" /\ UNCHANGED <<pc, call, slot, off>> /\ \A u \in Threads : ~off[u]
  BY DEF Handler, ReadCommandIssue, ReadPending, CountAsync, CompleteSync, StoreReturnCode, Resume,
         CommandsDone, Acknowledge, HandlerExit, WaitInv
<1>3. \A u \in Threads : Sync(u)' <=> Sync(u)
  BY <1>2 DEF Sync, Current
<1>4. ASSUME ReadCommandIssue \/ ReadPending \/ CommandsDone \/ Acknowledge \/ HandlerExit
      PROVE  WaitInv'
  <2>1. UNCHANGED <<resume, suspended, retSet, pending>>
    BY <1>4 DEF ReadCommandIssue, ReadPending, CommandsDone, Acknowledge, HandlerExit
  <2>2. ~Completing /\ handler'.at \notin {"Store", "Resume"}
    <3>1. CASE ReadCommandIssue
      BY <1>1, <3>1 DEF ReadCommandIssue, TypeInv
    <3>2. CASE ReadPending \/ CommandsDone
      BY <1>1, <3>2 DEF ReadPending, CommandsDone, TypeInv
    <3>3. CASE Acknowledge \/ HandlerExit
      BY <1>1, <3>3 DEF Acknowledge, HandlerExit, TypeInv, Idle
    <3>4. QED BY <1>4, <3>1, <3>2, <3>3
  <2>3. QED BY <1>2, <1>3, <2>1, <2>2 DEF WaitInv
<1>5. ASSUME CountAsync PROVE WaitInv'
  <2>1. PICK p \in Ports, c \in Slots : p = handler.port /\ c = Lowest(Completed)
    BY <1>1, <1>5, CompletedFacts DEF CountAsync
  <2>2. /\ pending' = [pending EXCEPT ![p] = @ \ {c}] /\ commands[p][c].async
        /\ UNCHANGED <<resume, suspended, retSet>> /\ ~Completing /\ ~Completing'
    BY <1>1, <1>5, <2>1 DEF CountAsync, TypeInv
  <2>3. ASSUME NEW u \in Threads, pc[u] \in {"Test", "Suspend"}
        PROVE  slot[u] \in pending'[PortOf[u]] <=> slot[u] \in pending[PortOf[u]]
    <3>1. ~(PortOf[u] = p /\ slot[u] = c)
      BY SMTT(30), <1>1, <2>2, <2>3, SyncAlone DEF CallsInv
    <3>2. QED BY <1>1, <2>2, <3>1 DEF TypeInv
  <2>4. QED BY <1>2, <1>3, <2>2, <2>3 DEF WaitInv
<1>6. ASSUME CompleteSync PROVE WaitInv'
  <2>1. PICK p \in Ports, c \in Slots, u \in Threads :
           /\ p = handler.port /\ c = Lowest(Completed) /\ u = commands[p][c].thread
           /\ PortOf[u] = p /\ c = slot[u] /\ pc[u] = "Test" /\ suspended[u] /\ Sync(u)
    BY <1>6, CompletesSuspended
  <2>2. /\ pending' = [pending EXCEPT ![p] = @ \ {c}] /\ ~Completing
        /\ UNCHANGED <<resume, suspended, retSet>>
        /\ handler'.at = "Store" /\ handler'.thread = u
    BY <1>1, <1>6, <2>1 DEF CompleteSync, TypeInv
  <2>3. c \notin pending'[p]
    BY <1>1, <2>2 DEF TypeInv
  <2>4. ASSUME NEW v \in Threads, v # u, pc[v] \in {"Test", "Suspend"}
        PROVE  slot[v] \in pending'[PortOf[v]] <=> slot[v] \in pending[PortOf[v]]
    <3>1. PortOf[v] # p
      <4>1. \A w \in Threads : w # u /\ PortOf[w] = PortOf[u] => pc[w] = "Idle"
        BY ZenonT(60), <1>1, <2>1, SyncAlone
      <4>2. QED BY ZenonT(60), <2>1, <2>4, <4>1
    <3>2. QED BY SMTT(30), <1>1, <2>2, <3>1 DEF TypeInv
  <2>5. QED BY ZenonT(60), <1>2, <1>3, <2>1, <2>2, <2>3, <2>4 DEF WaitInv
<1>7. ASSUME StoreReturnCode PROVE WaitInv'
  <2>1. /\ retSet' = [retSet EXCEPT ![handler.thread] = TRUE] /\ Completing /\ Completing'
        /\ handler'.thread = handler.thread /\ UNCHANGED <<resume, suspended, pending>>
    BY <1>1, <1>7 DEF StoreReturnCode, TypeInv
  <2>2. \A u \in Threads : retSet[u] => retSet'[u]
    BY <1>1, <2>1 DEF TypeInv
  <2>3. handler.thread \in Threads /\ retSet'[handler.thread]
    BY <1>1, <2>1 DEF TypeInv, WaitInv
  <2>4. QED BY <1>2, <1>3, <2>1, <2>2, <2>3 DEF WaitInv
<1>8. ASSUME Resume PROVE WaitInv'
  <2>1. PICK t \in Threads : t = handler.thread
    BY <1>8 DEF Resume, WaitInv
  <2>2. /\ suspended' = [suspended EXCEPT ![t] = FALSE] /\ handler.at = "Resume" /\ ~Completing'
        /\ UNCHANGED <<resume, retSet, pending>>
    BY <1>1, <1>8, <2>1 DEF Resume, TypeInv, AllLocal
  <2>3. retSet[t] /\ suspended[t]
    BY <2>1, <2>2 DEF WaitInv
  <2>4. ~suspended'[t] /\ \A u \in Threads : u # t => suspended'[u] = suspended[u]
    BY <1>1, <2>2 DEF TypeInv
  <2>5. \A u \in Threads : u # t => ~(Completing /\ handler.thread = u)
    BY <2>1
  <2>6. pc[t] \in {"Test", "Suspend"} => slot[t] \notin pending[PortOf[t]]
    BY <1>2, <2>1, <2>2 DEF WaitInv
  <2>7. QED BY <1>2, <1>3, <2>1, <2>2, <2>3, <2>4, <2>5, <2>6 DEF WaitInv
<1>9. QED BY <1>4, <1>5, <1>6, <1>7, <1>8 DEF Handler

\* Who waits is suspended before the handler completes its command, and finds its
\* return code when it is back.
LEMMA WaitNext ==
  ASSUME AllLocal, SharedInv, WaitInv, [Next]_vars
  PROVE  WaitInv'
<1> USE DEF thread, port, device, Sync, Current
<1>1. ASSUME NEW t \in Threads, KiThreadResumeRoutine(t) PROVE WaitInv'
  BY <1>1 DEF KiThreadResumeRoutine, WaitInv
<1>2. ASSUME NEW p \in Ports, NEW c \in Slots, DeviceExecute(p, c) PROVE WaitInv'
  BY <1>2 DEF DeviceExecute, WaitInv, Completing
<1>3. ASSUME AhciInterruptHandler PROVE WaitInv'
  BY <1>3 DEF AhciInterruptHandler, HandlerAt, Idle, WaitInv, Completing, AllLocal
<1>4. ASSUME UNCHANGED vars PROVE WaitInv'
  BY <1>4 DEF vars, WaitInv, Completing
<1>5. QED BY <1>1, <1>2, <1>3, <1>4, WaitNextOfThread, WaitNextOfHandler DEF Next

\* What the device has was read by the handler before it looked at what is
\* pending, and stays pending until the device has executed it.
LEMMA DeviceNext ==
  ASSUME AllLocal, SharedInv, LocalInv, [Next]_vars
  PROVE  DeviceInv'
<1> USE DEF thread, port, device, At, Goto, Reading
<1>1. TypeInv /\ CallsInv /\ SlotsInv /\ OwnersInv /\ DeviceInv /\ AhciAssumption
  BY AhciAssumption DEF SharedInv, LocalInv
<1>2. ASSUME NEW t \in Threads, Issue(t) PROVE DeviceInv'
  <2>1. PICK p \in Ports : p = PortOf[t]
    BY <1>1
  <2>2. /\ commandIssue' = [commandIssue EXCEPT ![p] = @ \cup {slot[t]}]
        /\ pc' = [pc EXCEPT ![t] = "SetPending"] /\ pc[t] = "Issue"
        /\ UNCHANGED <<slot, pending, handler>>
    BY <1>2, <2>1 DEF Issue
  <2>3. handler.at = "Idle"
    BY <1>2, StepsAlone DEF Step
  <2>4. ASSUME NEW q \in Ports, NEW c \in commandIssue'[q]
        PROVE  \/ c \in pending'[q]
               \/ \E u \in Threads : PortOf[u] = q /\ pc'[u] = "SetPending" /\ slot'[u] = c
    <3>1. CASE q = p /\ c = slot[t]
      BY <1>1, <2>1, <2>2, <3>1 DEF TypeInv
    <3>2. CASE ~(q = p /\ c = slot[t])
      <4>1. c \in commandIssue[q]
        BY <1>1, <2>2, <2>4, <3>2 DEF TypeInv
      <4>2. \A u \in Threads : pc[u] = "SetPending" => pc'[u] = "SetPending"
        BY <1>1, <2>2 DEF TypeInv
      <4>3. QED BY <1>1, <2>2, <4>1, <4>2 DEF DeviceInv
    <3>3. QED BY <3>1, <3>2
  <2>5. QED BY <2>2, <2>3, <2>4 DEF DeviceInv
<1>3. ASSUME NEW t \in Threads, SetPending(t) PROVE DeviceInv'
  <2>1. PICK p \in Ports : p = PortOf[t]
    BY <1>1
  <2>2. /\ pending' = [pending EXCEPT ![p] = @ \cup {slot[t]}] /\ UNCHANGED <<commandIssue, handler>>
        /\ \A u \in Threads : u # t => pc'[u] = pc[u] /\ slot'[u] = slot[u]
    BY <1>1, <1>3, <2>1 DEF SetPending, TypeInv
  <2>3. handler.at = "Idle"
    BY <1>3, StepsAlone DEF Step
  <2>4. ASSUME NEW q \in Ports, NEW c \in commandIssue'[q]
        PROVE  \/ c \in pending'[q]
               \/ \E u \in Threads : PortOf[u] = q /\ pc'[u] = "SetPending" /\ slot'[u] = c
    <3>1. CASE q = p /\ c = slot[t]
      BY <1>1, <2>1, <2>2, <3>1 DEF TypeInv
    <3>2. CASE ~(q = p /\ c = slot[t])
      <4>1. pending[q] \subseteq pending'[q]
        BY <1>1, <2>2 DEF TypeInv
      <4>2. \A u \in Threads : PortOf[u] = q /\ slot[u] = c => u # t
        BY <2>1, <3>2
      <4>3. QED BY <1>1, <2>2, <2>4, <4>1, <4>2 DEF DeviceInv
    <3>3. QED BY <3>1, <3>2
  <2>5. QED BY <2>2, <2>3, <2>4 DEF DeviceInv
<1>4. ASSUME NEW t \in Threads, Step(t), ~Issue(t), ~SetPending(t) PROVE DeviceInv'
  <2>1. handler.at = "Idle"
    BY <1>4, StepsAlone
  <2>2. /\ UNCHANGED <<pending, commandIssue, handler>> /\ pc[t] # "SetPending"
        /\ \A u \in Threads : u # t => pc'[u] = pc[u] /\ slot'[u] = slot[u]
    BY <1>1, <1>4 DEF Step, Begin, Scan, ScanFull, Take, TakeBeyond, Retry, Test, KeSuspendThread,
                      Release, Poll,
                      PollSleep, TypeInv
  <2>3. QED BY <1>1, <2>1, <2>2 DEF DeviceInv
<1>5. ASSUME CountAsync \/ CompleteSync PROVE DeviceInv'
  <2>1. PICK p \in Ports, c \in Slots : p = handler.port /\ c = Lowest(Completed) /\ c \notin handler.issued
    BY <1>1, <1>5, CompletedFacts DEF CountAsync, CompleteSync
  <2>2. /\ handler.at = "Commands" /\ handler'.port = p /\ handler'.issued = handler.issued
        /\ pending' = [pending EXCEPT ![p] = @ \ {c}] /\ UNCHANGED <<pc, slot, commandIssue>>
    BY ZenonT(60), <1>1, <1>5, <2>1 DEF CountAsync, CompleteSync, HandlerAt, TypeInv
  <2>3. commandIssue[p] \subseteq handler.issued
    BY <1>1, <2>1, <2>2 DEF DeviceInv
  <2>4. \A q \in Ports : \A d \in commandIssue[q] : d \in pending[q] => d \in pending'[q]
    BY <1>1, <2>1, <2>2, <2>3 DEF TypeInv
  <2>5. QED BY <1>1, <2>1, <2>2, <2>3, <2>4 DEF DeviceInv
<1>6. ASSUME NEW t \in Threads, KiThreadResumeRoutine(t) PROVE DeviceInv'
  <2>1. UNCHANGED <<pc, slot, pending, commandIssue, handler>>
    BY <1>6 DEF KiThreadResumeRoutine
  <2>2. ASSUME NEW p \in Ports, NEW c \in commandIssue'[p]
        PROVE  \/ c \in pending'[p]
               \/ \E u \in Threads : PortOf[u] = p /\ pc'[u] = "SetPending" /\ slot'[u] = c
    BY <1>1, <2>1, <2>2 DEF DeviceInv
  <2>3. QED BY <1>1, <2>1, <2>2 DEF DeviceInv
<1>7. ASSUME NEW p \in Ports, NEW c \in Slots, DeviceExecute(p, c) PROVE DeviceInv'
  <2>1. \A q \in Ports : commandIssue'[q] \subseteq commandIssue[q]
    BY <1>1, <1>7 DEF DeviceExecute, TypeInv
  <2>2. Reading \/ handler.at = "Pending" => handler.port \in Ports
    BY <1>1 DEF TypeInv
  <2>3. QED BY <1>1, <1>7, <2>1, <2>2 DEF DeviceExecute, DeviceInv
<1>8. ASSUME AhciInterruptHandler \/ ReadCommandIssue \/ ReadPending \/ StoreReturnCode \/ Resume
               \/ CommandsDone \/ Acknowledge \/ HandlerExit
      PROVE  DeviceInv'
  <2>1. UNCHANGED <<pc, slot, pending, commandIssue>>
    BY <1>8 DEF AhciInterruptHandler, ReadCommandIssue, ReadPending, StoreReturnCode, Resume,
                CommandsDone, Acknowledge, HandlerExit
  <2>2. Reading' \/ handler'.at = "Pending" => commandIssue[handler'.port] \subseteq handler'.issued
    <3>1. CASE ReadCommandIssue
      BY <1>1, <3>1 DEF ReadCommandIssue, TypeInv
    <3>2. CASE ReadPending \/ StoreReturnCode \/ Resume
      <4>1. /\ handler.at \in {"Pending", "Store", "Resume"}
            /\ handler'.port = handler.port /\ handler'.issued = handler.issued
        BY ZenonT(60), <1>1, <3>2 DEF ReadPending, StoreReturnCode, Resume, HandlerAt, TypeInv
      <4>2. QED BY <1>1, <4>1 DEF DeviceInv
    <3>3. CASE AhciInterruptHandler \/ HandlerExit
      <4>1. CASE AhciInterruptHandler
        <5>1. handler'.at \in {"Idle", "Ports"}
          BY <4>1 DEF AhciInterruptHandler, Idle
        <5>2. QED BY <5>1
      <4>2. CASE HandlerExit
        BY <4>2 DEF HandlerExit, Idle
      <4>3. QED BY <3>3, <4>1, <4>2
    <3>4. CASE CommandsDone \/ Acknowledge
      BY <1>1, <3>4 DEF CommandsDone, Acknowledge, TypeInv
    <3>5. QED BY <1>8, <3>1, <3>2, <3>3, <3>4
  <2>3. QED BY <1>1, <2>1, <2>2 DEF DeviceInv
<1>9. ASSUME UNCHANGED vars PROVE DeviceInv'
  <2>1. UNCHANGED <<pc, slot, pending, commandIssue, handler>>
    BY <1>9 DEF vars
  <2>2. ASSUME NEW p \in Ports, NEW c \in commandIssue'[p]
        PROVE  \/ c \in pending'[p]
               \/ \E u \in Threads : PortOf[u] = p /\ pc'[u] = "SetPending" /\ slot'[u] = c
    BY <1>1, <2>1, <2>2 DEF DeviceInv
  <2>3. QED BY <1>1, <2>1, <2>2 DEF DeviceInv
<1>10. QED
  BY <1>2, <1>3, <1>4, <1>5, <1>6, <1>7, <1>8, <1>9 DEF Next, Handler

\* With all threads on the processor of the interrupt, the driver's view of what
\* the device has is right, and so is the order of suspending and resuming.
THEOREM LocalInvariant == AllLocal => (Spec => [](SharedInv /\ LocalInv))
<1>1. Init => SharedInv /\ LocalInv
  <2> SUFFICES ASSUME Init PROVE SharedInv /\ LocalInv
    OBVIOUS
  <2>1. WaitInv
    BY DEF Init, Idle, WaitInv, Completing
  <2>2. DeviceInv
    BY DEF Init, Idle, DeviceInv, Reading
  <2>3. QED BY <2>1, <2>2, SharedInit DEF LocalInv
<1>2. SharedInv /\ [Next]_vars => SharedInv'
  BY TypeNext, CallsNext, AloneNext, SlotsNext, OwnersNext, CountNext DEF SharedInv
<1>3. AllLocal /\ SharedInv /\ LocalInv /\ [Next]_vars => LocalInv'
  BY WaitNext, DeviceNext DEF LocalInv
<1>4. AllLocal /\ (SharedInv /\ LocalInv) /\ [Next]_vars => (SharedInv /\ LocalInv)'
  BY <1>2, <1>3
<1>5. AllLocal => (Spec => [](SharedInv /\ LocalInv))
  <2> SUFFICES ASSUME AllLocal PROVE Spec => [](SharedInv /\ LocalInv)
    OBVIOUS
  <2>1. (SharedInv /\ LocalInv) /\ [Next]_vars => (SharedInv /\ LocalInv)'
    BY <1>4
  <2>2. QED BY <1>1, <2>1, PTL DEF Spec
<1>6. QED BY <1>5

\* The device never executes a command of a slot that is free.
THEOREM BusyStaysAllocated == AllLocal => (Spec => []BusySlotsAllocated)
<1>1. SharedInv /\ LocalInv => BusySlotsAllocated
  BY DEF SharedInv, LocalInv, DeviceInv, BusySlotsAllocated, SlotsInv, CallsInv, Served, Describing
<1>2. QED BY <1>1, LocalInvariant, PTL

\* AhciIssueCommandSync returns a code that the handler has stored.
THEOREM CodeStoredFirst == AllLocal => (Spec => []ReturnCodeStored)
<1>1. SharedInv /\ LocalInv => ReturnCodeStored
  BY DEF LocalInv, WaitInv, ReturnCodeStored
<1>2. QED BY <1>1, LocalInvariant, PTL

\* The handler never spins for a thread that could not run while it does.
THEOREM HandlerNeverWaits == AllLocal => (Spec => []ResumesSuspended)
<1>1. SharedInv /\ LocalInv => ResumesSuspended
  BY DEF LocalInv, WaitInv, ResumesSuspended, HandlerAt, Completing
<1>2. QED BY <1>1, LocalInvariant, PTL

\* A call returns only after the device has executed all its commands.
THEOREM CallsWaitForDevice == AllLocal => (Spec => []ReturnsAfterDevice)
<1>1. SharedInv /\ LocalInv => ReturnsAfterDevice
  <2> SUFFICES ASSUME SharedInv, LocalInv, NEW t \in Threads
               PROVE  /\ pc[t] = "Release" => slot[t] \notin commandIssue[PortOf[t]]
                      /\ pc[t] = "Poll" /\ done[t] = Current(t) =>
                           \A c \in commandIssue[PortOf[t]] : commands[PortOf[t]][c].thread # t
    BY DEF ReturnsAfterDevice
  <2> USE DEF SharedInv
  <2>1. PICK p \in Ports : p = PortOf[t]
    BY AhciAssumption
  <2>2. \A c \in commandIssue[p] :
          c \in pending[p] \/ \E u \in Threads : PortOf[u] = p /\ pc[u] = "SetPending" /\ slot[u] = c
    BY DEF LocalInv, DeviceInv
  <2>3. ASSUME pc[t] = "Release", slot[t] \in commandIssue[p] PROVE FALSE
    <3>1. slot[t] \notin pending[p] /\ Sync(t)
      BY <2>1, <2>3 DEF SlotsInv, CallsInv
    <3>2. \A u \in Threads : u # t /\ PortOf[u] = p => pc[u] = "Idle"
      BY <2>1, <2>3, <3>1, SyncAlone
    <3>3. QED BY <2>1, <2>2, <2>3, <3>1, <3>2
  <2>4. ASSUME pc[t] = "Poll", done[t] = Current(t), NEW c \in commandIssue[p],
               commands[p][c].thread = t
        PROVE  FALSE
    <3>1. c \notin pending[p]
      BY <2>1, <2>4, CountedAll DEF Own
    <3>2. PICK u \in Threads : PortOf[u] = p /\ pc[u] = "SetPending" /\ slot[u] = c
      BY <2>2, <2>4, <3>1
    <3>3. u = t
      BY <2>4, <3>2 DEF OwnersInv
    <3>4. QED BY <2>4, <3>2, <3>3
  <2>5. QED BY <2>1, <2>3, <2>4
<1>2. QED BY <1>1, LocalInvariant, PTL
===============================================================================
