----------------------------- MODULE AhciInvariant -----------------------------
(* The inductive invariants of Ahci: who holds a command slot and how many of *)
(* a transfer's commands are where, for threads of any processor; and what    *)
(* holds besides when all of them run on the one that takes the interrupt.    *)
EXTENDS Ahci

HandlerLabels == {"Idle", "Ports", "Pending", "Commands", "Store", "Resume", "Acknowledge"}

\* The handler goes through the commands of its port.
Reading == handler.at \in {"Commands", "Store", "Resume"}
Completing == handler.at \in {"Store", "Resume"}

\* TypeOK with what the steps need besides.  A slot that the scan did not find may
\* be anything the stack held.
TypeInv ==
  /\ pc \in [Threads -> Labels] /\ call \in [Threads -> Nat]
  /\ slot \in [Threads -> Slots \cup StackResidue \cup {None}]
  /\ left \in [Threads -> Nat] /\ done \in [Threads -> Nat]
  /\ retSet \in [Threads -> BOOLEAN] /\ off \in [Threads -> BOOLEAN]
  /\ suspended \in [Threads -> BOOLEAN] /\ resume \in [Threads -> BOOLEAN]
  /\ allocated \in [Ports -> SUBSET Slots] /\ pending \in [Ports -> SUBSET Slots]
  /\ commands \in [Ports -> [Slots -> [async : BOOLEAN, thread : Threads \cup {None}]]]
  /\ commandIssue \in [Ports -> SUBSET Slots]
  /\ d2h \in [Ports -> BOOLEAN] /\ gis \subseteq Ports /\ msi \in BOOLEAN
  /\ handler \in [at : HandlerLabels, ports : SUBSET Ports, port : Ports \cup {None},
                  gis : SUBSET Ports, issued : SUBSET Slots, seen : SUBSET Slots,
                  thread : Threads \cup {None}]
  /\ handler.at \notin {"Idle", "Ports"} => handler.port \in Ports

\* A call is one of the program's, and stands where its kind and the number of
\* commands it has left allow.
CallsInv ==
  \A t \in Threads :
    /\ call[t] \in 1 .. Len(Program[t]) + 1
    /\ pc[t] # "Idle" => call[t] <= Len(Program[t])
    /\ pc[t] \in {"Allocate", "Take", "Issue"} => left[t] > 0 /\ (Sync(t) => left[t] = 1)
    /\ pc[t] = "SetPending" /\ Sync(t) => left[t] = 0
    /\ pc[t] \in {"Test", "Suspend", "Release"} => Sync(t)
    /\ pc[t] = "Poll" => ~Sync(t) /\ left[t] = 0
    /\ pc[t] \in Served => slot[t] \in Slots

\* The thread that initialises a port is alone on it until it is done, and first
\* issues a synchronous command.
Alone ==
  \A t \in Threads : Initialises(t) /\ ~Returned(t) =>
    /\ \A u \in Threads : u # t /\ PortOf[u] = PortOf[t] => pc[u] = "Idle"
    /\ call[t] = 1 => \A c \in Slots : ~commands[PortOf[t]][c].async

\* t has a slot that nobody else has and that is not pending yet.
Describing(t) == pc[t] \in {"Issue", "SetPending"} /\ slot[t] \in Slots

\* A pending command has its slot allocated; one that is described or issued, but
\* not pending, belongs to one thread.
SlotsInv ==
  /\ \A p \in Ports : pending[p] \subseteq allocated[p]
  /\ \A t \in Threads : Describing(t) =>
       slot[t] \in allocated[PortOf[t]] /\ slot[t] \notin pending[PortOf[t]]
  /\ \A t, u \in Threads : Describing(t) /\ Describing(u) /\ PortOf[t] = PortOf[u]
                             /\ slot[t] = slot[u] => t = u
  /\ \A t \in Threads : pc[t] \in {"Test", "Suspend", "Release"} =>
       slot[t] \in allocated[PortOf[t]]
  /\ \A t \in Threads : pc[t] = "Release" => slot[t] \notin pending[PortOf[t]]
  /\ Reading => handler.seen \subseteq pending[handler.port]

\* The pending commands of t.
Own(t) == {c \in pending[PortOf[t]] : commands[PortOf[t]][c].thread = t}

\* Every pending command was described by a thread of the port, as the kind of its
\* call says; of a synchronous call that is the command of its slot.
OwnersInv ==
  /\ \A p \in Ports : \A c \in pending[p] :
       commands[p][c].thread \in Threads /\ PortOf[commands[p][c].thread] = p
  /\ \A t \in Threads : pc[t] = "SetPending" =>
       /\ commands[PortOf[t]][slot[t]].thread = t
       /\ ~Sync(t) => commands[PortOf[t]][slot[t]].async
  /\ \A t \in Threads : pc[t] # "Idle" /\ ~Sync(t) =>
       \A c \in Own(t) : commands[PortOf[t]][c].async
  /\ \A t \in Threads : pc[t] \in {"Test", "Suspend"} => Own(t) \subseteq {slot[t]}
  /\ \A t \in Threads :
       pc[t] = "Idle" \/ (Sync(t) /\ pc[t] \notin {"Test", "Suspend"}) => Own(t) = {}

\* No command of a transfer is lost or counted twice: it is counted, pending,
\* issued or still to be issued.
CountInv ==
  \A t \in Threads : pc[t] # "Idle" /\ ~Sync(t) =>
    done[t] + Cardinality(Own(t)) + (IF pc[t] = "SetPending" THEN 1 ELSE 0) + left[t]
      = Current(t)

SharedInv ==
  /\ TypeInv
  /\ CallsInv
  /\ Alone
  /\ SlotsInv
  /\ OwnersInv
  /\ CountInv
-------------------------------------------------------------------------------
(* Threads of the processor that takes the interrupt.                         *)

AllLocal == \A t \in Threads : Home[t] = IrqProcessor

\* Who waits for a synchronous command has interrupts off until it is suspended,
\* and gets its return code before it is resumed.
WaitInv ==
  /\ handler.at # "Idle" => \A t \in Threads : ~off[t]
  /\ \A t \in Threads : ~resume[t] /\ (suspended[t] => pc[t] = "Test" /\ ~off[t])
  /\ \A t \in Threads : /\ pc[t] = "SetPending" /\ Sync(t) => off[t]
                        /\ pc[t] = "Suspend" => off[t]
                        /\ pc[t] = "Test" /\ ~off[t] /\ ~suspended[t] => retSet[t]
                        /\ pc[t] = "Release" => retSet[t]
  /\ \A t \in Threads : pc[t] \in {"Test", "Suspend"} =>
       (slot[t] \in pending[PortOf[t]]
          <=> off[t] \/ (suspended[t] /\ ~(Completing /\ handler.thread = t)))
  /\ Completing => handler.thread \in Threads /\ suspended[handler.thread]
  /\ handler.at = "Resume" => retSet[handler.thread]

\* What the device has is pending, or about to be; the handler has read every
\* command that the device still has.
DeviceInv ==
  /\ \A p \in Ports : \A c \in commandIssue[p] :
       c \in pending[p] \/ \E t \in Threads : PortOf[t] = p /\ pc[t] = "SetPending" /\ slot[t] = c
  /\ Reading \/ handler.at = "Pending" => commandIssue[handler.port] \subseteq handler.issued

LocalInv == WaitInv /\ DeviceInv
===============================================================================
