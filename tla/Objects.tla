-------------------------------- MODULE Objects --------------------------------
(* The object manager's tables (src/src/nos/ob): objects and handles live in  *)
(* arrays whose free slots two bitmaps record, objects of a type on a chain.  *)
(*                                                                            *)
(* Each user is a thread of the kernel process, on any processor, that        *)
(* creates an object of one type, opens and closes handles of it and may      *)
(* destroy it, as drivers do with devices and KeCreateThread and KeExitThread *)
(* with threads.  An action is one access to what others read or write.       *)
EXTENDS Integers, FiniteSetsExt

CONSTANTS Users,
          PermanentUsers,             \* those who create objects with OBJECT_PERMANENT
          ObjectSlots, HandleSlots,   \* indices of the two arrays, from 1 on
          MaxOpens,                   \* bound: handles each user opens
          MaxCreates                  \* bound: objects each user creates

VARIABLES objectBits,   \* _ObAllocationTable: the indices whose bit is set
          handleBits,   \* _ObHandleAllocationTable
          objects,      \* objects[o]: its data, Zeroed when there is none
          refs,         \* refs[h]: the object a handle refers to, or 0
          ends,         \* _ObObjectTypeEnds of the type
          upc,          \* upc[u]: where u is
          index,        \* index[u]: the free slot _BitScanForward64 found
          own,          \* own[u]: the object of u, or 0
          held,         \* held[u]: its handle, or 0
          last,         \* last[u]: _ObObjectTypeEnds as u read it
          opens, creates

objectState == <<objectBits, objects, ends>>
handleState == <<handleBits, refs>>
locals == <<index, own, held, last, opens, creates>>
objectVars == <<objectState, handleState, upc, locals>>

\* by: who created it.  next: TypeContinuation.  references: its handles.
Zeroed == [by |-> "nobody", next |-> 0, references |-> {}]
Starts == 1      \* _ObObjectTypeStarts: the first object, created at boot
Boot == [Zeroed EXCEPT !.by = "boot"]
Permanent(o) == objects[o].by \in PermanentUsers

ASSUME ObjectsAssumption ==
    /\ ObjectSlots \subseteq Nat \ {0} /\ HandleSlots \subseteq Nat \ {0}
    /\ Starts \in ObjectSlots
    /\ PermanentUsers \subseteq Users

StepTo(u, from, to) == upc[u] = from /\ upc' = [upc EXCEPT ![u] = to]

-------------------------------------------------------------------------------
(* Finding a free slot: the bitmap is read and a clear bit looked for, then   *)
(* that bit is set; who finds it set by then looks again.                     *)

Scan(u, slots, bits, from, to, full) ==
    /\ upc[u] = from
    /\ IF slots \ bits = {}
       THEN /\ upc' = [upc EXCEPT ![u] = full]
            /\ UNCHANGED index
       ELSE /\ upc' = [upc EXCEPT ![u] = to]
            /\ index' = [index EXCEPT ![u] = Min(slots \ bits)]

\* Mutant: the bit is set without a look at what it was.
TakeAnyway(u, bits, from, retry, to) ==
    /\ upc[u] = from
    /\ bits' = bits \cup {index[u]}
    /\ upc' = [upc EXCEPT ![u] = to]

Take(u, bits, from, retry, to) ==
    /\ upc[u] = from
    /\ bits' = bits \cup {index[u]}
    /\ upc' = [upc EXCEPT ![u] = IF index[u] \in bits THEN retry ELSE to]

-------------------------------------------------------------------------------
(* ObCreateObject.                                                            *)

FindObject(u) ==
    /\ creates[u] < MaxCreates
    /\ Scan(u, ObjectSlots, objectBits, "none", "allocate", "none")
    /\ UNCHANGED <<objectState, handleState, own, held, last, opens, creates>>

ObiAllocateObject(u) ==
    /\ Take(u, objectBits, "allocate", "none", "data")
    /\ UNCHANGED <<objects, ends, handleState, locals>>

\* The data of the object are set; the new object is to follow the last one.
SetObjectData(u) ==
    /\ StepTo(u, "data", "append")
    /\ own' = [own EXCEPT ![u] = index[u]]
    /\ objects' = [objects EXCEPT ![index[u]].by = u]
    /\ creates' = [creates EXCEPT ![u] = @ + 1]
    /\ last' = [last EXCEPT ![u] = ends]
    /\ UNCHANGED <<objectBits, ends, handleState, index, held, opens>>

\* STATUS_OUT_OF_MEMORY: the pool has nothing for the data, the object is freed.
OutOfMemory(u) ==
    /\ StepTo(u, "data", "free")
    /\ own' = [own EXCEPT ![u] = index[u]]
    /\ objects' = [objects EXCEPT ![index[u]] = Zeroed]
    /\ UNCHANGED <<objectBits, ends, handleState, index, held, last, opens, creates>>

LinkAppend(u) ==
    /\ StepTo(u, "append", "end")
    /\ objects' = [objects EXCEPT ![last[u]].next = own[u]]
    /\ UNCHANGED <<objectBits, ends, handleState, locals>>

LinkEnd(u) ==
    /\ StepTo(u, "end", "ready")
    /\ ends' = own[u]
    /\ UNCHANGED <<objectBits, objects, handleState, locals>>

-------------------------------------------------------------------------------
(* ObOpenHandle and ObCloseHandle, by the kernel process.                     *)

\* A slot for a new handle; without a free one the status is
\* STATUS_NO_FREE_SLOTS. The process has none of the object open: a user opens
\* its own object and closes it again. (Of an object that is open the process
\* gets the handle it has, without a count.)
ObOpenHandle(u) ==
    /\ upc[u] = "ready" /\ opens[u] < MaxOpens
    /\ objects[own[u]].references = {}
    /\ Scan(u, HandleSlots, handleBits, "ready", "reserve", "ready")
    /\ UNCHANGED <<objectState, handleState, own, held, last, opens, creates>>

ReserveHandle(u) ==
    /\ Take(u, handleBits, "reserve", "ready", "refer")
    /\ UNCHANGED <<objectState, refs, locals>>

SetReferenceData(u) ==
    /\ StepTo(u, "refer", "link")
    /\ refs' = [refs EXCEPT ![index[u]] = own[u]]
    /\ UNCHANGED <<objectState, handleBits, locals>>

\* Under the spin lock of the object.
LinkReference(u) ==
    /\ StepTo(u, "link", "opened")
    /\ objects' = [objects EXCEPT ![own[u]].references = @ \cup {index[u]}]
    /\ held' = [held EXCEPT ![u] = index[u]]
    /\ opens' = [opens EXCEPT ![u] = @ + 1]
    /\ UNCHANGED <<objectBits, ends, handleState, index, own, last, creates>>

\* The EventHandler of the object refuses OBJECT_EVENT_OPEN: the reference is
\* given back as in closing.
RefuseOpen(u) ==
    /\ StepTo(u, "link", "zero")
    /\ held' = [held EXCEPT ![u] = index[u]]
    /\ UNCHANGED <<objectState, handleState, index, own, last, opens, creates>>

\* Under the spin lock of the object the handle refers to.
ObCloseHandle(u) ==
    LET o == refs[held[u]] left == objects[o].references \ {held[u]}
    IN  /\ StepTo(u, "opened", "zero")
        /\ left # {} \/ Permanent(o)
        /\ objects' = [objects EXCEPT ![o].references = left]
        /\ UNCHANGED <<objectBits, ends, handleState, locals>>

\* The last handle of an object that is not permanent: the object is freed, and
\* the handle after it.
CloseLastHandle(u) ==
    LET o == refs[held[u]]
    IN  /\ StepTo(u, "opened", "drop")
        /\ objects[o].references \subseteq {held[u]} /\ ~Permanent(o)
        /\ objects' = [objects EXCEPT ![o] = Zeroed]
        /\ UNCHANGED <<objectBits, ends, handleState, locals>>

DropObject(u) ==
    /\ StepTo(u, "drop", "wipe")
    /\ objectBits' = objectBits \ {own[u]}
    /\ own' = [own EXCEPT ![u] = 0]
    /\ UNCHANGED <<objects, ends, handleState, index, held, last, opens, creates>>

\* Mutant: the bit is reset first.
ResetFirst(u) ==
    /\ StepTo(u, "zero", "reset") \/ StepTo(u, "wipe", "unset")
    /\ handleBits' = handleBits \ {held[u]}
    /\ UNCHANGED <<objectState, refs, locals>>

ZeroReference(u) ==
    /\ StepTo(u, "zero", "reset") \/ StepTo(u, "wipe", "unset")
    /\ refs' = [refs EXCEPT ![held[u]] = 0]
    /\ UNCHANGED <<objectState, handleBits, locals>>

ResetHandleBit(u) ==
    /\ StepTo(u, "reset", "ready") \/ StepTo(u, "unset", "none")
    /\ handleBits' = handleBits \ {held[u]}
    /\ held' = [held EXCEPT ![u] = 0]
    /\ UNCHANGED <<objectState, refs, index, own, last, opens, creates>>

-------------------------------------------------------------------------------
(* ObDestroyObject without Force: an object in use stays.  The object is      *)
(* wiped, its chain pointer too; the chain is not told.                       *)

ObDestroyObject(u) ==
    /\ own[u] # 0
    /\ objects[own[u]].references = {}
    /\ StepTo(u, "ready", "free")
    /\ objects' = [objects EXCEPT ![own[u]] = Zeroed]
    /\ UNCHANGED <<objectBits, ends, handleState, locals>>

ObiFreeObject(u) ==
    /\ StepTo(u, "free", "none")
    /\ objectBits' = objectBits \ {own[u]}
    /\ own' = [own EXCEPT ![u] = 0]
    /\ UNCHANGED <<objects, ends, handleState, index, held, last, opens, creates>>

-------------------------------------------------------------------------------

ObjectsInit ==
    /\ objectBits = {Starts}
    /\ handleBits = {}
    /\ objects = [o \in ObjectSlots |-> IF o = Starts THEN Boot ELSE Zeroed]
    /\ refs = [h \in HandleSlots |-> 0]
    /\ ends = Starts
    /\ upc = [u \in Users |-> "none"]
    /\ index = [u \in Users |-> 0]
    /\ own = [u \in Users |-> 0]
    /\ held = [u \in Users |-> 0]
    /\ last = [u \in Users |-> 0]
    /\ opens = [u \in Users |-> 0]
    /\ creates = [u \in Users |-> 0]

ObjectsNext == \E u \in Users :
    \/ FindObject(u) \/ ObiAllocateObject(u) \/ SetObjectData(u) \/ OutOfMemory(u)
    \/ LinkAppend(u) \/ LinkEnd(u)
    \/ ObOpenHandle(u) \/ ReserveHandle(u) \/ SetReferenceData(u) \/ LinkReference(u)
    \/ RefuseOpen(u) \/ ObCloseHandle(u) \/ CloseLastHandle(u) \/ DropObject(u) \/ ZeroReference(u) \/ ResetHandleBit(u)
    \/ ObDestroyObject(u) \/ ObiFreeObject(u)

ObjectsSpec == ObjectsInit /\ [][ObjectsNext]_objectVars

-------------------------------------------------------------------------------
(* Properties.                                                                *)

\* An object belongs to its creator from the setting of its data until it is
\* destroyed, by that one or with its last handle, although others scan the
\* bitmap, create and free in between (ObiAllocateObject and ObiFreeObject, obutil.c:143-168).
ObjectsKept ==
    \A u \in Users : upc[u] \in {"append", "end", "ready", "reserve", "refer",
                                 "link", "opened", "zero", "reset"}
                        => objects[own[u]].by = u

\* An open handle refers to the object it was opened for and is the only one
\* its object lists, whatever handles others open and close meanwhile
\* (ObiCreateHandle, obutil.c:85-137, and ObCloseHandle, handle.c:77-106).
HandlesKept ==
    \A u \in Users : upc[u] = "opened" =>
        /\ refs[held[u]] = own[u]
        /\ objects[own[u]].references = {held[u]}
        /\ held[u] \in handleBits

\* "This uses a continuous chain" (object.c:150): every object of the type that
\* is there is found by following the chain from its start.
ChainContinuous ==
    LET reached[n \in Nat] ==
            IF n = 0 THEN {Starts}
            ELSE reached[n - 1] \cup {objects[o].next : o \in reached[n - 1] \ {0}}
    IN  \A u \in Users : upc[u] \in {"ready", "opened"}
                            => own[u] \in reached[Cardinality(ObjectSlots)]
===============================================================================
