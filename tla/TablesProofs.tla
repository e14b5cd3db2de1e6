------------------------------ MODULE TablesProofs ------------------------------
(* Three tables of the kernel that their users search and then change.  The    *)
(* objects and handles: users do not lose theirs to each other, for any       *)
(* number of users, objects and handles.  The interrupt vectors: handlers     *)
(* keep theirs and no empty descriptor is called, for any number of drivers,  *)
(* processors and vectors.  The page tables: one thread at a time changes     *)
(* them and maps what it has found, for any number of threads, size of the    *)
(* tables and calls.                                                          *)
EXTENDS Objects, InterruptVectors, Paging, WellFoundedInduction, TLAPS

-------------------------------------------------------------------------------
(* Objects and handles: the invariant.                                        *)

\* The steps at which a user has a slot: of an object the one it found, then its
\* own; of a handle the one it found, then the one it holds.
HasObject == {"append", "end", "ready", "reserve", "refer", "link", "opened", "zero", "reset",
              "free", "drop"}
HasHandle == {"refer", "link", "opened", "zero", "reset", "drop", "wipe", "unset"}
Steps == {"none", "allocate", "data"} \cup HasObject \cup HasHandle

ObjectOf(u) == IF upc[u] = "data" THEN index[u] ELSE own[u]
HandleOf(u) == IF upc[u] \in {"refer", "link"} THEN index[u] ELSE held[u]

ObjectTypes ==
    /\ objectBits \subseteq ObjectSlots /\ handleBits \subseteq HandleSlots
    /\ objects \in [ObjectSlots -> [by : Users \cup {"nobody", "boot"}, next : ObjectSlots \cup {0},
                                    references : SUBSET HandleSlots]]
    /\ refs \in [HandleSlots -> ObjectSlots \cup {0}]
    /\ ends \in ObjectSlots
    /\ upc \in [Users -> Steps]
    /\ index \in [Users -> ObjectSlots \cup HandleSlots \cup {0}]
    /\ own \in [Users -> ObjectSlots \cup {0}]
    /\ held \in [Users -> HandleSlots \cup {0}]
    /\ last \in [Users -> ObjectSlots \cup {0}]
    /\ \A u \in Users : /\ upc[u] \in {"allocate", "data"} => index[u] \in ObjectSlots
                        /\ upc[u] \in {"reserve", "refer", "link"} => index[u] \in HandleSlots
                        /\ upc[u] \in HasObject => own[u] \in ObjectSlots
                        /\ upc[u] = "append" => last[u] \in ObjectSlots
                        /\ upc[u] \in HasHandle \ {"refer", "link"} => held[u] \in HandleSlots

\* The bit of a slot that a user has is set, and nobody else has the slot.
ObjectsClaimed ==
    \A u \in Users : upc[u] \in HasObject \cup {"data"} =>
        /\ ObjectOf(u) \in objectBits
        /\ \A v \in Users : upc[v] \in HasObject \cup {"data"} /\ ObjectOf(v) = ObjectOf(u) => v = u

HandlesClaimed ==
    \A u \in Users : upc[u] \in HasHandle =>
        /\ HandleOf(u) \in handleBits
        /\ \A v \in Users : upc[v] \in HasHandle /\ HandleOf(v) = HandleOf(u) => v = u

\* From the setting of a handle until its wiping it refers to the object of its
\* user, and that object lists it while it is open; no object lists another one.
HandlesRefer ==
    /\ \A u \in Users : upc[u] \in {"link", "opened", "zero"} => refs[HandleOf(u)] = own[u]
    /\ \A u \in Users : upc[u] = "opened" => objects[own[u]].references = {held[u]}
    /\ \A o \in ObjectSlots : objects[o].references # {} =>
           \E u \in Users : upc[u] = "opened" /\ own[u] = o

ObjectsInv ==
    /\ ObjectTypes
    /\ ObjectsClaimed
    /\ HandlesClaimed
    /\ ObjectsKept
    /\ HandlesRefer

Below == {ss \in Nat \X Nat : ss[1] < ss[2]}

\* What a scan from the lowest bit finds is one of the bits, and the lowest.
LEMMA MinIn ==
  ASSUME NEW S \in SUBSET Nat, S # {}
  PROVE  Min(S) \in S /\ \A n \in S : Min(S) <= n
<1>1. IsWellFoundedOn(Below, Nat)
  BY NatLessThanWellFounded, Zenon DEF OpToRel, Below
<1>2. PICK c \in S : \A d \in S : ~(<<d, c>> \in Below)
  BY <1>1, WFMin
<1>3. \A n, m \in Nat : n < m => <<n, m>> \in Below
  BY DEF Below
<1>4. ASSUME NEW d \in S PROVE c <= d
  <2>1. c \in Nat /\ d \in Nat /\ ~(d < c)
    BY <1>2, <1>3
  <2>2. QED BY <2>1
<1>5. QED BY <1>4 DEF Min

\* Every step keeps the types.
LEMMA TypesNext ==
  ASSUME ObjectsInv, [ObjectsNext]_objectVars
  PROVE  ObjectTypes'
<1> USE ObjectsAssumption DEF ObjectTypes, Steps, HasObject, HasHandle, StepTo, objectState,
    handleState, locals
<1>0. ObjectTypes /\ HandlesRefer
  BY DEF ObjectsInv
<1> DEFINE Record == [by : Users \cup {"nobody", "boot"}, next : ObjectSlots \cup {0},
                      references : SUBSET HandleSlots]
<1>1. ASSUME NEW u \in Users, FindObject(u) PROVE ObjectTypes'
  <2>1. ObjectSlots \ objectBits \in SUBSET Nat
    OBVIOUS
  <2>2. ObjectSlots \ objectBits # {} => Min(ObjectSlots \ objectBits) \in ObjectSlots
    BY <2>1, MinIn
  <2>3. QED BY <1>0, <1>1, <2>2 DEF FindObject, Scan
<1>2. ASSUME NEW u \in Users, ObiAllocateObject(u) PROVE ObjectTypes'
  BY ZenonT(60), <1>0, <1>2 DEF ObiAllocateObject, Take
<1>3. ASSUME NEW u \in Users, SetObjectData(u) PROVE ObjectTypes'
  <2>1. PICK o \in ObjectSlots : o = index[u]
    BY <1>0, <1>3 DEF SetObjectData
  <2>2. objects' = [objects EXCEPT ![o] = [objects[o] EXCEPT !.by = u]]
    BY <1>3, <2>1 DEF SetObjectData
  <2>3. [objects[o] EXCEPT !.by = u] \in Record
    BY <1>0
  <2>4. objects' \in [ObjectSlots -> Record]
    BY <1>0, <2>2, <2>3
  <2>5. QED BY <1>0, <1>3, <2>1, <2>4 DEF SetObjectData
<1>4. ASSUME NEW u \in Users, LinkAppend(u) PROVE ObjectTypes'
  <2>1. PICK o \in ObjectSlots : o = last[u]
    BY <1>0, <1>4 DEF LinkAppend
  <2>2. objects' = [objects EXCEPT ![o] = [objects[o] EXCEPT !.next = own[u]]]
    BY <1>4, <2>1 DEF LinkAppend
  <2>3. [objects[o] EXCEPT !.next = own[u]] \in Record
    BY <1>0
  <2>4. objects' \in [ObjectSlots -> Record]
    BY <1>0, <2>2, <2>3
  <2>5. QED BY <1>0, <1>4, <2>4 DEF LinkAppend
<1>5. ASSUME NEW u \in Users, LinkEnd(u) PROVE ObjectTypes'
  BY <1>0, <1>5 DEF LinkEnd
<1>6. ASSUME NEW u \in Users, ObOpenHandle(u) PROVE ObjectTypes'
  <2>1. HandleSlots \ handleBits \in SUBSET Nat
    OBVIOUS
  <2>2. HandleSlots \ handleBits # {} => Min(HandleSlots \ handleBits) \in HandleSlots
    BY <2>1, MinIn
  <2>3. QED BY <1>0, <1>6, <2>2 DEF ObOpenHandle, Scan
<1>7. ASSUME NEW u \in Users, ReserveHandle(u) PROVE ObjectTypes'
  BY ZenonT(60), <1>0, <1>7 DEF ReserveHandle, Take
<1>8. ASSUME NEW u \in Users, SetReferenceData(u) PROVE ObjectTypes'
  BY <1>0, <1>8 DEF SetReferenceData
<1>9. ASSUME NEW u \in Users, LinkReference(u) PROVE ObjectTypes'
  <2>1. PICK o \in ObjectSlots, h \in HandleSlots : o = own[u] /\ h = index[u]
    BY <1>0, <1>9 DEF LinkReference
  <2>2. objects' = [objects EXCEPT ![o] = [objects[o] EXCEPT !.references = @ \cup {h}]]
    BY <1>9, <2>1 DEF LinkReference
  <2>3. [objects[o] EXCEPT !.references = @ \cup {h}] \in Record
    BY <1>0
  <2>4. objects' \in [ObjectSlots -> Record]
    BY <1>0, <2>2, <2>3
  <2>5. QED BY <1>0, <1>9, <2>1, <2>4 DEF LinkReference
<1>10. ASSUME NEW u \in Users, ObCloseHandle(u) PROVE ObjectTypes'
  <2>1. PICK o \in ObjectSlots, h \in HandleSlots : o = own[u] /\ o = refs[held[u]] /\ h = held[u]
    BY <1>0, <1>10 DEF ObCloseHandle, HandlesRefer, HandleOf
  <2>2. objects' = [objects EXCEPT ![o] = [objects[o] EXCEPT !.references = @ \ {h}]]
    BY <1>10, <2>1 DEF ObCloseHandle
  <2>3. [objects[o] EXCEPT !.references = @ \ {h}] \in Record
    BY <1>0
  <2>4. objects' \in [ObjectSlots -> Record]
    BY <1>0, <2>2, <2>3
  <2>5. QED BY <1>0, <1>10, <2>1, <2>4 DEF ObCloseHandle
<1>11. ASSUME NEW u \in Users, ZeroReference(u) PROVE ObjectTypes'
  BY <1>0, <1>11 DEF ZeroReference
<1>12. ASSUME NEW u \in Users, ResetHandleBit(u) PROVE ObjectTypes'
  BY ZenonT(60), <1>0, <1>12 DEF ResetHandleBit
<1>13. ASSUME NEW u \in Users, ObDestroyObject(u) PROVE ObjectTypes'
  <2>1. PICK o \in ObjectSlots : o = own[u]
    BY <1>0, <1>13 DEF ObDestroyObject
  <2>2. Zeroed \in Record
    BY DEF Zeroed
  <2>3. objects' \in [ObjectSlots -> Record]
    BY <1>0, <1>13, <2>1, <2>2 DEF ObDestroyObject
  <2>4. QED BY <1>0, <1>13, <2>1, <2>3 DEF ObDestroyObject
<1>14. ASSUME NEW u \in Users, ObiFreeObject(u) PROVE ObjectTypes'
  BY ZenonT(60), <1>0, <1>14 DEF ObiFreeObject
<1>15. ASSUME NEW u \in Users, OutOfMemory(u) PROVE ObjectTypes'
  <2>1. PICK o \in ObjectSlots : o = index[u]
    BY <1>0, <1>15 DEF OutOfMemory
  <2>2. Zeroed \in Record
    BY DEF Zeroed
  <2>3. objects' \in [ObjectSlots -> Record]
    BY <1>0, <1>15, <2>1, <2>2 DEF OutOfMemory
  <2>4. QED BY <1>0, <1>15, <2>1, <2>3 DEF OutOfMemory
<1>16. ASSUME NEW u \in Users, RefuseOpen(u) PROVE ObjectTypes'
  BY <1>0, <1>16 DEF RefuseOpen
<1>17. ASSUME NEW u \in Users, CloseLastHandle(u) PROVE ObjectTypes'
  <2>1. PICK o \in ObjectSlots : o = refs[held[u]]
    BY <1>0, <1>17 DEF CloseLastHandle, HandlesRefer, HandleOf
  <2>2. Zeroed \in Record
    BY DEF Zeroed
  <2>3. objects' \in [ObjectSlots -> Record]
    BY <1>0, <1>17, <2>1, <2>2 DEF CloseLastHandle
  <2>4. QED BY <1>0, <1>17, <2>3 DEF CloseLastHandle
<1>18. ASSUME NEW u \in Users, DropObject(u) PROVE ObjectTypes'
  BY ZenonT(60), <1>0, <1>18 DEF DropObject
<1>19. ASSUME UNCHANGED objectVars PROVE ObjectTypes'
  BY <1>0, <1>19 DEF objectVars
<1>20. QED
  BY <1>1, <1>2, <1>3, <1>4, <1>5, <1>6, <1>7, <1>8, <1>9, <1>10, <1>11, <1>12, <1>13, <1>14,
     <1>15, <1>16, <1>17, <1>18, <1>19 DEF ObjectsNext

-------------------------------------------------------------------------------
(* Slots.                                                                     *)

\* A user gets a slot of an object only when it was the one to set its bit.
LEMMA ObjectsClaimedNext ==
  ASSUME ObjectsInv, [ObjectsNext]_objectVars
  PROVE  ObjectsClaimed'
<1> DEFINE Has(u) == upc[u] \in HasObject \cup {"data"}
<1> USE DEF ObjectTypes, Steps, HasObject, HasHandle, StepTo, objectState, handleState, locals, ObjectOf
<1>0. ObjectTypes /\ ObjectsClaimed
  BY DEF ObjectsInv
<1>1. ASSUME NEW u \in Users, ObiAllocateObject(u) PROVE ObjectsClaimed'
  <2>1. /\ upc[u] = "allocate" /\ objectBits' = objectBits \cup {index[u]}
        /\ upc' = [upc EXCEPT ![u] = IF index[u] \in objectBits THEN "none" ELSE "data"]
        /\ UNCHANGED <<index, own>>
    BY <1>1 DEF ObiAllocateObject, Take
  <2>2. \A v \in Users : v # u => upc'[v] = upc[v] /\ ObjectOf(v)' = ObjectOf(v)
    BY <1>0, <2>1
  <2>3. CASE index[u] \in objectBits
    <3>1. ~Has(u)'
      BY <1>0, <2>1, <2>3
    <3>2. QED BY <1>0, <2>1, <2>2, <3>1 DEF ObjectsClaimed
  <2>4. CASE index[u] \notin objectBits
    <3>1. upc'[u] = "data" /\ ObjectOf(u)' = index[u]
      BY <1>0, <2>1, <2>4
    <3>2. \A v \in Users : v # u /\ Has(v)' => ObjectOf(v)' \in objectBits
      BY <1>0, <2>2 DEF ObjectsClaimed
    <3>3. QED BY <1>0, <2>1, <2>2, <2>4, <3>1, <3>2 DEF ObjectsClaimed
  <2>5. QED BY <2>3, <2>4
<1>2. ASSUME NEW u \in Users, ObiFreeObject(u) \/ DropObject(u) PROVE ObjectsClaimed'
  <2>1. /\ upc[u] \in {"free", "drop"} /\ objectBits' = objectBits \ {own[u]}
        /\ \E to \in {"none", "wipe"} : upc' = [upc EXCEPT ![u] = to]
        /\ own' = [own EXCEPT ![u] = 0] /\ UNCHANGED index
    BY <1>2 DEF ObiFreeObject, DropObject
  <2>2. \A v \in Users : v # u => upc'[v] = upc[v] /\ ObjectOf(v)' = ObjectOf(v)
    BY <1>0, <2>1
  <2>3. \A v \in Users : v # u /\ Has(v) => ObjectOf(v) # own[u]
    BY <1>0, <2>1 DEF ObjectsClaimed
  <2>4. ~Has(u)'
    BY <1>0, <2>1
  <2>5. QED BY <1>0, <2>1, <2>2, <2>3, <2>4 DEF ObjectsClaimed
<1>3. ASSUME NEW u \in Users,
             \/ FindObject(u) \/ SetObjectData(u) \/ OutOfMemory(u) \/ LinkAppend(u) \/ LinkEnd(u)
             \/ ObOpenHandle(u) \/ ReserveHandle(u) \/ SetReferenceData(u) \/ LinkReference(u)
             \/ RefuseOpen(u) \/ ObCloseHandle(u) \/ CloseLastHandle(u)
             \/ ZeroReference(u) \/ ResetHandleBit(u) \/ ObDestroyObject(u)
      PROVE  ObjectsClaimed'
  <2>1. objectBits' = objectBits
    BY <1>3 DEF FindObject, SetObjectData, OutOfMemory, LinkAppend, LinkEnd, ObOpenHandle,
          ReserveHandle, SetReferenceData, LinkReference, RefuseOpen, ObCloseHandle,
          CloseLastHandle, ZeroReference, ResetHandleBit, ObDestroyObject
  <2>2. ASSUME NEW v \in Users, v # u PROVE upc'[v] = upc[v] /\ index'[v] = index[v] /\ own'[v] = own[v]
    BY <1>0, <1>3, <2>2 DEF FindObject, Scan, Take, SetObjectData, OutOfMemory, LinkAppend, LinkEnd,
          ObOpenHandle, ReserveHandle, SetReferenceData, LinkReference, RefuseOpen, ObCloseHandle,
          CloseLastHandle, ZeroReference, ResetHandleBit, ObDestroyObject
  <2>3. (Has(u)' <=> Has(u)) /\ (Has(u) => ObjectOf(u)' = ObjectOf(u))
    <3>1. CASE FindObject(u)
      BY <1>0, <3>1 DEF FindObject, Scan
    <3>2. CASE SetObjectData(u) \/ OutOfMemory(u)
      BY <1>0, <3>2 DEF SetObjectData, OutOfMemory
    <3>3. CASE ObOpenHandle(u)
      BY <1>0, <3>3 DEF ObOpenHandle, Scan
    <3>4. CASE ReserveHandle(u)
      BY <1>0, <3>4 DEF ReserveHandle, Take
    <3>5. CASE \/ LinkAppend(u) \/ LinkEnd(u) \/ SetReferenceData(u) \/ LinkReference(u)
               \/ RefuseOpen(u) \/ ObCloseHandle(u) \/ CloseLastHandle(u)
               \/ ZeroReference(u) \/ ResetHandleBit(u) \/ ObDestroyObject(u)
      BY <1>0, <3>5 DEF LinkAppend, LinkEnd, SetReferenceData, LinkReference, RefuseOpen,
            ObCloseHandle, CloseLastHandle, ZeroReference, ResetHandleBit, ObDestroyObject
    <3>6. QED BY <1>3, <3>1, <3>2, <3>3, <3>4, <3>5
  <2>4. QED BY <1>0, <2>1, <2>2, <2>3 DEF ObjectsClaimed
<1>4. ASSUME UNCHANGED objectVars PROVE ObjectsClaimed'
  BY <1>0, <1>4 DEF objectVars, ObjectsClaimed
<1>5. QED BY <1>1, <1>2, <1>3, <1>4 DEF ObjectsNext
\* And a slot of a handle only when it was the one to set its bit.
LEMMA HandlesClaimedNext ==
  ASSUME ObjectsInv, [ObjectsNext]_objectVars
  PROVE  HandlesClaimed'
<1> DEFINE Has(u) == upc[u] \in HasHandle
<1> USE DEF ObjectTypes, Steps, HasObject, HasHandle, StepTo, objectState, handleState, locals, HandleOf
<1>0. ObjectTypes /\ HandlesClaimed
  BY DEF ObjectsInv
<1>1. ASSUME NEW u \in Users, ReserveHandle(u) PROVE HandlesClaimed'
  <2>1. /\ upc[u] = "reserve" /\ handleBits' = handleBits \cup {index[u]}
        /\ upc' = [upc EXCEPT ![u] = IF index[u] \in handleBits THEN "ready" ELSE "refer"]
        /\ UNCHANGED <<index, held>>
    BY <1>1 DEF ReserveHandle, Take
  <2>2. \A v \in Users : v # u => upc'[v] = upc[v] /\ HandleOf(v)' = HandleOf(v)
    BY <1>0, <2>1
  <2>3. CASE index[u] \in handleBits
    <3>1. ~Has(u)'
      BY <1>0, <2>1, <2>3
    <3>2. QED BY <1>0, <2>1, <2>2, <3>1 DEF HandlesClaimed
  <2>4. CASE index[u] \notin handleBits
    <3>1. upc'[u] = "refer" /\ HandleOf(u)' = index[u]
      BY <1>0, <2>1, <2>4
    <3>2. \A v \in Users : v # u /\ Has(v)' => HandleOf(v)' \in handleBits
      BY <1>0, <2>2 DEF HandlesClaimed
    <3>3. QED BY <1>0, <2>1, <2>2, <2>4, <3>1, <3>2 DEF HandlesClaimed
  <2>5. QED BY <2>3, <2>4
<1>2. ASSUME NEW u \in Users, ResetHandleBit(u) PROVE HandlesClaimed'
  <2>1. /\ upc[u] \in {"reset", "unset"} /\ handleBits' = handleBits \ {held[u]}
        /\ \E to \in {"ready", "none"} : upc' = [upc EXCEPT ![u] = to]
        /\ held' = [held EXCEPT ![u] = 0] /\ UNCHANGED index
    BY <1>2 DEF ResetHandleBit
  <2>2. \A v \in Users : v # u => upc'[v] = upc[v] /\ HandleOf(v)' = HandleOf(v)
    BY <1>0, <2>1
  <2>3. \A v \in Users : v # u /\ Has(v) => HandleOf(v) # held[u]
    BY <1>0, <2>1 DEF HandlesClaimed
  <2>4. ~Has(u)'
    BY <1>0, <2>1
  <2>5. QED BY <1>0, <2>1, <2>2, <2>3, <2>4 DEF HandlesClaimed
<1>3. ASSUME NEW u \in Users,
             \/ FindObject(u) \/ ObiAllocateObject(u) \/ SetObjectData(u) \/ OutOfMemory(u)
             \/ LinkAppend(u) \/ LinkEnd(u)
             \/ ObOpenHandle(u) \/ SetReferenceData(u) \/ LinkReference(u) \/ RefuseOpen(u)
             \/ ObCloseHandle(u) \/ CloseLastHandle(u) \/ DropObject(u) \/ ZeroReference(u)
             \/ ObDestroyObject(u) \/ ObiFreeObject(u)
      PROVE  HandlesClaimed'
  <2>1. handleBits' = handleBits
    BY <1>3 DEF FindObject, ObiAllocateObject, SetObjectData, OutOfMemory, LinkAppend, LinkEnd,
          ObOpenHandle, SetReferenceData, LinkReference, RefuseOpen, ObCloseHandle, CloseLastHandle,
          DropObject, ZeroReference, ObDestroyObject, ObiFreeObject
  <2>2. ASSUME NEW v \in Users, v # u
        PROVE  upc'[v] = upc[v] /\ index'[v] = index[v] /\ held'[v] = held[v]
    BY <1>0, <1>3, <2>2 DEF FindObject, Scan, Take, ObiAllocateObject, SetObjectData, OutOfMemory,
          LinkAppend, LinkEnd, ObOpenHandle, SetReferenceData, LinkReference, RefuseOpen,
          ObCloseHandle, CloseLastHandle, DropObject, ZeroReference, ObDestroyObject, ObiFreeObject
  <2>3. (Has(u)' <=> Has(u)) /\ (Has(u) => HandleOf(u)' = HandleOf(u))
    <3>1. CASE FindObject(u) \/ ObOpenHandle(u)
      BY <1>0, <3>1 DEF FindObject, ObOpenHandle, Scan
    <3>2. CASE ObiAllocateObject(u)
      BY <1>0, <3>2 DEF ObiAllocateObject, Take
    <3>3. CASE LinkReference(u) \/ RefuseOpen(u)
      BY <1>0, <3>3 DEF LinkReference, RefuseOpen
    <3>4. CASE \/ SetObjectData(u) \/ OutOfMemory(u) \/ LinkAppend(u) \/ LinkEnd(u) \/ SetReferenceData(u)
               \/ ObCloseHandle(u) \/ CloseLastHandle(u) \/ DropObject(u) \/ ZeroReference(u)
               \/ ObDestroyObject(u) \/ ObiFreeObject(u)
      BY <1>0, <3>4 DEF SetObjectData, OutOfMemory, LinkAppend, LinkEnd, SetReferenceData,
            ObCloseHandle, CloseLastHandle, DropObject, ZeroReference, ObDestroyObject, ObiFreeObject
    <3>5. QED BY <1>3, <3>1, <3>2, <3>3, <3>4
  <2>4. QED BY <1>0, <2>1, <2>2, <2>3 DEF HandlesClaimed
<1>4. ASSUME UNCHANGED objectVars PROVE HandlesClaimed'
  BY <1>0, <1>4 DEF objectVars, HandlesClaimed
<1>5. QED BY <1>1, <1>2, <1>3, <1>4 DEF ObjectsNext

-------------------------------------------------------------------------------
(* What the slots hold.                                                       *)

\* The steps of ObjectsKept: the user's object is there.
Kept == {"append", "end", "ready", "reserve", "refer", "link", "opened", "zero", "reset"}

\* A step writes the data of an object only if it is the user's own; the chain
\* pointer of any other leaves these alone.
LEMMA ObjectsWritten ==
  ASSUME ObjectsInv, [ObjectsNext]_objectVars, NEW o \in ObjectSlots,
         objects'[o].by # objects[o].by \/ objects'[o].references # objects[o].references
  PROVE  \E u \in Users : /\ o = ObjectOf(u)
                          /\ \/ SetObjectData(u) \/ OutOfMemory(u) \/ LinkReference(u)
                             \/ ObCloseHandle(u) \/ CloseLastHandle(u) \/ ObDestroyObject(u)
<1> USE DEF ObjectTypes, Steps, HasObject, HasHandle, StepTo, objectState, handleState, locals, ObjectOf
<1>0. ObjectTypes /\ HandlesRefer
  BY DEF ObjectsInv
<1>1. ASSUME NEW u \in Users, SetObjectData(u) PROVE o = ObjectOf(u)
  BY <1>0, <1>1 DEF SetObjectData
<1>2. ASSUME NEW u \in Users, LinkReference(u) PROVE o = ObjectOf(u)
  BY <1>0, <1>2 DEF LinkReference
<1>3. ASSUME NEW u \in Users, ObCloseHandle(u) PROVE o = ObjectOf(u)
  BY <1>0, <1>3 DEF ObCloseHandle, HandlesRefer, HandleOf
<1>4. ASSUME NEW u \in Users, ObDestroyObject(u) PROVE o = ObjectOf(u)
  BY <1>0, <1>4 DEF ObDestroyObject
<1>5. ASSUME NEW u \in Users, LinkAppend(u) PROVE FALSE
  <2>1. PICK p \in ObjectSlots : p = last[u]
    BY <1>0, <1>5 DEF LinkAppend
  <2>2. objects' = [objects EXCEPT ![p] = [objects[p] EXCEPT !.next = own[u]]]
    BY <1>5, <2>1 DEF LinkAppend
  <2>3. QED BY <1>0, <2>2
<1>6. ASSUME NEW u \in Users,
             \/ FindObject(u) \/ ObiAllocateObject(u) \/ LinkEnd(u) \/ ObOpenHandle(u)
             \/ ReserveHandle(u) \/ SetReferenceData(u) \/ RefuseOpen(u) \/ DropObject(u)
             \/ ZeroReference(u) \/ ResetHandleBit(u) \/ ObiFreeObject(u)
      PROVE  FALSE
  BY <1>6 DEF FindObject, ObiAllocateObject, LinkEnd, ObOpenHandle, ReserveHandle,
        SetReferenceData, RefuseOpen, DropObject, ZeroReference, ResetHandleBit, ObiFreeObject
<1>7. objectVars' # objectVars
  BY DEF objectVars
<1>8. ASSUME NEW u \in Users, OutOfMemory(u) PROVE o = ObjectOf(u)
  BY <1>0, <1>8 DEF OutOfMemory
<1>9. ASSUME NEW u \in Users, CloseLastHandle(u) PROVE o = ObjectOf(u)
  BY <1>0, <1>9 DEF CloseLastHandle, HandlesRefer, HandleOf
<1>10. QED BY <1>1, <1>2, <1>3, <1>4, <1>5, <1>6, <1>7, <1>8, <1>9 DEF ObjectsNext

\* How a user gets to the steps at which its object is there, and keeps it.
LEMMA StepsOfOwner ==
  ASSUME ObjectsInv, [ObjectsNext]_objectVars, NEW u \in Users, upc'[u] \in Kept, ~SetObjectData(u)
  PROVE  /\ upc[u] \in Kept /\ own'[u] = own[u]
         /\ ~OutOfMemory(u) /\ ~CloseLastHandle(u) /\ ~ObDestroyObject(u)
<1> DEFINE Stays == upc[u] \in Kept /\ own'[u] = own[u]
<1> USE DEF ObjectTypes, Steps, HasObject, HasHandle, Kept, StepTo, objectState, handleState, locals
<1>0. ObjectTypes
  BY DEF ObjectsInv
<1>1. ASSUME NEW v \in Users, v # u,
             \/ FindObject(v) \/ ObiAllocateObject(v) \/ SetObjectData(v) \/ OutOfMemory(v)
             \/ LinkAppend(v) \/ LinkEnd(v)
             \/ ObOpenHandle(v) \/ ReserveHandle(v) \/ SetReferenceData(v) \/ LinkReference(v)
             \/ RefuseOpen(v) \/ ObCloseHandle(v) \/ CloseLastHandle(v) \/ DropObject(v)
             \/ ZeroReference(v) \/ ResetHandleBit(v) \/ ObDestroyObject(v) \/ ObiFreeObject(v)
      PROVE  upc'[u] = upc[u] /\ own'[u] = own[u]
  BY <1>0, <1>1 DEF FindObject, Scan, Take, ObiAllocateObject, SetObjectData, OutOfMemory, LinkAppend,
        LinkEnd, ObOpenHandle, ReserveHandle, SetReferenceData, LinkReference, RefuseOpen,
        ObCloseHandle, CloseLastHandle, DropObject, ZeroReference, ResetHandleBit, ObDestroyObject,
        ObiFreeObject
<1>2. ASSUME FindObject(u) \/ ObOpenHandle(u) PROVE Stays
  BY <1>0, <1>2 DEF FindObject, ObOpenHandle, Scan
<1>3. ASSUME ObiAllocateObject(u) \/ ReserveHandle(u) PROVE Stays
  BY <1>0, <1>3 DEF ObiAllocateObject, ReserveHandle, Take
<1>4. ASSUME \/ LinkAppend(u) \/ LinkEnd(u) \/ SetReferenceData(u) \/ LinkReference(u)
             \/ RefuseOpen(u) \/ ObCloseHandle(u) \/ ZeroReference(u) \/ ResetHandleBit(u)
      PROVE  Stays
  BY <1>0, <1>4 DEF LinkAppend, LinkEnd, SetReferenceData, LinkReference, RefuseOpen, ObCloseHandle,
        ZeroReference, ResetHandleBit
<1>5. ~ObDestroyObject(u) /\ ~ObiFreeObject(u)
  BY <1>0 DEF ObDestroyObject, ObiFreeObject
<1>6. ~OutOfMemory(u) /\ ~CloseLastHandle(u) /\ ~DropObject(u)
  BY <1>0 DEF OutOfMemory, CloseLastHandle, DropObject
<1>7. ASSUME UNCHANGED objectVars PROVE Stays
  BY <1>0, <1>7 DEF objectVars
<1>8. Stays
  BY <1>1, <1>2, <1>3, <1>4, <1>5, <1>6, <1>7 DEF ObjectsNext
<1>9. QED BY <1>5, <1>6, <1>8

\* Nobody else writes the creator of an object that a user has.
LEMMA KeptNext ==
  ASSUME ObjectsInv, [ObjectsNext]_objectVars
  PROVE  ObjectsKept'
<1> USE DEF ObjectTypes, Steps, HasObject, Kept, StepTo
<1>0. ObjectTypes /\ ObjectsClaimed /\ ObjectsKept
  BY DEF ObjectsInv
<1> SUFFICES ASSUME NEW u \in Users, upc'[u] \in Kept PROVE objects'[own'[u]].by = u
  BY DEF ObjectsKept
<1>1. CASE SetObjectData(u)
  <2>1. PICK o \in ObjectSlots : o = index[u]
    BY <1>0, <1>1 DEF SetObjectData
  <2>2. own'[u] = o /\ objects' = [objects EXCEPT ![o] = [objects[o] EXCEPT !.by = u]]
    BY <1>0, <1>1, <2>1 DEF SetObjectData
  <2>3. QED BY <1>0, <2>2
<1>2. CASE ~SetObjectData(u)
  <2>1. /\ upc[u] \in Kept /\ own'[u] = own[u] /\ own[u] \in ObjectSlots
        /\ ~OutOfMemory(u) /\ ~CloseLastHandle(u) /\ ~ObDestroyObject(u)
    BY <1>0, <1>2, StepsOfOwner
  <2>2. objects[own[u]].by = u
    BY <1>0, <2>1 DEF ObjectsKept
  <2>3. ASSUME objects'[own[u]].by # objects[own[u]].by PROVE FALSE
    <3>1. PICK v \in Users :
            /\ own[u] = ObjectOf(v)
            /\ \/ SetObjectData(v) \/ OutOfMemory(v) \/ LinkReference(v)
               \/ ObCloseHandle(v) \/ CloseLastHandle(v) \/ ObDestroyObject(v)
      BY <2>1, <2>3, ObjectsWritten
    <3>2. upc[v] \in HasObject \cup {"data"}
      BY <3>1 DEF SetObjectData, OutOfMemory, LinkReference, ObCloseHandle, CloseLastHandle,
            ObDestroyObject
    <3>3. v = u
      BY <1>0, <2>1, <3>1, <3>2 DEF ObjectsClaimed, ObjectOf
    <3>4. LinkReference(u) \/ ObCloseHandle(u)
      BY <1>2, <2>1, <3>1, <3>3
    <3>5. CASE LinkReference(u)
      <4>1. objects' = [objects EXCEPT ![own[u]] = [objects[own[u]] EXCEPT !.references = @ \cup {index[u]}]]
        BY <3>5 DEF LinkReference
      <4>2. QED BY <1>0, <2>1, <2>3, <4>1
    <3>6. CASE ObCloseHandle(u)
      <4>1. refs[held[u]] = own[u]
        BY <3>6 DEF ObCloseHandle, ObjectsInv, HandlesRefer, HandleOf
      <4>2. objects' = [objects EXCEPT ![own[u]] = [objects[own[u]] EXCEPT !.references = @ \ {held[u]}]]
        BY <3>6, <4>1 DEF ObCloseHandle
      <4>3. QED BY <1>0, <2>1, <2>3, <4>2
    <3>7. QED BY <3>4, <3>5, <3>6
  <2>4. QED BY <2>1, <2>2, <2>3
<1>3. QED BY <1>1, <1>2
\* A handle is written by the user that has its slot, an object's list of
\* references by the user that has the object.
LEMMA ReferNext ==
  ASSUME ObjectsInv, [ObjectsNext]_objectVars
  PROVE  HandlesRefer'
<1> DEFINE Refers(u) == upc[u] \in {"link", "opened", "zero"} => refs[HandleOf(u)] = own[u]
           Lists(u) == upc[u] = "opened" => objects[own[u]].references = {held[u]}
           Listed(o) == objects[o].references # {} => \E u \in Users : upc[u] = "opened" /\ own[u] = o
<1> USE DEF ObjectTypes, Steps, HasObject, HasHandle, StepTo, objectState, handleState, locals, HandleOf
<1>0. /\ ObjectTypes /\ ObjectsClaimed /\ HandlesClaimed
      /\ \A u \in Users : Refers(u) /\ Lists(u)
      /\ \A o \in ObjectSlots : Listed(o)
  BY DEF ObjectsInv, HandlesRefer
<1>1. ASSUME NEW u \in Users, SetReferenceData(u) PROVE HandlesRefer'
  <2>1. PICK h \in HandleSlots : h = index[u]
    BY <1>0, <1>1 DEF SetReferenceData
  <2>2. /\ refs' = [refs EXCEPT ![h] = own[u]] /\ upc[u] = "refer"
        /\ upc' = [upc EXCEPT ![u] = "link"] /\ UNCHANGED <<objects, index, own, held>>
    BY <1>1, <2>1 DEF SetReferenceData
  <2>3. \A v \in Users : v # u /\ upc[v] \in HasHandle => HandleOf(v) # h
    BY <1>0, <2>1, <2>2 DEF HandlesClaimed
  <2>4. ASSUME NEW v \in Users PROVE Refers(v)' /\ Lists(v)'
    BY <1>0, <2>1, <2>2, <2>3
  <2>5. ASSUME NEW o \in ObjectSlots PROVE Listed(o)'
    BY <1>0, <2>2
  <2>6. QED BY <2>4, <2>5 DEF HandlesRefer
<1>2. ASSUME NEW u \in Users, LinkReference(u) PROVE HandlesRefer'
  <2>1. PICK o \in ObjectSlots, h \in HandleSlots : o = own[u] /\ h = index[u]
    BY <1>0, <1>2 DEF LinkReference
  <2>2. /\ objects' = [objects EXCEPT ![o] = [objects[o] EXCEPT !.references = @ \cup {h}]]
        /\ held' = [held EXCEPT ![u] = h] /\ upc[u] = "link"
        /\ upc' = [upc EXCEPT ![u] = "opened"] /\ UNCHANGED <<refs, index, own>>
    BY <1>2, <2>1 DEF LinkReference
  <2>3. \A v \in Users : v # u /\ upc[v] \in HasObject => own[v] # o
    BY <1>0, <2>1, <2>2 DEF ObjectsClaimed, ObjectOf
  <2>4. objects[o].references = {}
    BY <1>0, <2>2, <2>3
  <2>5. objects'[o].references = {h} /\ \A p \in ObjectSlots : p # o => objects'[p] = objects[p]
    BY <1>0, <2>2, <2>4
  <2>6. ASSUME NEW v \in Users PROVE Refers(v)' /\ Lists(v)'
    <3>1. CASE v = u
      BY <1>0, <2>1, <2>2, <2>5, <3>1
    <3>2. CASE v # u
      BY <1>0, <2>2, <2>3, <2>5, <3>2
    <3>3. QED BY <3>1, <3>2
  <2>7. ASSUME NEW p \in ObjectSlots PROVE Listed(p)'
    BY <1>0, <2>1, <2>2, <2>5
  <2>8. QED BY <2>6, <2>7 DEF HandlesRefer
<1>3. ASSUME NEW u \in Users, ObCloseHandle(u) PROVE HandlesRefer'
  <2>1. PICK o \in ObjectSlots, h \in HandleSlots : o = own[u] /\ h = held[u] /\ refs[h] = o
    BY <1>0, <1>3 DEF ObCloseHandle
  <2>2. /\ objects' = [objects EXCEPT ![o] = [objects[o] EXCEPT !.references = @ \ {h}]]
        /\ upc[u] = "opened" /\ upc' = [upc EXCEPT ![u] = "zero"]
        /\ UNCHANGED <<refs, index, own, held>>
    BY <1>3, <2>1 DEF ObCloseHandle
  <2>3. \A v \in Users : v # u /\ upc[v] \in HasObject => own[v] # o
    BY <1>0, <2>1, <2>2 DEF ObjectsClaimed, ObjectOf
  <2>4. objects[o].references = {h}
    BY <1>0, <2>1, <2>2
  <2>5. objects'[o].references = {} /\ \A p \in ObjectSlots : p # o => objects'[p] = objects[p]
    BY <1>0, <2>2, <2>4
  <2>6. ASSUME NEW v \in Users PROVE Refers(v)' /\ Lists(v)'
    <3>1. CASE v = u
      BY <1>0, <2>1, <2>2, <3>1
    <3>2. CASE v # u
      BY <1>0, <2>2, <2>3, <2>5, <3>2
    <3>3. QED BY <3>1, <3>2
  <2>7. ASSUME NEW p \in ObjectSlots PROVE Listed(p)'
    <3>1. CASE p = o
      BY <2>5, <3>1
    <3>2. CASE p # o
      BY <1>0, <2>1, <2>2, <2>5, <3>2
    <3>3. QED BY <3>1, <3>2
  <2>8. QED BY <2>6, <2>7 DEF HandlesRefer
<1>4. ASSUME NEW u \in Users, ZeroReference(u) PROVE HandlesRefer'
  <2>1. PICK h \in HandleSlots : h = held[u]
    BY <1>0, <1>4 DEF ZeroReference
  <2>2. /\ refs' = [refs EXCEPT ![h] = 0] /\ upc[u] \in {"zero", "wipe"}
        /\ \E to \in {"reset", "unset"} : upc' = [upc EXCEPT ![u] = to]
        /\ UNCHANGED <<objects, index, own, held>>
    BY <1>4, <2>1 DEF ZeroReference
  <2>3. \A v \in Users : v # u /\ upc[v] \in HasHandle => HandleOf(v) # h
    BY <1>0, <2>1, <2>2 DEF HandlesClaimed
  <2>4. ASSUME NEW v \in Users PROVE Refers(v)' /\ Lists(v)'
    BY <1>0, <2>1, <2>2, <2>3
  <2>5. ASSUME NEW o \in ObjectSlots PROVE Listed(o)'
    BY <1>0, <2>2
  <2>6. QED BY <2>4, <2>5 DEF HandlesRefer
<1>5. ASSUME NEW u \in Users, SetObjectData(u) PROVE HandlesRefer'
  <2>1. PICK o \in ObjectSlots : o = index[u]
    BY <1>0, <1>5 DEF SetObjectData
  <2>2. /\ objects' = [objects EXCEPT ![o] = [objects[o] EXCEPT !.by = u]] /\ upc[u] = "data"
        /\ upc' = [upc EXCEPT ![u] = "append"] /\ own' = [own EXCEPT ![u] = o]
        /\ UNCHANGED <<refs, index, held>>
    BY <1>5, <2>1 DEF SetObjectData
  <2>3. \A p \in ObjectSlots : objects'[p].references = objects[p].references
    BY <1>0, <2>2
  <2>4. ASSUME NEW v \in Users PROVE Refers(v)' /\ Lists(v)'
    BY <1>0, <2>2, <2>3
  <2>5. ASSUME NEW p \in ObjectSlots PROVE Listed(p)'
    BY <1>0, <2>2, <2>3
  <2>6. QED BY <2>4, <2>5 DEF HandlesRefer
<1>6. ASSUME NEW u \in Users, ObDestroyObject(u) PROVE HandlesRefer'
  <2>1. PICK o \in ObjectSlots : o = own[u]
    BY <1>0, <1>6 DEF ObDestroyObject
  <2>2. /\ objects' = [objects EXCEPT ![o] = Zeroed] /\ upc[u] = "ready"
        /\ objects[o].references = {}
        /\ upc' = [upc EXCEPT ![u] = "free"] /\ UNCHANGED <<refs, index, own, held>>
    BY <1>6, <2>1 DEF ObDestroyObject
  <2>3. \A p \in ObjectSlots : objects'[p].references = objects[p].references
    BY <1>0, <2>2 DEF Zeroed
  <2>4. ASSUME NEW v \in Users PROVE Refers(v)' /\ Lists(v)'
    BY <1>0, <2>2, <2>3
  <2>5. ASSUME NEW p \in ObjectSlots PROVE Listed(p)'
    BY <1>0, <2>2, <2>3
  <2>6. QED BY <2>4, <2>5 DEF HandlesRefer
<1>7. ASSUME NEW u \in Users,
             \/ FindObject(u) \/ ObiAllocateObject(u) \/ LinkAppend(u) \/ LinkEnd(u)
             \/ ObOpenHandle(u) \/ ReserveHandle(u) \/ DropObject(u) \/ ResetHandleBit(u) \/ ObiFreeObject(u)
      PROVE  HandlesRefer'
  <2>1. \A p \in ObjectSlots : objects'[p].references = objects[p].references
    <3>1. CASE LinkAppend(u)
      <4>1. PICK p \in ObjectSlots : p = last[u]
        BY <1>0, <3>1 DEF LinkAppend
      <4>2. objects' = [objects EXCEPT ![p] = [objects[p] EXCEPT !.next = own[u]]]
        BY <3>1, <4>1 DEF LinkAppend
      <4>3. QED BY <1>0, <4>2
    <3>2. CASE ~LinkAppend(u)
      BY <1>7, <3>2 DEF FindObject, ObiAllocateObject, LinkEnd, ObOpenHandle, ReserveHandle,
            DropObject, ResetHandleBit, ObiFreeObject
    <3>3. QED BY <3>1, <3>2
  <2>2. /\ upc[u] \notin {"link", "opened", "zero"} /\ upc'[u] \notin {"link", "opened", "zero"}
        /\ refs' = refs
    <3>1. CASE FindObject(u) \/ ObOpenHandle(u)
      BY <1>0, <3>1 DEF FindObject, ObOpenHandle, Scan
    <3>2. CASE ObiAllocateObject(u) \/ ReserveHandle(u)
      BY <1>0, <3>2 DEF ObiAllocateObject, ReserveHandle, Take
    <3>3. CASE LinkAppend(u) \/ LinkEnd(u) \/ DropObject(u) \/ ResetHandleBit(u) \/ ObiFreeObject(u)
      BY <1>0, <3>3 DEF LinkAppend, LinkEnd, DropObject, ResetHandleBit, ObiFreeObject
    <3>4. QED BY <1>7, <3>1, <3>2, <3>3
  <2>3. ASSUME NEW v \in Users, v # u
        PROVE  upc'[v] = upc[v] /\ own'[v] = own[v] /\ index'[v] = index[v] /\ held'[v] = held[v]
    BY <1>0, <1>7, <2>3 DEF FindObject, Scan, Take, ObiAllocateObject, LinkAppend, LinkEnd,
          ObOpenHandle, ReserveHandle, DropObject, ResetHandleBit, ObiFreeObject
  <2>4. ASSUME NEW v \in Users PROVE Refers(v)' /\ Lists(v)'
    <3>1. CASE v = u
      BY <2>2, <3>1
    <3>2. CASE v # u
      <4>1. upc[v] = "opened" => own[v] \in ObjectSlots
        BY <1>0
      <4>2. QED BY <1>0, <2>1, <2>2, <2>3, <3>2, <4>1
    <3>3. QED BY <3>1, <3>2
  <2>5. ASSUME NEW p \in ObjectSlots PROVE Listed(p)'
    BY <1>0, <2>1, <2>2, <2>3
  <2>6. QED BY <2>4, <2>5 DEF HandlesRefer
<1>8. ASSUME UNCHANGED objectVars PROVE HandlesRefer'
  BY <1>0, <1>8 DEF objectVars, HandlesRefer
<1>9. ASSUME NEW u \in Users, OutOfMemory(u) PROVE HandlesRefer'
  <2>1. PICK o \in ObjectSlots : o = index[u]
    BY <1>0, <1>9 DEF OutOfMemory
  <2>2. /\ objects' = [objects EXCEPT ![o] = Zeroed] /\ upc[u] = "data"
        /\ upc' = [upc EXCEPT ![u] = "free"] /\ own' = [own EXCEPT ![u] = o]
        /\ UNCHANGED <<refs, index, held>>
    BY <1>9, <2>1 DEF OutOfMemory
  <2>3. \A v \in Users : upc[v] = "opened" => own[v] # o
    BY <1>0, <2>1, <2>2 DEF ObjectsClaimed, ObjectOf
  <2>4. \A p \in ObjectSlots : objects'[p].references = objects[p].references
    BY <1>0, <2>2, <2>3 DEF Zeroed
  <2>5. ASSUME NEW v \in Users PROVE Refers(v)' /\ Lists(v)'
    BY <1>0, <2>2, <2>4
  <2>6. ASSUME NEW p \in ObjectSlots PROVE Listed(p)'
    BY <1>0, <2>2, <2>4
  <2>7. QED BY <2>5, <2>6 DEF HandlesRefer
<1>10. ASSUME NEW u \in Users, RefuseOpen(u) PROVE HandlesRefer'
  <2>1. /\ held' = [held EXCEPT ![u] = index[u]] /\ upc[u] = "link"
        /\ upc' = [upc EXCEPT ![u] = "zero"] /\ UNCHANGED <<objects, refs, index, own>>
    BY <1>10 DEF RefuseOpen
  <2>2. ASSUME NEW v \in Users PROVE Refers(v)' /\ Lists(v)'
    BY <1>0, <2>1
  <2>3. ASSUME NEW p \in ObjectSlots PROVE Listed(p)'
    BY <1>0, <2>1
  <2>4. QED BY <2>2, <2>3 DEF HandlesRefer
<1>11. ASSUME NEW u \in Users, CloseLastHandle(u) PROVE HandlesRefer'
  <2>1. PICK o \in ObjectSlots : o = own[u] /\ refs[held[u]] = o
    BY <1>0, <1>11 DEF CloseLastHandle
  <2>2. /\ objects' = [objects EXCEPT ![o] = Zeroed]
        /\ upc[u] = "opened" /\ upc' = [upc EXCEPT ![u] = "drop"]
        /\ UNCHANGED <<refs, index, own, held>>
    BY <1>11, <2>1 DEF CloseLastHandle
  <2>3. \A v \in Users : v # u /\ upc[v] \in HasObject => own[v] # o
    BY <1>0, <2>1, <2>2 DEF ObjectsClaimed, ObjectOf
  <2>4. objects'[o].references = {} /\ \A p \in ObjectSlots : p # o => objects'[p] = objects[p]
    BY <1>0, <2>2 DEF Zeroed
  <2>5. ASSUME NEW v \in Users PROVE Refers(v)' /\ Lists(v)'
    <3>1. CASE v = u
      BY <1>0, <2>2, <3>1
    <3>2. CASE v # u
      BY <1>0, <2>2, <2>3, <2>4, <3>2
    <3>3. QED BY <3>1, <3>2
  <2>6. ASSUME NEW p \in ObjectSlots PROVE Listed(p)'
    <3>1. CASE p = o
      BY <2>4, <3>1
    <3>2. CASE p # o
      BY <1>0, <2>1, <2>2, <2>4, <3>2
    <3>3. QED BY <3>1, <3>2
  <2>7. QED BY <2>5, <2>6 DEF HandlesRefer
<1>12. QED
  BY <1>1, <1>2, <1>3, <1>4, <1>5, <1>6, <1>7, <1>8, <1>9, <1>10, <1>11 DEF ObjectsNext

\* At first there is the object made at boot, and nobody has any other.
LEMMA ObjectsInvInit ==
  ASSUME ObjectsInit
  PROVE  ObjectsInv
<1> USE ObjectsAssumption DEF ObjectsInit, Boot, Zeroed
<1>1. ObjectTypes
  BY DEF ObjectTypes, Steps, HasObject, HasHandle
<1>2. ObjectsClaimed /\ HandlesClaimed
  BY DEF ObjectsClaimed, HandlesClaimed, HasObject, HasHandle
<1>3. ObjectsKept
  BY DEF ObjectsKept
<1>4. HandlesRefer
  BY DEF HandlesRefer
<1>5. QED BY <1>1, <1>2, <1>3, <1>4 DEF ObjectsInv

-------------------------------------------------------------------------------

\* Slots have one user, who finds in them what it has put there.
THEOREM ObjectsInvariant == ObjectsSpec => []ObjectsInv
<1>1. ObjectsInit => ObjectsInv
  BY ObjectsInvInit
<1>2. ObjectsInv /\ [ObjectsNext]_objectVars => ObjectsInv'
  BY TypesNext, ObjectsClaimedNext, HandlesClaimedNext, KeptNext, ReferNext DEF ObjectsInv
<1>3. QED BY <1>1, <1>2, PTL DEF ObjectsSpec

\* An object stays its creator's until that one destroys it or closes its last
\* handle.
THEOREM ObjectsStayKept == ObjectsSpec => []ObjectsKept
BY ObjectsInvariant, PTL DEF ObjectsInv

\* An open handle refers to the object it was opened for, which lists no other,
\* and its slot is taken.
THEOREM HandlesStayKept == ObjectsSpec => []HandlesKept
<1>1. ObjectsInv => HandlesKept
  BY DEF ObjectsInv, HandlesClaimed, HasHandle, HandlesRefer, HandleOf, HandlesKept
<1>2. QED BY <1>1, ObjectsInvariant, PTL

-------------------------------------------------------------------------------
(* Interrupt vectors: the invariant.                                          *)

DriverPcs == {"start", "look", "lock", "again", "describe", "present", "gate",
              "installed", "exception"}

VectorTypes ==
    /\ selector \in Nat
    /\ present \in [Cpus \X Vectors -> BOOLEAN]
    /\ descriptor \in [Cpus \X Vectors -> Drivers \cup {NoHandler}]
    /\ vectorLock \in [Cpus \X Vectors -> Drivers \cup {NoHandler}]
    /\ idt \in [Cpus \X Vectors -> BOOLEAN]
    /\ driverPc \in [Drivers -> DriverPcs]
    /\ cpu \in [Drivers -> Cpus]
    /\ scan \in [Drivers -> Vectors]
    /\ cpuPc \in [Cpus -> {"running", "interrupt", "call", "handler"}]
    /\ number \in [Cpus -> Vectors]
    /\ calling \in [Cpus -> Drivers \cup {NoHandler}]

\* Who works on a vector holds its lock.
WorkersHoldLock ==
    \A d \in Drivers : driverPc[d] \in {"again", "describe", "present", "gate"}
                          => vectorLock[Slot(d)] = d

\* The vector is free until the worker says that it is present: the second look
\* is under the lock, thus nobody else has made it present since.
FreeUntilPresent ==
    \A d \in Drivers : driverPc[d] \in {"describe", "present"} => ~present[Slot(d)]

\* From then on it has the worker's handler in it.
DescribedKept ==
    \A d \in Drivers :
        /\ driverPc[d] \in {"present", "gate"} => descriptor[Slot(d)] = d
        /\ driverPc[d] = "gate" => present[Slot(d)]

PresentAreDescribed ==
    \A s \in Cpus \X Vectors : present[s] => descriptor[s] # NoHandler

\* An interrupt that is going to call has found its vector present.
CallsArePresent ==
    \A p \in Cpus : cpuPc[p] = "call" => present[<<BootProcessor, number[p]>>]

VectorsInv ==
    /\ VectorTypes
    /\ WorkersHoldLock
    /\ FreeUntilPresent
    /\ DescribedKept
    /\ HandlersKept
    /\ PresentAreDescribed
    /\ CallsArePresent
    /\ NoNullHandler
-------------------------------------------------------------------------------
(* Facts about the constants.                                                 *)

\* There is a boot processor and a vector 0, and NULL is no handler.
LEMMA ConstantFacts ==
    /\ BootProcessor \in Cpus
    /\ 0 \in Vectors
    /\ \A n \in Nat : n % NumProcessors \in Cpus
    /\ \A d \in Drivers : d # NoHandler
  BY VectorsAssumption DEF BootProcessor, Cpus, Vectors

\* A driver looks at one vector of one processor.
LEMMA SlotType ==
    ASSUME VectorTypes, NEW d \in Drivers
    PROVE  Slot(d) \in Cpus \X Vectors
  BY DEF VectorTypes, Slot

-------------------------------------------------------------------------------
(* The initial states.                                                        *)

\* With empty tables and no installation begun the invariant holds.
LEMMA VectorsInitInv == VectorsInit => VectorsInv
<1> SUFFICES ASSUME VectorsInit PROVE VectorsInv
    OBVIOUS
<1>1. VectorTypes
    BY ConstantFacts DEF VectorsInit, VectorTypes, DriverPcs
<1>2. WorkersHoldLock /\ FreeUntilPresent /\ DescribedKept /\ HandlersKept
    BY DEF VectorsInit, WorkersHoldLock, FreeUntilPresent, DescribedKept, HandlersKept
<1>3. PresentAreDescribed
    BY DEF VectorsInit, PresentAreDescribed
<1>4. CallsArePresent /\ NoNullHandler
    BY DEF VectorsInit, CallsArePresent, NoNullHandler
<1> QED
    BY <1>1, <1>2, <1>3, <1>4 DEF VectorsInv

-------------------------------------------------------------------------------
(* Installation.                                                              *)

\* A driver that looks for a vector holds no lock and promises nothing: only
\* its own place changes.
LEMMA SearchingKeepsInv ==
    ASSUME VectorsInv, NEW d \in Drivers,
           SelectProcessor(d) \/ LookAtVector(d)
    PROVE  VectorsInv'
<1> USE ConstantFacts DEF VectorsInv, irqTables, handling
<1>1. VectorTypes'
  <2>1. CASE SelectProcessor(d)
    <3> DEFINE chosen == selector % NumProcessors
    <3>1. chosen \in Cpus
        BY DEF VectorTypes
    <3>2. chosen + 1 \in Nat
        BY <3>1, VectorsAssumption DEF Cpus
    <3>3. cpu' = [cpu EXCEPT ![d] = chosen] /\ selector' = chosen + 1
        BY <2>1 DEF SelectProcessor
    <3> HIDE DEF chosen
    <3>4. cpu' \in [Drivers -> Cpus] /\ selector' \in Nat
        BY <3>1, <3>2, <3>3 DEF VectorTypes
    <3> QED
        BY <2>1, <3>4 DEF SelectProcessor, VectorTypes, DriverPcs
  <2>2. CASE LookAtVector(d)
      BY <2>2 DEF LookAtVector, NextVector, VectorTypes, DriverPcs
  <2> QED BY <2>1, <2>2
<1>2. /\ \A e \in Drivers \ {d} : driverPc'[e] = driverPc[e] /\ Slot(e)' = Slot(e)
      /\ driverPc'[d] \in {"look", "lock", "exception"}
      /\ UNCHANGED <<irqTables, handling>>
    BY DEF SelectProcessor, LookAtVector, NextVector, VectorTypes, Slot
<1>3. WorkersHoldLock' /\ FreeUntilPresent' /\ DescribedKept' /\ HandlersKept'
    BY <1>2 DEF WorkersHoldLock, FreeUntilPresent, DescribedKept, HandlersKept
<1>4. PresentAreDescribed' /\ CallsArePresent' /\ NoNullHandler'
    BY <1>2 DEF PresentAreDescribed, CallsArePresent, NoNullHandler
<1> QED BY <1>1, <1>3, <1>4

\* The one that finds the vector free holds its lock until the end.
LEMMA TryVectorLockKeepsInv ==
    ASSUME VectorsInv, NEW d \in Drivers, TryVectorLock(d)
    PROVE  VectorsInv'
<1> USE ConstantFacts, SlotType DEF VectorsInv, handling
<1>1. VectorTypes'
    BY ZenonT(60) DEF TryVectorLock, NextVector, VectorTypes, DriverPcs
<1>2. /\ \A e \in Drivers \ {d} : driverPc'[e] = driverPc[e] /\ Slot(e)' = Slot(e)
      /\ driverPc'[d] \in {"look", "again", "exception"}
      /\ driverPc'[d] = "again" => Slot(d)' = Slot(d) /\ vectorLock'[Slot(d)] = d
      /\ \A s \in Cpus \X Vectors : vectorLock[s] # NoHandler => vectorLock'[s] = vectorLock[s]
      /\ UNCHANGED <<present, descriptor, idt, handling>>
    BY ZenonT(60) DEF TryVectorLock, NextVector, VectorTypes, Slot
<1>3. WorkersHoldLock'
    BY <1>2 DEF WorkersHoldLock
<1>4. FreeUntilPresent' /\ DescribedKept' /\ HandlersKept'
    BY <1>2 DEF FreeUntilPresent, DescribedKept, HandlersKept
<1>5. PresentAreDescribed' /\ CallsArePresent' /\ NoNullHandler'
    BY <1>2 DEF PresentAreDescribed, CallsArePresent, NoNullHandler
<1> QED BY <1>1, <1>3, <1>4, <1>5

\* The second look: who finds the vector present gives up the lock, which is its
\* own; otherwise the vector is free and stays so while the lock is held.
LEMMA LookAgainKeepsInv ==
    ASSUME VectorsInv, NEW d \in Drivers, LookAgain(d)
    PROVE  VectorsInv'
<1> USE ConstantFacts, SlotType DEF VectorsInv, handling
<1>1. VectorTypes'
    BY ZenonT(60) DEF LookAgain, NextVector, VectorTypes, DriverPcs
<1>2. /\ \A e \in Drivers \ {d} : driverPc'[e] = driverPc[e] /\ Slot(e)' = Slot(e)
      /\ driverPc'[d] \in {"look", "describe", "exception"}
      /\ driverPc'[d] = "describe" => Slot(d)' = Slot(d) /\ ~present[Slot(d)]
                                      /\ vectorLock' = vectorLock
      /\ \A s \in Cpus \X Vectors : s # Slot(d) => vectorLock'[s] = vectorLock[s]
      /\ vectorLock[Slot(d)] = d
      /\ UNCHANGED <<present, descriptor, idt, handling>>
    BY DEF LookAgain, NextVector, VectorTypes, WorkersHoldLock, Slot
<1>3. WorkersHoldLock'
    BY <1>2 DEF WorkersHoldLock
<1>4. FreeUntilPresent' /\ DescribedKept' /\ HandlersKept'
    BY <1>2 DEF FreeUntilPresent, DescribedKept, HandlersKept
<1>5. PresentAreDescribed' /\ CallsArePresent' /\ NoNullHandler'
    BY <1>2 DEF PresentAreDescribed, CallsArePresent, NoNullHandler
<1> QED BY <1>1, <1>3, <1>4, <1>5

\* Nobody else relies on the descriptor: the vector is not present, and the lock
\* says that no other driver works on it.
LEMMA SetDescriptorKeepsInv ==
    ASSUME VectorsInv, NEW d \in Drivers, SetDescriptor(d)
    PROVE  VectorsInv'
<1> USE ConstantFacts, SlotType DEF VectorsInv, handling
<1>1. VectorTypes'
    BY DEF SetDescriptor, VectorTypes, DriverPcs
<1>2. /\ driverPc[d] = "describe" /\ driverPc' = [driverPc EXCEPT ![d] = "present"]
      /\ \A e \in Drivers : Slot(e)' = Slot(e)
      /\ descriptor'[Slot(d)] = d
      /\ \A s \in Cpus \X Vectors : s # Slot(d) => descriptor'[s] = descriptor[s]
      /\ UNCHANGED <<present, vectorLock, idt, handling>>
    BY DEF SetDescriptor, VectorTypes, Slot
<1>3. ~present[Slot(d)] /\ vectorLock[Slot(d)] = d
    BY <1>2 DEF FreeUntilPresent, WorkersHoldLock
<1>4. WorkersHoldLock' /\ FreeUntilPresent'
    BY <1>2 DEF WorkersHoldLock, FreeUntilPresent, VectorTypes
<1>5. DescribedKept' /\ HandlersKept'
    BY <1>2, <1>3 DEF DescribedKept, HandlersKept, WorkersHoldLock, VectorTypes
<1>6. PresentAreDescribed' /\ CallsArePresent' /\ NoNullHandler'
    BY <1>2, <1>3 DEF PresentAreDescribed, CallsArePresent, NoNullHandler
<1> QED BY <1>1, <1>4, <1>5, <1>6

\* The vector is marked present after its descriptor was written.
LEMMA SetPresentKeepsInv ==
    ASSUME VectorsInv, NEW d \in Drivers, SetPresent(d)
    PROVE  VectorsInv'
<1> USE ConstantFacts, SlotType DEF VectorsInv, handling
<1>1. VectorTypes'
    BY DEF SetPresent, VectorTypes, DriverPcs
<1>2. /\ driverPc[d] = "present" /\ driverPc' = [driverPc EXCEPT ![d] = "gate"]
      /\ \A e \in Drivers : Slot(e)' = Slot(e)
      /\ present'[Slot(d)]
      /\ \A s \in Cpus \X Vectors : s # Slot(d) => present'[s] = present[s]
      /\ UNCHANGED <<descriptor, vectorLock, idt, handling>>
    BY DEF SetPresent, VectorTypes, Slot
<1>3. descriptor[Slot(d)] = d /\ vectorLock[Slot(d)] = d
    BY <1>2 DEF DescribedKept, WorkersHoldLock
<1>4. WorkersHoldLock' /\ FreeUntilPresent'
    BY <1>2, <1>3 DEF WorkersHoldLock, FreeUntilPresent, VectorTypes
<1>5. DescribedKept' /\ HandlersKept'
    BY <1>2, <1>3 DEF DescribedKept, HandlersKept, VectorTypes
<1>6. PresentAreDescribed' /\ NoNullHandler'
    BY <1>2, <1>3 DEF PresentAreDescribed, NoNullHandler
<1>7. CallsArePresent'
    BY <1>2 DEF CallsArePresent, VectorTypes
<1> QED BY <1>1, <1>4, <1>5, <1>6, <1>7

\* The gate is set last.
LEMMA CpuSetInterruptKeepsInv ==
    ASSUME VectorsInv, NEW d \in Drivers, CpuSetInterrupt(d)
    PROVE  VectorsInv'
<1> USE ConstantFacts, SlotType DEF VectorsInv, handling
<1>1. VectorTypes'
    BY DEF CpuSetInterrupt, VectorTypes, DriverPcs
<1>2. /\ driverPc[d] = "gate" /\ driverPc' = [driverPc EXCEPT ![d] = "installed"]
      /\ \A e \in Drivers : Slot(e)' = Slot(e)
      /\ idt'[Slot(d)]
      /\ \A s \in Cpus \X Vectors : s # Slot(d) => vectorLock'[s] = vectorLock[s]
      /\ \A s \in Cpus \X Vectors : idt[s] => idt'[s]
      /\ UNCHANGED <<present, descriptor, handling>>
    BY DEF CpuSetInterrupt, VectorTypes, Slot
<1>3. descriptor[Slot(d)] = d /\ present[Slot(d)] /\ vectorLock[Slot(d)] = d
    BY <1>2 DEF DescribedKept, WorkersHoldLock
<1>4. WorkersHoldLock' /\ FreeUntilPresent'
    BY <1>2, <1>3 DEF WorkersHoldLock, FreeUntilPresent, VectorTypes
<1>5. DescribedKept'
    BY <1>2 DEF DescribedKept, VectorTypes
<1>6. HandlersKept'
  <2> SUFFICES ASSUME NEW e \in Drivers, driverPc'[e] = "installed"
               PROVE  descriptor[Slot(e)] = e /\ present[Slot(e)] /\ idt'[Slot(e)]
      BY <1>2 DEF HandlersKept
  <2>1. CASE e = d
      BY <1>2, <1>3, <2>1
  <2>2. CASE e # d
      BY <1>2, <2>2 DEF HandlersKept, VectorTypes
  <2> QED BY <2>1, <2>2
<1>7. PresentAreDescribed' /\ CallsArePresent' /\ NoNullHandler'
    BY <1>2 DEF PresentAreDescribed, CallsArePresent, NoNullHandler
<1> QED BY <1>1, <1>4, <1>5, <1>6, <1>7

\* Every step of KeInstallInterruptHandler keeps the invariant.
LEMMA InstallKeepsInv ==
    ASSUME VectorsInv, NEW d \in Drivers, Install(d)
    PROVE  VectorsInv'
  BY SearchingKeepsInv, TryVectorLockKeepsInv, LookAgainKeepsInv,
     SetDescriptorKeepsInv, SetPresentKeepsInv, CpuSetInterruptKeepsInv
     DEF Install

-------------------------------------------------------------------------------
(* Interrupts.                                                                *)

\* So does every step of an interrupt: it writes none of the tables.
LEMMA NosIrqHandlerKeepsInv ==
    ASSUME VectorsInv, NEW p \in Cpus, NosIrqHandler(p)
    PROVE  VectorsInv'
<1> USE ConstantFacts DEF VectorsInv, irqTables, installing
<1>1. UNCHANGED <<irqTables, installing>>
    BY DEF NosIrqHandler, Interrupt, ReadPresent, CallHandler, EndOfInterrupt
<1>2. WorkersHoldLock' /\ FreeUntilPresent' /\ DescribedKept' /\ HandlersKept'
    BY <1>1 DEF WorkersHoldLock, FreeUntilPresent, DescribedKept, HandlersKept, Slot
<1>3. PresentAreDescribed'
    BY <1>1 DEF PresentAreDescribed
<1>4. VectorTypes' /\ CallsArePresent' /\ NoNullHandler'
  <2>1. CASE \E d \in Drivers : Interrupt(p, d)
      BY <2>1 DEF Interrupt, VectorTypes, CallsArePresent, NoNullHandler
  <2>2. CASE ReadPresent(p)
      BY <2>2 DEF ReadPresent, VectorTypes, CallsArePresent, NoNullHandler
  <2>3. CASE CallHandler(p)
    <3>1. /\ <<BootProcessor, number[p]>> \in Cpus \X Vectors
          /\ present[<<BootProcessor, number[p]>>]
        BY <2>3 DEF CallHandler, CallsArePresent, VectorTypes
    <3>2. descriptor[<<BootProcessor, number[p]>>] # NoHandler
        BY <3>1 DEF PresentAreDescribed
    <3> QED
        BY <2>3, <3>1, <3>2 DEF CallHandler, VectorTypes, CallsArePresent, NoNullHandler
  <2>4. CASE EndOfInterrupt(p)
      BY <2>4 DEF EndOfInterrupt, VectorTypes, CallsArePresent, NoNullHandler
  <2> QED BY <2>1, <2>2, <2>3, <2>4 DEF NosIrqHandler
<1> QED BY <1>2, <1>3, <1>4

-------------------------------------------------------------------------------
(* The theorems.                                                              *)

\* The invariant holds in every reachable state.
THEOREM VectorsInvariant == VectorsSpec => []VectorsInv
<1>1. VectorsInit => VectorsInv
    BY VectorsInitInv
<1>2. VectorsInv /\ [VectorsNext]_vectorVars => VectorsInv'
  <2> SUFFICES ASSUME VectorsInv, [VectorsNext]_vectorVars PROVE VectorsInv'
      OBVIOUS
  <2>1. CASE \E d \in Drivers : Install(d)
      BY <2>1, InstallKeepsInv
  <2>2. CASE \E p \in Cpus : NosIrqHandler(p)
      BY <2>2, NosIrqHandlerKeepsInv
  <2>3. CASE UNCHANGED vectorVars
      BY <2>3 DEF VectorsInv, VectorTypes, WorkersHoldLock, FreeUntilPresent,
                  DescribedKept, HandlersKept, PresentAreDescribed,
                  CallsArePresent, NoNullHandler, Slot, vectorVars, irqTables,
                  installing, handling
  <2> QED BY <2>1, <2>2, <2>3 DEF VectorsNext
<1> QED BY <1>1, <1>2, PTL DEF VectorsSpec

\* KiAllocateIV never gives away a vector it has returned to a driver, however
\* many drivers install handlers at the same time.
THEOREM InstalledHandlersKept == VectorsSpec => []HandlersKept
  BY VectorsInvariant, PTL DEF VectorsInv

\* NosIrqHandler never calls through an empty descriptor, although it reads the
\* table without its lock.
THEOREM NoNullHandlerCalled == VectorsSpec => []NoNullHandler
  BY VectorsInvariant, PTL DEF VectorsInv

-------------------------------------------------------------------------------
(* Page tables.                                                               *)

\* Between the acquisition of the control bit and the return of its release.
Inside == {"share", "walk", "clear", "link", "release", "halted"}

Searched(t) == HwFindAvailableAddressSpace(memory, Head(calls[t]).pages, Head(calls[t]).big)

\* The tables are changed by a thread that is alone between acquiring and releasing
\* the control bit (paging.c:39-45, 449-451).
OneWriter ==
    [][memory' # memory =>
         \E t \in Threads : /\ pc[t] \in {"walk", "clear", "link"}
                            /\ \A u \in Threads \ {t} : pc[u] \notin Inside]_pagingVars

\* What MmShareMemory maps is what a search in the tables finds when the mapping
\* begins, though the search ended before (virtmemold.c:129-136).
MapsWhatIsFound ==
    [][\A t \in Threads : pc[t] = "share" /\ pc'[t] = "walk" => asked'[t].virt = Searched(t)]_pagingVars

\* Who is inside holds the bit, and what a search found it would find again.
PagingInv ==
    /\ pc \in [Threads -> Inside \cup {"idle"}]
    /\ DOMAIN va = Threads /\ DOMAIN asked = Threads
    /\ \A t \in Threads : pc[t] \in Inside => holder = t
    /\ \A t \in Threads : pc[t] = "share" => va[t] = Searched(t)

\* Who takes a step has the bit, or takes it from nobody.
LEMMA StepHolds ==
    ASSUME PagingInv, PagingNext
    PROVE  \E t \in Threads :
             /\ holder \in {t, Nobody}
             /\ pc' = [pc EXCEPT ![t] = pc'[t]] /\ pc'[t] \in Inside \cup {"idle"}
             /\ DOMAIN va' = Threads /\ DOMAIN asked' = Threads
             /\ \A u \in Threads \ {t} : pc[u] \notin Inside
             /\ pc'[t] \in Inside => holder' = t
             /\ pc'[t] = "share" =>
                  va'[t] = HwFindAvailableAddressSpace(memory', Head(calls'[t]).pages, Head(calls'[t]).big)
             /\ memory' # memory => pc[t] \in {"walk", "clear", "link"}
             /\ pc[t] = "share" /\ pc'[t] = "walk" => asked'[t].virt = va[t]
<1>1. PICK t \in Threads :
        \/ KeMapVirtualMemory(t) \/ KeFindAvailableAddressSpace(t)
        \/ MmShareMemory(t) \/ Release(t)
        \/ Walk(t) \/ Allocate(t) \/ Halt(t) \/ Clear(t) \/ Link(t) \/ Fill(t)
  BY DEF PagingNext
<1>2. /\ pc \in [Threads -> Inside \cup {"idle"}] /\ DOMAIN va = Threads /\ DOMAIN asked = Threads
      /\ \A u \in Threads : pc[u] \in Inside => holder = u
      /\ Nobody \notin Threads
  BY NobodyAssumption DEF PagingInv
<1>3. ASSUME pc[t] \in Inside
      PROVE  holder = t /\ \A u \in Threads \ {t} : pc[u] \notin Inside
  BY <1>2, <1>3
<1>4. ASSUME holder = Nobody
      PROVE  \A u \in Threads \ {t} : pc[u] \notin Inside
  BY <1>2, <1>4
<1>5. CASE KeMapVirtualMemory(t)
  <2>1. /\ holder = Nobody /\ holder' = t /\ pc[t] = "idle" /\ memory' = memory
        /\ \/ pc' = [pc EXCEPT ![t] = "release"] /\ UNCHANGED <<asked, regs>>
           \/ /\ pc' = [pc EXCEPT ![t] = "walk"]
              /\ DOMAIN asked' = DOMAIN asked /\ DOMAIN va' = DOMAIN va
    BY <1>5 DEF KeMapVirtualMemory, Acquire, StartMap
  <2>2. QED BY <1>2, <1>4, <2>1 DEF Inside, regs
<1>6. CASE KeFindAvailableAddressSpace(t)
  <2>1. /\ holder = Nobody /\ holder' = t /\ pc[t] = "idle" /\ memory' = memory /\ calls' = calls
        /\ pc' = [pc EXCEPT ![t] = "share"] /\ asked' = asked
        /\ va' = [va EXCEPT ![t] = Searched(t)]
    BY <1>6 DEF KeFindAvailableAddressSpace, Acquire, Searched
  <2>2. va'[t] = HwFindAvailableAddressSpace(memory', Head(calls'[t]).pages, Head(calls'[t]).big)
    BY <1>2, <2>1 DEF Searched
  <2>3. QED BY <1>2, <1>4, <2>1, <2>2 DEF Inside
<1>7. CASE MmShareMemory(t)
  <2>1. /\ pc[t] = "share" /\ memory' = memory /\ holder' = holder
        /\ \/ pc' = [pc EXCEPT ![t] = "idle"] /\ UNCHANGED <<asked, regs>>
           \/ pc' = [pc EXCEPT ![t] = "halted"] /\ UNCHANGED <<asked, regs>>
           \/ /\ pc' = [pc EXCEPT ![t] = "walk"]
              /\ \E h, n, b : asked' = [asked EXCEPT ![t] = Request(va[t], h, n, b)]
              /\ DOMAIN va' = DOMAIN va
    <3> DEFINE c == Head(calls[t])
               phys == HwConvertPointer(memory, c.from)
               request == Request(va[t], phys, c.pages, c.big)
    <3>1. /\ pc[t] = "share" /\ memory' = memory /\ holder' = holder
          /\ \/ pc' = [pc EXCEPT ![t] = "idle"] /\ UNCHANGED <<asked, regs>>
             \/ pc' = [pc EXCEPT ![t] = "halted"] /\ UNCHANGED <<asked, regs>>
             \/ /\ pc' = [pc EXCEPT ![t] = "walk"] /\ DOMAIN va' = DOMAIN va
                /\ asked' = [asked EXCEPT ![t] = request]
      BY <1>7 DEF MmShareMemory, StartMap
    <3>2. \E h, n, b : request = Request(va[t], h, n, b)
      OBVIOUS
    <3> HIDE DEF request
    <3>3. QED BY <3>1, <3>2
  <2>2. QED BY <1>2, <1>3, <2>1 DEF Inside, regs, Request
<1>8. CASE Release(t)
  <2>1. /\ pc[t] = "release" /\ memory' = memory /\ pc' = [pc EXCEPT ![t] = "idle"]
        /\ DOMAIN asked' = DOMAIN asked /\ va' = va
    BY <1>8 DEF Release, regs
  <2>2. QED BY <1>2, <1>3, <2>1 DEF Inside
<1>9. CASE Walk(t)
  <2>1. pc[t] = "walk" /\ UNCHANGED <<memory, holder, calls, pc, asked, va>>
    BY <1>9 DEF Walk
  <2>2. QED BY <1>2, <1>3, <2>1 DEF Inside
<1>10. CASE Allocate(t)
  <2>1. pc[t] = "walk" /\ pc' = [pc EXCEPT ![t] = "clear"] /\ UNCHANGED <<holder, calls, asked, va>>
    BY <1>10 DEF Allocate, regs
  <2>2. QED BY <1>2, <1>3, <2>1 DEF Inside
<1>11. CASE Halt(t)
  <2>1. /\ pc[t] = "walk" /\ pc' = [pc EXCEPT ![t] = "halted"]
        /\ UNCHANGED <<memory, holder, calls, asked, va>>
    BY <1>11 DEF Halt, regs
  <2>2. QED BY <1>2, <1>3, <2>1 DEF Inside
<1>12. CASE Clear(t)
  <2>1. pc[t] = "clear" /\ pc' = [pc EXCEPT ![t] = "link"] /\ UNCHANGED <<holder, calls, asked, va>>
    BY <1>12 DEF Clear, regs
  <2>2. QED BY <1>2, <1>3, <2>1 DEF Inside
<1>13. CASE Link(t)
  <2>1. pc[t] = "link" /\ pc' = [pc EXCEPT ![t] = "walk"] /\ UNCHANGED <<holder, calls, asked, va>>
    BY <1>13 DEF Link
  <2>2. QED BY <1>2, <1>3, <2>1 DEF Inside
<1>14. CASE Fill(t)
  <2>1. /\ pc[t] = "walk" /\ UNCHANGED <<holder, calls, asked>> /\ DOMAIN va' = DOMAIN va
        /\ \/ pc' = [pc EXCEPT ![t] = "release"]
           \/ pc' = [pc EXCEPT ![t] = "walk"]
    BY <1>14 DEF Fill
  <2>2. QED BY <1>2, <1>3, <2>1 DEF Inside
<1>15. QED BY <1>1, <1>5, <1>6, <1>7, <1>8, <1>9, <1>10, <1>11, <1>12, <1>13, <1>14

LEMMA PagingStart == PagingInit => PagingInv
<1> SUFFICES ASSUME PagingInit PROVE PagingInv
  OBVIOUS
<1>1. /\ pc = [t \in Threads |-> "idle"] /\ va = [t \in Threads |-> 0]
      /\ asked = [t \in Threads |-> Nobody]
  BY DEF PagingInit
<1>2. QED BY <1>1 DEF PagingInv, Inside

LEMMA PagingKept == PagingInv /\ [PagingNext]_pagingVars => PagingInv'
<1> SUFFICES ASSUME PagingInv, [PagingNext]_pagingVars PROVE PagingInv'
  OBVIOUS
<1>1. CASE PagingNext
  <2>1. PICK t \in Threads :
             /\ pc' = [pc EXCEPT ![t] = pc'[t]] /\ pc'[t] \in Inside \cup {"idle"}
             /\ DOMAIN va' = Threads /\ DOMAIN asked' = Threads
             /\ \A u \in Threads \ {t} : pc[u] \notin Inside
             /\ pc'[t] \in Inside => holder' = t
             /\ pc'[t] = "share" =>
                  va'[t] = HwFindAvailableAddressSpace(memory', Head(calls'[t]).pages, Head(calls'[t]).big)
    BY <1>1, StepHolds
  <2>2. pc \in [Threads -> Inside \cup {"idle"}]
    BY DEF PagingInv
  <2>3. pc' \in [Threads -> Inside \cup {"idle"}]
    BY <2>1, <2>2
  <2>4. \A u \in Threads \ {t} : pc'[u] \notin Inside
    BY <2>1, <2>2
  <2>5. \A u \in Threads : pc'[u] \in Inside => holder' = u
    BY <2>1, <2>4
  <2>6. "share" \in Inside
    BY DEF Inside
  <2>7. \A u \in Threads : pc'[u] = "share" =>
          va'[u] = HwFindAvailableAddressSpace(memory', Head(calls'[u]).pages, Head(calls'[u]).big)
    BY <2>1, <2>4, <2>6
  <2>8. QED BY <2>1, <2>3, <2>5, <2>7 DEF PagingInv, Searched, Inside
<1>2. CASE UNCHANGED pagingVars
  <2>1. UNCHANGED <<memory, holder, calls, pc, asked, va>>
    BY <1>2 DEF pagingVars, regs
  <2>2. QED BY <2>1 DEF PagingInv, Searched, Inside
<1>3. QED BY <1>1, <1>2

THEOREM PagingInvariant == PagingSpec => []PagingInv
<1>1. PagingInit => PagingInv
  BY PagingStart
<1>2. PagingInv /\ [PagingNext]_pagingVars => PagingInv'
  BY PagingKept
<1>3. QED BY <1>1, <1>2, PTL DEF PagingSpec

\* For any number of threads, size of the tables and calls, whatever those calls are and
\* whether they fail or not: who changes the page tables is alone between acquiring and
\* releasing the control bit.
THEOREM TablesHaveOneWriter == PagingSpec => OneWriter
<1>1. PagingInv /\ [PagingNext]_pagingVars =>
        [memory' # memory =>
           \E t \in Threads : /\ pc[t] \in {"walk", "clear", "link"}
                              /\ \A u \in Threads \ {t} : pc[u] \notin Inside]_pagingVars
  BY StepHolds
<1>2. QED BY <1>1, PagingInvariant, PTL DEF PagingSpec, OneWriter

\* The search for a free range and the mapping of it are two calls; that nothing the
\* search looked at has changed in between is what the control bit is held for.
THEOREM FoundIsMapped == PagingSpec => MapsWhatIsFound
<1>1. PagingInv /\ [PagingNext]_pagingVars =>
        [\A t \in Threads : pc[t] = "share" /\ pc'[t] = "walk" => asked'[t].virt = Searched(t)]_pagingVars
  <2> SUFFICES ASSUME PagingInv, PagingNext, NEW u \in Threads, pc[u] = "share", pc'[u] = "walk"
               PROVE  asked'[u].virt = Searched(u)
    OBVIOUS
  <2>1. PICK t \in Threads : /\ \A w \in Threads \ {t} : pc[w] \notin Inside
                             /\ pc[t] = "share" /\ pc'[t] = "walk" => asked'[t].virt = va[t]
    BY StepHolds
  <2>2. u = t
    BY <2>1 DEF Inside
  <2>3. QED BY <2>1, <2>2 DEF PagingInv
<1>2. QED BY <1>1, PagingInvariant, PTL DEF PagingSpec, MapsWhatIsFound

-------------------------------------------------------------------------------
(* The check of a range of pages.                                            *)

\* What CheckPages decides about n pages from w on, if S are the ranges it
\* passes.
Passes(m, S, w, n) ==
    LET run == Min({n, Entries - Index(3, w)})
    IN  \/ IsBig(m, w) /\ (n <= Entries \/ <<w + Entries, n - Entries>> \in S)
        \/ /\ HasPt(m, w)
           /\ \A u \in w .. w + run - 1 : Pte(m, u).present
           /\ n = run \/ <<w + run, n - run>> \in S

Rule(m, S) == {r \in Ranges : Passes(m, S, r[1], r[2])}
Passed(m) == {r \in Ranges : \A S \in SUBSET Ranges : Rule(m, S) \subseteq S => r \in S}

\* More ranges that are passed let more ranges pass: this is why there is a least
\* set of them, and the recursion has a solution.
LEMMA RuleMonotone ==
    ASSUME NEW m, NEW S, NEW T, S \subseteq T
    PROVE  Rule(m, S) \subseteq Rule(m, T)
  BY DEF Rule, Passes

\* The least such set is a solution.
LEMMA PassedFixed == ASSUME NEW m PROVE Passed(m) = Rule(m, Passed(m))
<1>1. Passed(m) \in SUBSET Ranges /\ Rule(m, Passed(m)) \in SUBSET Ranges
  BY DEF Passed, Rule
<1>2. Rule(m, Passed(m)) \subseteq Passed(m)
  <2> SUFFICES ASSUME NEW r \in Rule(m, Passed(m)), NEW S \in SUBSET Ranges, Rule(m, S) \subseteq S
               PROVE  r \in S
    BY <1>1 DEF Passed
  <2>1. Passed(m) \subseteq S
    BY DEF Passed
  <2>2. Rule(m, Passed(m)) \subseteq Rule(m, S)
    BY <2>1, RuleMonotone
  <2> QED BY <2>2
<1>3. Rule(m, Rule(m, Passed(m))) \subseteq Rule(m, Passed(m))
  BY <1>2, RuleMonotone
<1>4. Passed(m) \subseteq Rule(m, Passed(m))
  BY <1>1, <1>3 DEF Passed
<1> QED BY <1>2, <1>4

\* Where a page is in its page table.
LEMMA IndexBound == ASSUME NEW w \in Nat PROVE Index(3, w) = w % Entries /\ w % Entries \in 0 .. Entries - 1
  BY EntriesAssumption DEF Index, Span

\* What is left of the range, or of the page table.
LEMMA MinOfTwo ==
    ASSUME NEW a \in Nat, NEW b \in Nat
    PROVE  Min({a, b}) = IF a <= b THEN a ELSE b
  BY DEF Min

\* CheckPages is what its recursion says.
LEMMA CheckPagesEquation ==
    ASSUME NEW m, NEW w \in Nat, NEW n \in Nat
    PROVE  LET run == Min({n, Entries - Index(3, w)})
           IN  CheckPages(m)[<<w, n>>] <=>
                 \/ IsBig(m, w) /\ (n <= Entries \/ CheckPages(m)[<<w + Entries, n - Entries>>])
                 \/ /\ HasPt(m, w)
                    /\ \A u \in w .. w + run - 1 : Pte(m, u).present
                    /\ n = run \/ CheckPages(m)[<<w + run, n - run>>]
<1> DEFINE run(x, k) == Min({k, Entries - Index(3, x)})
           body(f, r) ==
             \/ IsBig(m, r[1]) /\ (r[2] <= Entries \/ f[<<r[1] + Entries, r[2] - Entries>>])
             \/ /\ HasPt(m, r[1])
                /\ \A u \in r[1] .. r[1] + run(r[1], r[2]) - 1 : Pte(m, u).present
                /\ r[2] = run(r[1], r[2]) \/ f[<<r[1] + run(r[1], r[2]), r[2] - run(r[1], r[2])>>]
           g == [r \in Ranges |-> r \in Passed(m)]
<1>1. ASSUME NEW x \in Nat, NEW k \in Nat
      PROVE  run(x, k) \in 0 .. k
  <2>1. Index(3, x) \in 0 .. Entries - 1
    BY IndexBound
  <2>2. Entries - Index(3, x) \in Nat
    BY <2>1, EntriesAssumption
  <2> QED BY <2>2, MinOfTwo
<1>2. ASSUME NEW r \in Ranges
      PROVE  g[r] = body(g, r)
  <2> HIDE DEF run
  <2>1. ASSUME NEW s \in Ranges PROVE g[s] <=> s \in Passed(m)
    OBVIOUS
  <2> HIDE DEF g
  <2>2. PICK x \in Nat, k \in Nat : r = <<x, k>>
    BY DEF Ranges
  <2>3. r \in Passed(m) <=> Passes(m, Passed(m), x, k)
    BY <2>2, PassedFixed DEF Rule, Ranges
  <2>4. k > Entries => (g[<<x + Entries, k - Entries>>] <=> <<x + Entries, k - Entries>> \in Passed(m))
    BY <2>1, EntriesAssumption DEF Ranges
  <2>5. PICK j \in 0 .. k : j = run(x, k)
    BY <1>1
  <2>6. <<x + j, k - j>> \in Ranges
    BY DEF Ranges
  <2>7. g[<<x + j, k - j>>] <=> <<x + j, k - j>> \in Passed(m)
    BY <2>1, <2>6
  <2>8. Passes(m, Passed(m), x, k) <=>
          \/ IsBig(m, x) /\ (k <= Entries \/ <<x + Entries, k - Entries>> \in Passed(m))
          \/ /\ HasPt(m, x)
             /\ \A u \in x .. x + j - 1 : Pte(m, u).present
             /\ k = j \/ <<x + j, k - j>> \in Passed(m)
    BY <2>5 DEF Passes, run
  <2>9. body(g, r) <=>
          \/ IsBig(m, x) /\ (k <= Entries \/ g[<<x + Entries, k - Entries>>])
          \/ /\ HasPt(m, x)
             /\ \A u \in x .. x + j - 1 : Pte(m, u).present
             /\ k = j \/ g[<<x + j, k - j>>]
    BY <2>2, <2>5
  <2>10. Passes(m, Passed(m), x, k) <=> body(g, r)
    BY <2>4, <2>7, <2>8, <2>9, EntriesAssumption
  <2>11. g[r] \in BOOLEAN
    BY DEF g
  <2> QED BY <2>1, <2>3, <2>10, <2>11
<1>3. g = [r \in Ranges |-> body(g, r)]
  BY <1>2
<1>4. CheckPages(m) = [r \in Ranges |-> body(CheckPages(m), r)]
  BY <1>3 DEF CheckPages
<1> HIDE DEF run
<1>5. <<w, n>> \in Ranges
  BY DEF Ranges
<1>6. CheckPages(m)[<<w, n>>] <=> body(CheckPages(m), <<w, n>>)
  BY <1>4, <1>5
<1> QED BY <1>6 DEF run
\* Division by the span of an entry.
LEMMA MultipleBelow == ASSUME NEW a \in Int, NEW b \in Int, NEW E \in Nat \ {0}, a < b PROVE a * E + E <= b * E
<1>1. PICK k \in Int : b = a + 1 + k /\ k >= 0
  <2> b = a + 1 + (b - a - 1) /\ b - a - 1 >= 0
    OBVIOUS
  <2> QED OBVIOUS
<1>2. b * E = a * E + E + k * E
  BY <1>1
<1>3. k * E >= 0
  BY <1>1
<1> QED BY <1>2, <1>3
LEMMA DivMod == ASSUME NEW w \in Nat, NEW E \in Nat \ {0}
  PROVE  /\ w \div E \in Nat /\ w % E \in 0 .. E - 1 /\ w = (w \div E) * E + (w % E)
 OBVIOUS
LEMMA QuotientIs == ASSUME NEW w \in Nat, NEW q \in Nat, NEW E \in Nat \ {0}, q * E <= w, w < q * E + E
   PROVE w \div E = q
<1>1. w \div E \in Nat /\ w % E \in 0 .. E - 1 /\ w = (w \div E) * E + (w % E)
  BY DivMod
<1>2. CASE w \div E < q
  BY <1>1, <1>2, MultipleBelow
<1>3. CASE q < w \div E
  BY <1>1, <1>3, MultipleBelow
<1> QED BY <1>1, <1>2, <1>3

LEMMA QuotientOfQuotient ==
    ASSUME NEW w \in Nat, NEW A \in Nat \ {0}, NEW B \in Nat \ {0}
    PROVE  w \div (A * B) = (w \div A) \div B
<1> DEFINE p == w \div A
           q == p \div B
<1>1. p \in Nat /\ w % A \in 0 .. A - 1 /\ w = p * A + (w % A)
  BY DivMod
<1>2. q \in Nat /\ p % B \in 0 .. B - 1 /\ p = q * B + (p % B)
  BY <1>1, DivMod
<1> HIDE DEF p, q
<1>3. PICK r \in 0 .. A - 1, s \in 0 .. B - 1 : w = p * A + r /\ p = q * B + s
  BY <1>1, <1>2
<1>4. w = q * (A * B) + s * A + r
  <2>1. p * A = (q * B) * A + s * A
    BY <1>2, <1>3
  <2>2. (q * B) * A = q * (A * B)
    BY <1>2
  <2> QED BY <1>3, <2>1, <2>2, <1>1, <1>2
<1>5. s * A + A <= B * A
  BY <1>3, MultipleBelow
<1>6. A * B \in Nat \ {0} /\ A * B = B * A /\ s * A \in Nat /\ q * (A * B) \in Nat
  BY <1>2
<1>7. q * (A * B) <= w /\ w < q * (A * B) + A * B
  <2>1. PICK a \in Nat, b \in Nat, c \in Nat : a = q * (A * B) /\ b = s * A /\ c = A * B
    BY <1>6
  <2>2. w = a + b + r /\ b + A <= c
    BY <1>4, <1>5, <1>6, <2>1
  <2>3. a <= w /\ w < a + c
    BY <1>3, <2>2
  <2> QED BY <2>1, <2>3
<1>8. w \div (A * B) = q
  BY <1>2, <1>6, <1>7, QuotientIs
<1> QED BY <1>8 DEF q, p

\* The pages from w to the end of its page table.
LEMMA SameTable ==
    ASSUME NEW m, NEW w \in Nat, NEW u \in Nat, w <= u, u < w + (Entries - (w % Entries))
    PROVE  HasPd(m, u) = HasPd(m, w) /\ Pde(m, u) = Pde(m, w)
<1> DEFINE q == w \div Entries
<1>1. q \in Nat /\ w % Entries \in 0 .. Entries - 1 /\ w = q * Entries + (w % Entries)
  BY DivMod, EntriesAssumption
<1> HIDE DEF q
<1>2. PICK r \in 0 .. Entries - 1 : r = w % Entries
  BY <1>1
<1>3. q * Entries \in Nat
  BY <1>1, EntriesAssumption
<1>4. q * Entries <= u /\ u < q * Entries + Entries
  BY <1>1, <1>2, <1>3, EntriesAssumption
<1>5. u \div Entries = w \div Entries
  BY <1>1, <1>4, QuotientIs, EntriesAssumption DEF q
<1>6. u \div (Entries * Entries) = w \div (Entries * Entries)
  <2>1. u \div (Entries * Entries) = (u \div Entries) \div Entries
    BY QuotientOfQuotient, EntriesAssumption
  <2>2. w \div (Entries * Entries) = (w \div Entries) \div Entries
    BY QuotientOfQuotient, EntriesAssumption
  <2> QED BY <1>5, <2>1, <2>2
<1>7. u \div (Entries * Entries * Entries) = w \div (Entries * Entries * Entries)
  <2>1. Entries * Entries \in Nat \ {0}
    BY EntriesAssumption
  <2>2. u \div ((Entries * Entries) * Entries) = (u \div (Entries * Entries)) \div Entries
    BY <2>1, QuotientOfQuotient, EntriesAssumption
  <2>3. w \div ((Entries * Entries) * Entries) = (w \div (Entries * Entries)) \div Entries
    BY <2>1, QuotientOfQuotient, EntriesAssumption
  <2> QED BY <1>6, <2>2, <2>3
<1>8. Index(0, u) = Index(0, w) /\ Index(1, u) = Index(1, w) /\ Index(2, u) = Index(2, w)
  BY <1>5, <1>6, <1>7 DEF Index, Span
<1> QED BY <1>8 DEF HasPd, Pde, Pdpe, Pml4e

\* What HwConvertPointer finds.
Mapped(m, v) == HwConvertPointer(m, v) # Unmapped

\* A page is mapped by a present entry.
LEMMA MappedPages ==
    ASSUME NEW m, NEW v, Mapped(m, v)
    PROVE  IsBig(m, v) \/ (HasPt(m, v) /\ Pte(m, v).present)
  BY DEF Mapped, HwConvertPointer, Unmapped

\* The shortest range of mapped pages that is denied, if there were one: what is left
\* of it after its first table, or big page, would be a shorter one.
LEMMA MappedArePassed ==
    ASSUME NEW m
    PROVE  \A n \in Nat \ {0} : \A w \in Nat :
             (\A u \in w .. w + n - 1 : Mapped(m, u)) => CheckPages(m)[<<w, n>>]
<1> DEFINE Denied == {n \in Nat \ {0} : \E w \in Nat : /\ \A u \in w .. w + n - 1 : Mapped(m, u)
                                                      /\ ~CheckPages(m)[<<w, n>>]}
<1> SUFFICES ASSUME Denied # {} PROVE FALSE
  OBVIOUS
<1>1. PICK n \in Denied : \A k \in Denied : n <= k
  <2>1. Denied \in SUBSET Nat
    OBVIOUS
  <2> HIDE DEF Denied
  <2>2. Min(Denied) \in Denied /\ \A k \in Denied : Min(Denied) <= k
    BY <2>1, MinIn
  <2> QED BY <2>2
<1>2. PICK w \in Nat : /\ \A u \in w .. w + n - 1 : Mapped(m, u)
                       /\ ~CheckPages(m)[<<w, n>>]
  BY DEF Denied
<1>3. n \in Nat \ {0}
  BY DEF Denied
<1>4. \A k \in Nat \ {0} : \A x \in Nat :
        k < n /\ (\A u \in x .. x + k - 1 : Mapped(m, u)) => CheckPages(m)[<<x, k>>]
  <2> SUFFICES ASSUME NEW k \in Nat \ {0}, NEW x \in Nat, k < n, ~CheckPages(m)[<<x, k>>],
                      \A u \in x .. x + k - 1 : Mapped(m, u)
               PROVE  FALSE
    BY Zenon
  <2>1. k \in Denied
    BY DEF Denied
  <2> QED BY <1>1, <1>3, <2>1
<1> HIDE DEF Denied
<1>5. Mapped(m, w)
  BY <1>2, <1>3
<1>6. CASE IsBig(m, w)
  <2>1. n <= Entries \/ CheckPages(m)[<<w + Entries, n - Entries>>] => CheckPages(m)[<<w, n>>]
    BY <1>3, <1>6, CheckPagesEquation
  <2>2. n > Entries
    BY <1>2, <1>3, <2>1, EntriesAssumption
  <2>3. n - Entries \in Nat \ {0} /\ w + Entries \in Nat /\ n - Entries < n
    BY <1>3, <2>2, EntriesAssumption
  <2>4. \A u \in w + Entries .. w + Entries + (n - Entries) - 1 : Mapped(m, u)
    BY <1>2, <1>3, <2>2, EntriesAssumption
  <2>5. CheckPages(m)[<<w + Entries, n - Entries>>]
    BY <1>4, <2>3, <2>4
  <2> QED BY <1>2, <2>1, <2>5
<1>7. CASE ~IsBig(m, w)
  <2> DEFINE run == Min({n, Entries - Index(3, w)})
  <2>1. run \in 1 .. n /\ run <= Entries - (w % Entries)
    <3>1. Index(3, w) = w % Entries /\ w % Entries \in 0 .. Entries - 1
      BY IndexBound
    <3>2. PICK a \in Nat \ {0} : a = Entries - Index(3, w) /\ a = Entries - (w % Entries)
      BY <3>1, EntriesAssumption
    <3> QED BY <1>3, <3>2, MinOfTwo
  <2>2. HasPt(m, w) /\ Pte(m, w).present
    BY <1>5, <1>7, MappedPages
  <2>3. ASSUME NEW u \in w .. w + run - 1
        PROVE  Pte(m, u).present
    <3>1. u \in Nat /\ w <= u /\ u < w + (Entries - (w % Entries)) /\ Mapped(m, u)
      BY <1>2, <1>3, <2>1, IndexBound, EntriesAssumption
    <3>2. HasPd(m, u) = HasPd(m, w) /\ Pde(m, u) = Pde(m, w)
      BY <3>1, SameTable
    <3>3. ~IsBig(m, u)
      BY <1>7, <3>2 DEF IsBig
    <3> QED BY <3>1, <3>3, MappedPages
  <2>4. CheckPages(m)[<<w, n>>] <=>
          n = run \/ CheckPages(m)[<<w + run, n - run>>]
    <3>1. CheckPages(m)[<<w, n>>] <=>
            \/ IsBig(m, w) /\ (n <= Entries \/ CheckPages(m)[<<w + Entries, n - Entries>>])
            \/ /\ HasPt(m, w)
               /\ \A u \in w .. w + run - 1 : Pte(m, u).present
               /\ n = run \/ CheckPages(m)[<<w + run, n - run>>]
      BY <1>3, CheckPagesEquation
    <3> QED BY <1>7, <2>2, <2>3, <3>1
  <2> HIDE DEF run
  <2>5. n # run => CheckPages(m)[<<w + run, n - run>>]
    <3> SUFFICES ASSUME n # run PROVE CheckPages(m)[<<w + run, n - run>>]
      OBVIOUS
    <3>1. n - run \in Nat \ {0} /\ w + run \in Nat /\ n - run < n
      BY <1>3, <2>1
    <3>2. \A u \in w + run .. w + run + (n - run) - 1 : Mapped(m, u)
      BY <1>2, <1>3, <2>1
    <3> QED BY <1>4, <3>1, <3>2
  <2> QED BY <1>2, <2>4, <2>5
<1> QED BY <1>6, <1>7

\* A range without a page.
LEMMA EmptyIsPassed == ASSUME NEW m, NEW v \in Nat, Mapped(m, v) PROVE CheckPages(m)[<<v, 0>>]
<1> DEFINE run == Min({0, Entries - Index(3, v)})
<1>1. run = 0
  <2>1. PICK a \in Nat \ {0} : a = Entries - Index(3, v)
    BY IndexBound, EntriesAssumption
  <2> QED BY <2>1, MinOfTwo
<1>2. CheckPages(m)[<<v, 0>>] <=>
        \/ IsBig(m, v) /\ (0 <= Entries \/ CheckPages(m)[<<v + Entries, 0 - Entries>>])
        \/ /\ HasPt(m, v)
           /\ \A u \in v .. v + run - 1 : Pte(m, u).present
           /\ 0 = run \/ CheckPages(m)[<<v + run, 0 - run>>]
  BY CheckPagesEquation
<1> HIDE DEF run
<1>3. IsBig(m, v) \/ HasPt(m, v)
  BY MappedPages
<1> QED BY <1>1, <1>2, <1>3, EntriesAssumption

\* A page by itself is passed for its own sake.
LEMMA OnePageChecked ==
    ASSUME NEW m, NEW v \in Nat
    PROVE  CheckPages(m)[<<v, 1>>] => IsBig(m, v) \/ (HasPt(m, v) /\ Pte(m, v).present)
<1> DEFINE run == Min({1, Entries - Index(3, v)})
<1>1. run = 1
  <2>1. PICK a \in Nat \ {0} : a = Entries - Index(3, v)
    BY IndexBound, EntriesAssumption
  <2> QED BY <2>1, MinOfTwo
<1>2. CheckPages(m)[<<v, 1>>] <=>
        \/ IsBig(m, v) /\ (1 <= Entries \/ CheckPages(m)[<<v + Entries, 1 - Entries>>])
        \/ /\ HasPt(m, v)
           /\ \A u \in v .. v + run - 1 : Pte(m, u).present
           /\ 1 = run \/ CheckPages(m)[<<v + run, 1 - run>>]
  BY CheckPagesEquation
<1> HIDE DEF run
<1> QED BY <1>1, <1>2

\* Whatever the page tables hold while a mapping is under way, a reader that takes no
\* lock is never told that memory in use is not there, for a range of any length.
THEOREM MappedNeverDenied ==
    \A m : /\ \A v \in Nat, offset \in Nat, bytes \in Nat :
                bytes >= PageBytes /\ (\A u \in v .. v + bytes \div PageBytes : Mapped(m, u))
                   => KeCheckMemoryAccess(m, v, offset, bytes)
           /\ \A v \in Nat, offset \in Nat, bytes \in Nat :
                Mapped(m, v) /\ bytes < PageBytes => KeCheckMemoryAccess(m, v, offset, bytes)
<1> SUFFICES ASSUME NEW m, NEW v \in Nat, NEW offset \in Nat, NEW bytes \in Nat
             PROVE  /\ bytes >= PageBytes /\ (\A u \in v .. v + bytes \div PageBytes : Mapped(m, u))
                         => KeCheckMemoryAccess(m, v, offset, bytes)
                    /\ Mapped(m, v) /\ bytes < PageBytes => KeCheckMemoryAccess(m, v, offset, bytes)
  OBVIOUS
<1>1. PICK b \in Nat, k \in {0, 1} :
         /\ b = bytes \div PageBytes /\ (bytes >= PageBytes => b >= 1) /\ (bytes < PageBytes => b = 0)
         /\ KeCheckMemoryAccess(m, v, offset, bytes) = CheckPages(m)[<<v, b + k>>]
  <2>1. bytes \div PageBytes \in Nat /\ (bytes >= PageBytes => bytes \div PageBytes >= 1)
        /\ (bytes < PageBytes => bytes \div PageBytes = 0)
    BY DEF PageBytes
  <2> QED BY <2>1 DEF KeCheckMemoryAccess
<1>2. ASSUME bytes >= PageBytes, \A u \in v .. v + bytes \div PageBytes : Mapped(m, u)
      PROVE  KeCheckMemoryAccess(m, v, offset, bytes)
  <2>1. b + k \in Nat \ {0} /\ \A u \in v .. v + (b + k) - 1 : Mapped(m, u)
    BY <1>1, <1>2
  <2> QED BY <1>1, <2>1, MappedArePassed
<1>3. ASSUME bytes < PageBytes, Mapped(m, v)
      PROVE  KeCheckMemoryAccess(m, v, offset, bytes)
  <2>1. CASE k = 1
    <3>1. 1 \in Nat \ {0} /\ \A u \in v .. v + 1 - 1 : Mapped(m, u)
      BY <1>3
    <3>2. CheckPages(m)[<<v, 1>>]
      BY <3>1, MappedArePassed
    <3> QED BY <1>1, <1>3, <2>1, <3>2
  <2>2. CASE k = 0
    <3>1. CheckPages(m)[<<v, 0>>]
      BY <1>3, EmptyIsPassed
    <3>2. b + k = 0
      BY <1>1, <1>3, <2>2
    <3> QED BY <1>1, <3>1, <3>2
  <2> QED BY <2>1, <2>2
<1> QED BY <1>2, <1>3

\* No page the properties look at leads to physical page 0, the NULL of
\* HwConvertPointer.
NoneLeadsToNull ==
    \A v \in Watched : /\ IsBig(memory, v) => Pde(memory, v).addr + (v % Entries) # 0
                       /\ HasPt(memory, v) /\ Pte(memory, v).present => Pte(memory, v).addr # 0

\* KeCheckMemoryAccess agrees with HwConvertPointer in every state that maps nothing to
\* page 0, for any size of the tables and any calls.
THEOREM ReadersAgree == PagingSpec => [](NoneLeadsToNull => AccessAgrees)
<1>1. ASSUME NoneLeadsToNull PROVE AccessAgrees
  <2> SUFFICES ASSUME NEW v \in Watched
               PROVE  /\ KeCheckMemoryAccess(memory, v, 0, PageBytes) <=> Mapped(memory, v)
                      /\ \A offset \in {0, 8, 512} : \A bytes \in {512, 2 * PageBytes} :
                            (\A u \in {v, v + 1, v + 2} : Mapped(memory, u))
                               => KeCheckMemoryAccess(memory, v, offset, bytes)
    BY DEF AccessAgrees, Mapped
  <2>1. v \in Nat
    BY WatchedAssumption
  <2>2. KeCheckMemoryAccess(memory, v, 0, PageBytes) = CheckPages(memory)[<<v, 1>>]
    BY DEF KeCheckMemoryAccess, PageBytes
  <2>3. Mapped(memory, v) => CheckPages(memory)[<<v, 1>>]
    <3>1. 1 \in Nat \ {0} /\ v .. v + 1 - 1 = {v}
      BY <2>1
    <3> QED BY <2>1, <3>1, MappedArePassed
  <2>4. CheckPages(memory)[<<v, 1>>] => Mapped(memory, v)
    <3>1. CheckPages(memory)[<<v, 1>>] =>
            IsBig(memory, v) \/ (HasPt(memory, v) /\ Pte(memory, v).present)
      BY <2>1, OnePageChecked
    <3>2. IsBig(memory, v) => Mapped(memory, v)
      BY <1>1 DEF NoneLeadsToNull, Mapped, HwConvertPointer, Unmapped
    <3>3. ~IsBig(memory, v) /\ HasPt(memory, v) /\ Pte(memory, v).present => Mapped(memory, v)
      BY <1>1 DEF NoneLeadsToNull, Mapped, HwConvertPointer, Unmapped
    <3> QED BY <3>1, <3>2, <3>3
  <2>5. ASSUME NEW offset \in {0, 8, 512}, NEW bytes \in {512, 2 * PageBytes},
               \A u \in {v, v + 1, v + 2} : Mapped(memory, u)
        PROVE  KeCheckMemoryAccess(memory, v, offset, bytes)
    <3>1. offset \in Nat /\ bytes \in Nat
      BY DEF PageBytes
    <3>2. CASE bytes = 512
      <4>1. bytes < PageBytes
        BY <3>2 DEF PageBytes
      <4> QED BY <2>1, <2>5, <3>1, <4>1, MappedNeverDenied
    <3>3. CASE bytes = 2 * PageBytes
      <4>1. bytes >= PageBytes /\ v .. v + bytes \div PageBytes = {v, v + 1, v + 2}
        BY <2>1, <3>3 DEF PageBytes
      <4> QED BY <2>1, <2>5, <3>1, <4>1, MappedNeverDenied
    <3> QED BY <3>2, <3>3
  <2> QED BY <2>2, <2>3, <2>4, <2>5
<1> QED BY <1>1, PTL
=================================================================================
