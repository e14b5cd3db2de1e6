----------------------------- MODULE KernelHeap -----------------------------
(***************************************************************************)
(* The kernel's pool allocator, the only implementation behind             *)
(* KlAllocatePool (src/lib/cruntime/hmblk.c, src/src/nos/mm/heap.c).       *)
(* Memory is counted in units of 16 bytes.  A block is a header of one     *)
(* unit and the memory the caller gets; free blocks of equal length form a *)
(* list, and the block taken last from a list is cut from its front.       *)
(* Nothing is ever freed: oHmbFree returns FALSE.  The linked lists are    *)
(* sequences here: what a caller writes into a block it shares with a list *)
(* is left out.                                                            *)
(***************************************************************************)
EXTENDS Integers, Sequences, SequencesExt, FiniteSetsExt

CONSTANTS
  PageUnits,   \* units of a page, 0x100
  MaxPages     \* bound: pages the heap takes

VARIABLES
  initialBlock, initialLength,  \* the block being cut, as it was listed
  currentBlock, currentLength,  \* what is left of it
  heapArray,                    \* the free blocks of each length
  nextPage,                     \* the first unit no page of the heap covers
  used                          \* the blocks handed out

vars == <<initialBlock, initialLength, currentBlock, currentLength, heapArray, nextPage, used>>

Lengths == 0 .. PageUnits - 1
NoBlock == -1

\* oHmbRemove is only called with the first block of a list.
oHmbRemove(lists, block, length) == [lists EXCEPT ![length] = Remove(@, block)]
oHmbSet(lists, block, length)    == [lists EXCEPT ![length] = Append(@, block)]

\* The lists after the block being cut is put back under its new length.
Relisted ==
  IF initialBlock = currentBlock THEN heapArray
  ELSE oHmbSet(oHmbRemove(heapArray, initialBlock, initialLength),
               currentBlock, currentLength)

\* The first block of the longest length that has one.
Listed == {n \in Lengths : Relisted[n] # <<>>}
Longest == Max(Listed)

Hand(block, length) == used' = used \cup {[start |-> block + 1, length |-> length]}

\* A block is cut from the front of one with room.
Cut(block, room, target, length) ==
  /\ currentBlock' = block + target
  /\ currentLength' = room - target
  /\ Hand(block, length)
  /\ UNCHANGED nextPage

\* Pages are requested; what the block does not need of them is listed, at
\* the address the code gives it.
TakePages(lists, target, length) ==
  LET pages == (target + PageUnits - 1) \div PageUnits
      rest  == (PageUnits - (target % PageUnits)) % PageUnits
  IN  /\ nextPage + pages * PageUnits <= MaxPages * PageUnits
      /\ heapArray' = IF rest = 0 THEN lists ELSE oHmbSet(lists, nextPage + 1, rest)
      /\ nextPage' = nextPage + pages * PageUnits
      /\ Hand(nextPage, length)

oHmbAllocate(length) ==
  LET target == length + 1 IN
  IF target < PageUnits /\ currentLength >= target
  THEN /\ Cut(currentBlock, currentLength, target, length)
       /\ UNCHANGED <<initialBlock, initialLength, heapArray>>
  ELSE IF target >= PageUnits
  THEN /\ TakePages(heapArray, target, length)
       /\ UNCHANGED <<initialBlock, initialLength, currentBlock, currentLength>>
  ELSE IF Listed = {}
  THEN /\ TakePages(Relisted, target, length)
       /\ UNCHANGED <<initialBlock, initialLength, currentBlock, currentLength>>
  ELSE /\ initialBlock' = Head(Relisted[Longest])
       /\ initialLength' = Longest
       /\ IF Longest >= target
          THEN /\ Cut(Head(Relisted[Longest]), Longest, target, length)
               /\ heapArray' = Relisted
          ELSE /\ TakePages(Relisted, target, length)
               /\ currentBlock' = Head(Relisted[Longest])
               /\ currentLength' = Longest

Init ==
  /\ initialBlock = NoBlock /\ initialLength = 0
  /\ currentBlock = NoBlock /\ currentLength = 0
  /\ heapArray = [n \in Lengths |-> <<>>]
  /\ nextPage = 0 /\ used = {}

Next == \E length \in 1 .. 2 * PageUnits : oHmbAllocate(length)

Spec == Init /\ [][Next]_vars
-----------------------------------------------------------------------------
Units(b) == b.start .. b.start + b.length - 1

\* hmblk.c:65 says of a block that needs pages "Allocate pages and fill the
\* rest": the memory that is listed as free is what the block does not use.
RestIsUnused ==
  \A n \in Lengths : \A i \in DOMAIN heapArray[n] :
    heapArray[n][i] # initialBlock =>
      \A b \in used : Units(b) \cap (heapArray[n][i] .. heapArray[n][i] + n - 1) = {}
=============================================================================
