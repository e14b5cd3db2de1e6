-------------------------------- MODULE Paging --------------------------------
(* The page tables of an address space (src/nos/processor/paging.c) and the   *)
(* two calls that fill them: KeMapVirtualMemory and MmShareMemory.            *)
(*                                                                            *)
(* Four levels of tables in physical frames, Entries entries each (512 in the *)
(* program).  Addresses are counted in pages of 4KB.  Threads of any          *)
(* processor map memory of one process under the control bit                  *)
(* PROCESS_CONTROL_MANAGE_ADDRESS_SPACE; readers walk the tables without it.  *)
(* A frame holds junk until it is cleared.                                    *)
EXTENDS Integers, Sequences, FiniteSetsExt

CONSTANTS Threads,
          Entries,         \* entries of a table
          NumFrames,       \* frames for tables
          FirstFree,       \* the first of them that may be free at the start
          Watched,         \* the virtual pages the properties look at
          Program,         \* Program[t]: the calls of thread t, in order
          VmSearchStart,   \* the part of the address space KeFind... searches
          VmSearchEnd,
          Nobody

\* A control bit that nobody holds is no thread's.
ASSUME NobodyAssumption == Nobody \notin Threads
ASSUME EntriesAssumption == Entries \in Nat \ {0}
ASSUME WatchedAssumption == Watched \subseteq Nat

VARIABLES memory,    \* memory[f]: the entries of frame f
          free,      \* the frame MmAllocatePhysicalMemory hands out next
          holder,    \* who holds the control bit, or Nobody
          calls,     \* calls[t]: the calls thread t has still to make
          pc,        \* pc[t]: where thread t is
          asked,     \* asked[t]: the arguments of HwMapVirtualMemory, or Nobody
          va, pa,    \* VirtualAddress, PhysicalAddress and NumPages of
          left,      \*   HwMapVirtualMemory, in pages of 4KB but for left,
                     \*   which counts pages of the size asked for
          level,     \* 0 .. 3: the table it looks at is the Pml4, Pdp, Pd, Pt
          table      \* the frame of that table

regs == <<va, pa, left, level, table>>
pagingVars == <<memory, free, holder, calls, pc, asked, regs>>

Root == 0
Unmapped == 0     \* the NULL of HwConvertPointer
Frames == 0 .. NumFrames - 1
EntryNumbers == 0 .. Entries - 1

Absent == [present |-> FALSE, size |-> FALSE, addr |-> 0]
Junk == [present |-> TRUE, size |-> FALSE, addr |-> 1]

\* Pages under one entry of a table, and the index of page v in it.
Span(l) == CASE l = 0 -> Entries * Entries * Entries
             [] l = 1 -> Entries * Entries
             [] l = 2 -> Entries
             [] l = 3 -> 1
Index(l, v) == (v \div Span(l)) % Entries

LastLevel(big) == IF big THEN 2 ELSE 3
Unit(big) == Span(LastLevel(big))

-------------------------------------------------------------------------------
(* Walks of the tables m.                                                     *)

Pml4e(m, v) == m[Root][Index(0, v)]
Pdpe(m, v) == m[Pml4e(m, v).addr][Index(1, v)]
Pde(m, v) == m[Pdpe(m, v).addr][Index(2, v)]
Pte(m, v) == m[Pde(m, v).addr][Index(3, v)]

HasPd(m, v) == Pml4e(m, v).present /\ Pdpe(m, v).present
HasPt(m, v) == HasPd(m, v) /\ Pde(m, v).present /\ ~Pde(m, v).size
IsBig(m, v) == HasPd(m, v) /\ Pde(m, v).present /\ Pde(m, v).size

HwConvertPointer(m, v) ==
    CASE IsBig(m, v)                       -> Pde(m, v).addr + (v % Entries)
      [] HasPt(m, v) /\ Pte(m, v).present  -> Pte(m, v).addr
      [] OTHER                             -> Unmapped

\* Mutant: big pages are taken for tables.
KeCheckSmallPages(m, v, offset, bytes) ==
    LET check[w \in Nat, n \in Nat] ==
            LET run == Min({n, Entries - Index(3, w)})
            IN  /\ HasPt(m, w)
                /\ \A u \in w .. w + run - 1 : Pte(m, u).present
                /\ n = run \/ check[w + run, n - run]
    IN  check[v, bytes \div 4096]

\* The test of a range of n pages from page w on.  A big page is passed as a
\* whole, wherever in it the test begins.
Ranges == Nat \X Nat
CheckPages(m) ==
    LET check[r \in Ranges] ==
            LET w == r[1]
                n == r[2]
                run == Min({n, Entries - Index(3, w)})
            IN  \/ IsBig(m, w) /\ (n <= Entries \/ check[<<w + Entries, n - Entries>>])
                \/ /\ HasPt(m, w)
                   /\ \A u \in w .. w + run - 1 : Pte(m, u).present
                   /\ n = run \/ check[<<w + run, n - run>>]
    IN  check

\* For bytes bytes at the byte offset of page v.  Only the low nine bits of the
\* offset count for a page; the whole-page test sees none of a range shorter
\* than a page that is aligned.
PageBytes == 4096
KeCheckMemoryAccess(m, v, offset, bytes) ==
    CheckPages(m)[<<v, bytes \div PageBytes + (IF offset % 512 # 0 THEN 1 ELSE 0)>>]

\* The first entry on the way to page v that is not present: what it spans is
\* unused.
AbsentLevel(m, v) == CASE ~Pml4e(m, v).present -> 0
                       [] Pml4e(m, v).present /\ ~Pdpe(m, v).present -> 1
                       [] OTHER -> 2

\* Mutant: the address is not aligned backward first.
AfterUnaligned(l, v) == v + Span(l)

\* Where the search goes on after the entry of level l for page v.  The size of
\* a Pml4 entry's range does not fit an int: it wraps to 0, and so does the
\* address.
After(l, v) == IF l = 0 THEN 0 ELSE (v \div Span(l) + 1) * Span(l)

AlignForward(v, a) == ((v + a - 1) \div a) * a

\* HwFindAvailableAddressSpace: pages free pages from VmSearchStart on, or 0.
HwFindAvailableAddressSpace(m, pages, big) ==
    LET num == IF big THEN pages * Entries ELSE pages
        \* From page u on with n pages to go, of a range that begins at ret
        \* (0: none yet); after a used page the end is not tested.
        search[u \in Nat, n \in Nat, ret \in Nat, test \in BOOLEAN] ==
            LET w == IF big THEN AlignForward(u, Entries) ELSE u
                start == IF ret = 0 THEN w ELSE ret
                l == AbsentLevel(m, w)
                rest == n - Min({n, Span(l) - (w % Span(l))})
                run == Min({n, Entries - Index(3, w)})
                used == {x \in w .. w + run - 1 : Pte(m, x).present}
            IN  CASE test /\ u >= VmSearchEnd -> ret
                  [] (~test \/ u < VmSearchEnd) /\ IsBig(m, w) ->
                        search[After(2, w), num, 0, TRUE]
                  [] (~test \/ u < VmSearchEnd) /\ ~IsBig(m, w) /\ ~HasPt(m, w) ->
                        IF rest = 0 THEN start
                        ELSE search[After(l, w), rest, start, TRUE]
                  [] (~test \/ u < VmSearchEnd) /\ HasPt(m, w) ->
                        CASE used # {} -> search[Min(used) + 1, num, 0, FALSE]
                          [] used = {} /\ w + run >= VmSearchEnd -> 0
                          [] used = {} /\ w + run < VmSearchEnd ->
                                IF n = run THEN start
                                ELSE search[w + run, n - run, start, TRUE]
    IN  IF pages = 0 \/ VmSearchEnd <= VmSearchStart THEN 0
        ELSE search[VmSearchStart, num, 0, TRUE]

-------------------------------------------------------------------------------
(* HwMapVirtualMemory, a step per table looked at.                            *)

Entry(t) == memory[table[t]][Index(level[t], va[t])]
SetEntry(t, e) == memory' = [memory EXCEPT ![table[t]][Index(level[t], va[t])] = e]

\* The arguments of a mapping: size pages of 4KB.
Request(virt, phys, pages, big) ==
    [virt |-> virt, phys |-> phys, size |-> pages * Unit(big), big |-> big]

StartMap(t, virt, phys, pages, big) ==
    /\ asked' = [asked EXCEPT ![t] = Request(virt, phys, pages, big)]
    /\ va' = [va EXCEPT ![t] = virt]
    /\ pa' = [pa EXCEPT ![t] = phys]
    /\ left' = [left EXCEPT ![t] = pages]
    /\ level' = [level EXCEPT ![t] = 0]
    /\ table' = [table EXCEPT ![t] = Root]

Descend(t, frame) == /\ table' = [table EXCEPT ![t] = frame]
                     /\ level' = [level EXCEPT ![t] = @ + 1]

\* The next table is there.
Walk(t) ==
    /\ pc[t] = "walk"
    /\ level[t] < LastLevel(asked[t].big)
    /\ Entry(t).present
    /\ Descend(t, Entry(t).addr)
    /\ UNCHANGED <<memory, free, holder, calls, pc, asked, va, pa, left>>

\* It is not: MmAllocatePhysicalMemory writes the address of a frame to the
\* entry, which is not present yet.  Frames are handed out in ascending order.
Allocate(t) ==
    /\ pc[t] = "walk"
    /\ level[t] < LastLevel(asked[t].big)
    /\ ~Entry(t).present
    /\ free \in Frames
    /\ SetEntry(t, [Absent EXCEPT !.addr = free])
    /\ free' = free + 1
    /\ pc' = [pc EXCEPT ![t] = "clear"]
    /\ UNCHANGED <<holder, calls, asked, regs>>

\* No frame is left: the processor halts.
Halt(t) ==
    /\ pc[t] = "walk"
    /\ level[t] < LastLevel(asked[t].big)
    /\ ~Entry(t).present
    /\ free \notin Frames
    /\ pc' = [pc EXCEPT ![t] = "halted"]
    /\ UNCHANGED <<memory, free, holder, calls, asked, regs>>

\* _Memset128A_32 clears two entries more often than its count says, into the
\* frames that follow.
Memset128(frame, count) ==
    memory' = [f \in Frames |-> [i \in EntryNumbers |->
                  IF (f - frame) * Entries + i \in 0 .. 2 * (count + 1) - 1
                  THEN Absent ELSE memory[f][i]]]

\* Mutant: as if all entries that follow were always filled.
ClearPrefix(t) == 2 * Index(3, va[t]) + 1

\* A page table is cleared up to the first entry to be filled only, if the
\* entries from there on will all be.
ClearCount(t) == IF level[t] = 2 /\ left[t] >= Entries - Index(3, va[t])
                 THEN 2 * Index(3, va[t]) + 1
                 ELSE Entries \div 2

Clear(t) ==
    /\ pc[t] = "clear"
    /\ Memset128(Entry(t).addr, ClearCount(t))
    /\ pc' = [pc EXCEPT ![t] = "link"]
    /\ UNCHANGED <<free, holder, calls, asked, regs>>

\* The entry is made present: readers find the table now.
Link(t) ==
    /\ pc[t] = "link"
    /\ SetEntry(t, [Entry(t) EXCEPT !.present = TRUE])
    /\ Descend(t, Entry(t).addr)
    /\ pc' = [pc EXCEPT ![t] = "walk"]
    /\ UNCHANGED <<free, holder, calls, asked, va, pa, left>>

\* The pages that are left are entered up to the end of the table.  The end of
\* the request is noticed before the next entry, thus not at the end of a
\* table: the walk then starts once more, and may add tables with no page.
Fill(t) ==
    LET big == asked[t].big
        first == Index(level[t], va[t])
        run == Min({left[t], Entries - first})
        entry(i) == [present |-> TRUE, size |-> big,
                     addr |-> pa[t] + (i - first) * Unit(big)]
    IN  /\ pc[t] = "walk"
        /\ level[t] = LastLevel(big)
        /\ memory' = [memory EXCEPT ![table[t]] =
                         [i \in EntryNumbers |-> IF i \in first .. first + run - 1
                                          THEN entry(i) ELSE @[i]]]
        /\ left' = [left EXCEPT ![t] = @ - run]
        /\ va' = [va EXCEPT ![t] = @ + run * Unit(big)]
        /\ pa' = [pa EXCEPT ![t] = @ + run * Unit(big)]
        /\ level' = [level EXCEPT ![t] = 0]
        /\ table' = [table EXCEPT ![t] = Root]
        /\ pc' = [pc EXCEPT ![t] = IF run = left[t] /\ first + run < Entries
                                   THEN "release" ELSE "walk"]
        /\ UNCHANGED <<free, holder, calls, asked>>

-------------------------------------------------------------------------------
(* The calls.                                                                 *)

\* The next call of thread t is to op, and t acquires the control bit for it.
Acquire(t, op) == /\ pc[t] = "idle"
                  /\ calls[t] # <<>>
                  /\ Head(calls[t]).op = op
                  /\ holder = Nobody
                  /\ holder' = t

\* HwMapVirtualMemory maps large pages at multiples of their size only.
Misaligned(virt, phys, big) == big /\ (virt % Entries # 0 \/ phys % Entries # 0)

KeMapVirtualMemory(t) ==
    LET c == Head(calls[t])
    IN  /\ Acquire(t, "KeMapVirtualMemory")
        /\ IF Misaligned(c.virt, c.phys, c.big)
           THEN /\ pc' = [pc EXCEPT ![t] = "release"]
                /\ UNCHANGED <<asked, regs>>
           ELSE /\ pc' = [pc EXCEPT ![t] = "walk"]
                /\ StartMap(t, c.virt, c.phys, c.pages, c.big)
        /\ calls' = [calls EXCEPT ![t] = Tail(@)]
        /\ UNCHANGED <<memory, free>>

\* The search for a range to share in returns with the control bit held.
KeFindAvailableAddressSpace(t) ==
    /\ Acquire(t, "MmShareMemory")
    /\ va' = [va EXCEPT ![t] =
                 HwFindAvailableAddressSpace(memory, Head(calls[t]).pages, Head(calls[t]).big)]
    /\ pc' = [pc EXCEPT ![t] = "share"]
    /\ UNCHANGED <<memory, free, calls, asked, pa, left, level, table>>

\* The physical page of from in the source, here the same process, is mapped in
\* the range found.  Without one the call returns STATUS_OUT_OF_MEMORY and does
\* not release the control bit.  When HwMapVirtualMemory refuses the physical page
\* for its alignment the call halts, with the control bit held.
MmShareMemory(t) ==
    LET c == Head(calls[t])
        phys == HwConvertPointer(memory, c.from)
    IN  /\ pc[t] = "share"
        /\ \/ /\ va[t] = 0
              /\ pc' = [pc EXCEPT ![t] = "idle"]
              /\ UNCHANGED <<asked, regs>>
           \/ /\ va[t] # 0 /\ Misaligned(va[t], phys, c.big)
              /\ pc' = [pc EXCEPT ![t] = "halted"]
              /\ UNCHANGED <<asked, regs>>
           \/ /\ va[t] # 0 /\ ~Misaligned(va[t], phys, c.big)
              /\ pc' = [pc EXCEPT ![t] = "walk"]
              /\ StartMap(t, va[t], phys, c.pages, c.big)
        /\ calls' = [calls EXCEPT ![t] = Tail(@)]
        /\ UNCHANGED <<memory, free, holder>>

Release(t) ==
    /\ pc[t] = "release"
    /\ holder' = Nobody
    /\ asked' = [asked EXCEPT ![t] = Nobody]
    /\ pc' = [pc EXCEPT ![t] = "idle"]
    /\ UNCHANGED <<memory, free, calls, regs>>

-------------------------------------------------------------------------------

PagingInit ==
    /\ memory = [f \in Frames |-> [i \in EntryNumbers |-> IF f = Root THEN Absent ELSE Junk]]
    /\ free \in FirstFree
    /\ holder = Nobody
    /\ calls = Program
    /\ pc = [t \in Threads |-> "idle"]
    /\ asked = [t \in Threads |-> Nobody]
    /\ va = [t \in Threads |-> 0]
    /\ pa = [t \in Threads |-> 0]
    /\ left = [t \in Threads |-> 0]
    /\ level = [t \in Threads |-> 0]
    /\ table = [t \in Threads |-> Root]

PagingNext == \E t \in Threads :
            \/ KeMapVirtualMemory(t) \/ KeFindAvailableAddressSpace(t)
            \/ MmShareMemory(t) \/ Release(t)
            \/ Walk(t) \/ Allocate(t) \/ Halt(t) \/ Clear(t) \/ Link(t) \/ Fill(t)

PagingSpec == PagingInit /\ [][PagingNext]_pagingVars

-------------------------------------------------------------------------------
(* Properties.                                                                *)

Translation == [v \in Watched |-> HwConvertPointer(memory, v)]

\* The tables implement AddressSpace: whatever the walk allocates, clears and
\* fills, at every moment a page outside the request leads where it did, and on
\* return those of the request lead where they were asked to
\* (HwMapVirtualMemory, paging.c:97-196).
Promise == INSTANCE AddressSpace WITH space <- Translation
MappingPromise == Promise!Spec

\* MmShareMemory gives away no page that is mapped: what the search found free
\* still is when the mapping begins (paging.c:455-605, virtmemold.c:129-136).
SharesFreePages ==
    [][\A t \in Threads : \A v \in Watched :
          pc[t] = "share" /\ pc'[t] = "walk"
          /\ v \in asked'[t].virt .. asked'[t].virt + asked'[t].size - 1
             => HwConvertPointer(memory, v) = Unmapped]_pagingVars

\* A reader that takes no lock is never told that memory in use is not there,
\* which is how KeThreadExists and KeProcessExists would reject an object, and
\* for a page asked for by itself the answer is exact (KeCheckMemoryAccess,
\* KeGetProcessorById).
AccessAgrees ==
    \A v \in Watched :
        /\ KeCheckMemoryAccess(memory, v, 0, PageBytes) <=> HwConvertPointer(memory, v) # Unmapped
        /\ \A offset \in {0, 8, 512} : \A bytes \in {512, 2 * PageBytes} :
              (\A u \in {v, v + 1, v + 2} : HwConvertPointer(memory, u) # Unmapped)
                 => KeCheckMemoryAccess(memory, v, offset, bytes)
===============================================================================
