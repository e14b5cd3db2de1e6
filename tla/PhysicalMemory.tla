--------------------------- MODULE PhysicalMemory ---------------------------
(***************************************************************************)
(* The physical memory of the machine on its way from the firmware to the  *)
(* page allocator of the kernel.  The boot loader copies the firmware's    *)
(* map into a table of memory descriptors and takes single pages from it   *)
(* for its page tables (src/src/boot/efi/amd64/mm.c, boot.c); the kernel   *)
(* inherits the table, allocates the buffer of its page allocator from it  *)
(* and hands every page that is still free to that allocator, cut into     *)
(* huge, large and small pages (src/src/nos/mm/preosmem.c, mm.c,           *)
(* meminit.c).  All of it runs on the boot processor with interrupts off,  *)
(* so that a step here is a whole call.                                    *)
(*                                                                         *)
(* Addresses are page numbers.  The table is one list of Word groups of    *)
(* Word descriptors; a descriptor is named by its slot, its position in    *)
(* the order in which both programs scan the table.                        *)
(***************************************************************************)
EXTENDS Integers, Sequences, FiniteSets, FiniteSetsExt

CONSTANTS
  Word,          \* bits of a UINT64 mask, 64
  IntBits,       \* bits of the int in the loader's "1 << y", 32
  PageModulus,   \* 2^64, where the UINT64 page count wraps
  Large, Huge,   \* pages of a large page (2MB) and of a huge page (1GB)
  LowLimit,      \* the page at 4GB
  LevelLength,   \* 0x1FF, the longest run of huge pages the kernel accepts
  VmmPages,      \* pages of the page allocator's buffer
  MaxTables,     \* bound: pages the loader takes for its page tables
  FirmwareMaps   \* the memory maps the firmware may report

ASSUME WidthAssumption ==
  /\ Word \in Nat \ {0} /\ IntBits \in 1 .. Word /\ Word % IntBits = 0
  /\ PageModulus \in Nat \ {0}

ASSUME PageAssumption ==
  /\ Large \in Nat \ {0} /\ Huge \in Nat \ {0} /\ Huge % Large = 0
  /\ LowLimit \in Nat /\ LevelLength \in Nat /\ MaxTables \in Nat
  /\ VmmPages \in Nat \ {0}

VARIABLES
  firmware,      \* the firmware's map, a sequence of entries
  entry,         \* the next entry of it the loader copies
  map,           \* NosMemoryMap: [desc, present, full, created]
  tables,        \* the pages the loader took, in order
  vmmBuffer,     \* the pages of the page allocator's buffer
  phase,
  allocatedPages, totalPages,  \* NosInitData->AllocatedPagesCount, ->TotalPagesCount
  cursor,        \* the slot the kernel's walk has reached
  cmem, cmem2,   \* the part being cut and the part cut next
  pageNumber,    \* CurrentPageNumber, the next page header
  inserted       \* the runs given to VmmInsert

vars == <<firmware, entry, map, tables, vmmBuffer, phase, allocatedPages, totalPages,
          cursor, cmem, cmem2, pageNumber, inserted>>
walk == <<cursor, cmem, cmem2, pageNumber, inserted>>
counts == <<allocatedPages, totalPages>>

Pages(address, count) == address .. address + count - 1
MemoryTypes == {"EfiConventionalMemory", "EfiLoaderData", "Reserved"}

\* The firmware reports no page twice.
ASSUME MapAssumption ==
  \A m \in FirmwareMaps :
    /\ m \in Seq([start : Nat, pages : 1 .. PageModulus - 1, type : MemoryTypes])
    /\ \A i, j \in DOMAIN m :
         i # j => Pages(m[i].start, m[i].pages) \cap Pages(m[j].start, m[j].pages) = {}

\* The loader only names the first IntBits groups and descriptors of each: they hold
\* the map and its page tables, for which the first group has pages enough.
ASSUME RoomAssumption ==
  \A m \in FirmwareMaps :
    /\ Len(m) + MaxTables < IntBits * IntBits
    /\ Cardinality(UNION {Pages(m[i].start, m[i].pages) :
          i \in {j \in DOMAIN m : j <= IntBits /\ m[j].type = "EfiConventionalMemory"}}) > MaxTables

Groups == 0 .. Word - 1
Slots  == 0 .. Word * Word - 1
Slot(g, i)  == g * Word + i
GroupOf(s)  == s \div Word
SlotsOf(g)  == {Slot(g, i) : i \in 0 .. Word - 1}

None == [address |-> 0, pages |-> 0]
Empty == [address |-> 0, pages |-> 0, allocated |-> FALSE]

\* A slot nobody has written holds the zeroes of the static table.
Desc(m, s) == IF s \in DOMAIN m.desc THEN m.desc[s] ELSE Empty

\* The three fields of the descriptor in slot s are written.
Written(m, s, region) ==
  [m EXCEPT !.desc = [t \in DOMAIN @ \cup {s} |-> IF t = s THEN region ELSE @[t]]]
-----------------------------------------------------------------------------
(* The boot loader.                                                         *)

\* The bits of the 64-bit value "1 << i" with an int 1: the shift count wraps
\* at the width of int, and its sign bit is copied into the upper half.
IntShift(i) ==
  LET b == i % IntBits IN IF b = IntBits - 1 THEN b .. Word - 1 ELSE {b}

\* Slot s passes the loader's test "Present & (1 << y)".
Seen(m, s) ==
  \E b \in IntShift(s % Word) : Slot(GroupOf(s), b) \in m.present

\* The allocated descriptors that end where the new memory starts.
MmSourceEntry(m, address) ==
  {s \in Slots : /\ Seen(m, s) /\ Desc(m, s).allocated
                 /\ Desc(m, s).address + Desc(m, s).pages = address}

LoaderFull(m) == m.full = Groups

\* Mutant: free memory joins an allocated neighbour as well.
MergeAnything(m, address, pages, allocated) ==
  LET source == MmSourceEntry(m, address)
      g == Min(Groups \ m.full)
      s == Min(SlotsOf(g) \ m.present)
  IN  IF source # {} THEN [m EXCEPT !.desc[Min(source)].pages = @ + pages]
      ELSE [Written(m, s, [address |-> address, pages |-> pages, allocated |-> allocated])
              EXCEPT !.present = @ \cup {s}]

BlAllocateMemoryDescriptor(m, address, pages, allocated) ==
  LET source == MmSourceEntry(m, address)
      g == Min(Groups \ m.full)
      s == Min(SlotsOf(g) \ m.present)
      present == m.present \cup {Slot(g, b) : b \in IntShift(s % Word)}
  IN  IF allocated /\ source # {}
      THEN [m EXCEPT !.desc[Min(source)].pages = @ + pages]
      ELSE [Written(m, s, [address |-> address, pages |-> pages, allocated |-> allocated])
              EXCEPT !.present = present,
                     !.full = IF SlotsOf(g) \subseteq present
                              THEN @ \cup IntShift(g) ELSE @]

\* One entry of the firmware's map is copied; other kinds of memory are not.
CopyEntry ==
  /\ phase = "map" /\ entry \in DOMAIN firmware
  /\ LET e == firmware[entry] IN
     IF e.type = "Reserved" THEN /\ entry' = entry + 1
                                 /\ UNCHANGED <<map, phase>>
     ELSE IF LoaderFull(map) THEN /\ phase' = "halted"
                                  /\ UNCHANGED <<map, entry>>
     ELSE /\ map' = BlAllocateMemoryDescriptor(map, e.start, e.pages, e.type = "EfiLoaderData")
          /\ entry' = entry + 1
          /\ UNCHANGED phase
  /\ UNCHANGED <<firmware, tables, vmmBuffer, counts, walk>>

\* The map is copied; the loader builds its page tables.
MapCopied ==
  /\ phase = "map" /\ entry \notin DOMAIN firmware
  /\ phase' = "tables"
  /\ UNCHANGED <<firmware, entry, map, tables, vmmBuffer, counts, walk>>

FreeSeen(m) == {s \in Slots : Seen(m, s) /\ ~Desc(m, s).allocated}

\* The first page of the first free descriptor is cut off it.
TakePage(m, s) ==
  LET d == Desc(m, s)
      rest == [d EXCEPT !.address = @ + 1, !.pages = (@ - 1) % PageModulus]
      cut == Written(m, s, rest)
  IN  IF rest.pages # 0 THEN cut
      ELSE [cut EXCEPT !.present = @ \ {Slot(GroupOf(s), b) : b \in IntShift(s % Word)},
                       !.full = @ \ IntShift(GroupOf(s))]

BlAllocateOnePage ==
  /\ phase = "tables" /\ Len(tables) < MaxTables
  /\ IF FreeSeen(map) = {} THEN phase' = "halted" /\ UNCHANGED <<map, tables>>
     ELSE LET s == Min(FreeSeen(map))
              page == Desc(map, s).address
              cut == TakePage(map, s)
          IN  IF LoaderFull(cut) THEN phase' = "halted" /\ UNCHANGED <<map, tables>>
              ELSE /\ map' = BlAllocateMemoryDescriptor(cut, page, 1, TRUE)
                   /\ tables' = Append(tables, page)
                   /\ UNCHANGED phase
  /\ UNCHANGED <<firmware, entry, vmmBuffer, counts, walk>>

\* The loader jumps to the kernel's entry point.
NosEntryPoint ==
  /\ phase = "tables"
  /\ phase' = "kernel"
  /\ UNCHANGED <<firmware, entry, map, tables, vmmBuffer, counts, walk>>
-----------------------------------------------------------------------------
(* The kernel's allocation from the inherited table.                        *)

\* An allocated run joins a descriptor the kernel made that ends where it
\* starts; otherwise it gets a slot of its own.
MmCreateMemoryDescriptor(m, address, pages) ==
  LET before == {s \in m.created : Desc(m, s).address + Desc(m, s).pages = address}
      g == Min(Groups \ m.full)
      s == Min(SlotsOf(g) \ m.present)
      present == m.present \cup {s}
  IN  IF before # {} THEN [m EXCEPT !.desc[Min(before)].pages = @ + pages]
      ELSE [Written(m, s, [address |-> address, pages |-> pages, allocated |-> TRUE])
              EXCEPT !.present = present,
                     !.created = @ \cup {s},
                     !.full = IF SlotsOf(g) \subseteq present THEN @ \cup {g} ELSE @]

\* Mutant: the size of the region is not compared with the request.
AnyLow(m, pages) ==
  {s \in m.present : ~Desc(m, s).allocated /\ Desc(m, s).address + pages < LowLimit}

\* The free descriptors with room for a run of pages below, or above, 4GB.
LowCandidates(m, pages) ==
  {s \in m.present : /\ ~Desc(m, s).allocated
                     /\ Desc(m, s).address + pages < LowLimit
                     /\ Desc(m, s).pages >= pages}

HighCandidates(m, pages) ==
  {s \in m.present : /\ ~Desc(m, s).allocated
                     /\ Desc(m, s).address >= LowLimit
                     /\ Desc(m, s).pages >= pages}

\* Mutants: the region keeps its length; the run gets no descriptor.
CutKeepsLength(m, s, pages) ==
  [MmCreateMemoryDescriptor(m, Desc(m, s).address, pages) EXCEPT !.desc[s].address = @ + pages]
CutWithoutDescriptor(m, s, pages) ==
  [m EXCEPT !.desc[s].address = @ + pages, !.desc[s].pages = @ - pages]

\* The run is the start of descriptor s.
CutRun(m, s, pages) ==
  [MmCreateMemoryDescriptor(m, Desc(m, s).address, pages)
     EXCEPT !.desc[s].address = @ + pages, !.desc[s].pages = @ - pages]

MmAllocateHighMemory(m, pages) == CutRun(m, Min(HighCandidates(m, pages)), pages)

\* Below 4GB a descriptor that is used up leaves the table.
MmAllocateLowMemory(m, pages) ==
  LET s == Min(LowCandidates(m, pages))
      cut == CutRun(m, s, pages)
  IN  IF Desc(cut, s).pages # 0 THEN cut
      ELSE [cut EXCEPT !.present = @ \ {s}, !.full = @ \ {GroupOf(s)}]

FreeSlots(m) == {s \in m.present : ~Desc(m, s).allocated}
UsedSlots(m) == {s \in m.present : Desc(m, s).allocated}
PagesIn(m, slots) == MapThenSumSet(LAMBDA s : Desc(m, s).pages, slots)

\* Memory is counted, the largest free region is checked to hold a huge page,
\* and the buffer is allocated, from above 4GB if possible.
KiPhysicalMemoryManagerInit ==
  /\ phase = "kernel"
  /\ LET free == PagesIn(map, FreeSlots(map))
         used == PagesIn(map, UsedSlots(map))
         high == HighCandidates(map, VmmPages)
         low  == LowCandidates(map, VmmPages)
     IN  IF \/ \A s \in FreeSlots(map) : Desc(map, s).pages < Huge
            \/ free < VmmPages
            \/ high = {} /\ low = {}
         THEN /\ phase' = "halted"
              /\ UNCHANGED <<map, vmmBuffer, counts>>
         ELSE /\ LET s == IF high # {} THEN Min(high) ELSE Min(low) IN
                 vmmBuffer' = Pages(Desc(map, s).address, VmmPages)
              /\ map' = IF high # {} THEN MmAllocateHighMemory(map, VmmPages)
                                     ELSE MmAllocateLowMemory(map, VmmPages)
              /\ totalPages' = used + free
              /\ allocatedPages' = used + VmmPages
              /\ phase' = "walk"
  /\ UNCHANGED <<firmware, entry, tables, walk>>
-----------------------------------------------------------------------------
(* The kernel hands the free descriptors to the page allocator.             *)

Excess(address, align) == (align - (address % align)) % align

Run(level, start, count) ==
  [level |-> level, start |-> start, count |-> count, header |-> pageNumber]

\* The part of memory [address, pages] that is whole pages of the given size,
\* and what is left of it on both sides.
Fits(c, size) == c.pages >= size + Excess(c.address, size)
Whole(c, size) == (c.pages - Excess(c.address, size)) \div size
Start(c, size) == c.address + Excess(c.address, size)
LeftOf(c, size) == [address |-> c.address, pages |-> Excess(c.address, size)]
RightOf(c, size) ==
  LET end == Start(c, size) + Whole(c, size) * size
  IN  [address |-> end, pages |-> c.address + c.pages - end]

\* Mutant: an empty rest overwrites the part that is still to be cut.
PendingAlways(c, size) == IF RightOf(c, size).pages # 0 THEN RightOf(c, size) ELSE None

\* cmem2 is only overwritten when something is left on the right.
Pending(c, size) == IF RightOf(c, size).pages # 0 THEN RightOf(c, size) ELSE cmem2

\* The next free descriptor is copied and its huge pages are inserted.
NextDescriptor ==
  /\ phase = "walk"
  /\ LET rest == {s \in FreeSlots(map) : s >= cursor}
         s == Min(rest)
         c == [address |-> Desc(map, s).address, pages |-> Desc(map, s).pages]
     IN  IF rest = {} THEN phase' = "ready" /\ UNCHANGED walk
         ELSE /\ cursor' = s + 1
              /\ IF ~Fits(c, Huge)
                 THEN phase' = "cut" /\ cmem' = c /\ UNCHANGED <<cmem2, pageNumber, inserted>>
                 ELSE IF Whole(c, Huge) > LevelLength
                 THEN phase' = "halted" /\ UNCHANGED <<cmem, cmem2, pageNumber, inserted>>
                 ELSE /\ inserted' = inserted \cup {Run(2, Start(c, Huge), Whole(c, Huge))}
                      /\ pageNumber' = pageNumber + Whole(c, Huge) * Huge
                      /\ cmem' = LeftOf(c, Huge)
                      /\ cmem2' = Pending(c, Huge)
                      /\ phase' = "cut"
  /\ UNCHANGED <<firmware, entry, map, tables, vmmBuffer, counts>>

\* The large pages of the current part are inserted, then the single pages
\* before them; what is left behind them is cut next.
CutPart ==
  /\ phase = "cut"
  /\ LET fits == Fits(cmem, Large)
         larges == IF fits THEN {Run(1, Start(cmem, Large), Whole(cmem, Large))} ELSE {}
         past == pageNumber + IF fits THEN Whole(cmem, Large) * Large ELSE 0
         small == IF fits THEN LeftOf(cmem, Large) ELSE cmem
         singles == IF small.pages = 0 THEN {}
                    ELSE {[Run(0, small.address, small.pages) EXCEPT !.header = past]}
         pending == IF fits THEN Pending(cmem, Large) ELSE cmem2
     IN  /\ inserted' = inserted \cup larges \cup singles
         /\ pageNumber' = past + small.pages
         /\ cmem' = pending
         /\ phase' = IF pending = None THEN "walk" ELSE "cut"
  /\ cmem2' = None
  /\ UNCHANGED <<firmware, entry, map, tables, vmmBuffer, counts, cursor>>
-----------------------------------------------------------------------------
Init ==
  /\ firmware \in FirmwareMaps
  /\ entry = 1
  /\ map = [desc |-> <<>>, present |-> {}, full |-> {}, created |-> {}]
  /\ tables = <<>> /\ vmmBuffer = {}
  /\ phase = "map"
  /\ allocatedPages = 0 /\ totalPages = 0
  /\ cursor = 0 /\ cmem = None /\ cmem2 = None /\ pageNumber = 0 /\ inserted = {}

Next ==
  \/ CopyEntry
  \/ MapCopied
  \/ BlAllocateOnePage
  \/ NosEntryPoint
  \/ KiPhysicalMemoryManagerInit
  \/ NextDescriptor
  \/ CutPart

Spec == Init /\ [][Next]_vars
-----------------------------------------------------------------------------
\* Descriptors are in slots of the table and describe a region; the boot is in one
\* of its phases.
TypeOK ==
  /\ firmware \in FirmwareMaps /\ entry \in 1 .. Len(firmware) + 1
  /\ map.present \subseteq Slots /\ map.created \subseteq Slots
  /\ map.full \subseteq Groups /\ DOMAIN map.desc \subseteq Slots
  /\ \A s \in DOMAIN map.desc : map.desc[s] \in [address : Nat, pages : Nat, allocated : BOOLEAN]
  /\ tables \in Seq(Nat) /\ vmmBuffer \subseteq Nat
  /\ phase \in {"map", "tables", "kernel", "walk", "cut", "ready", "halted"}
  /\ allocatedPages \in Nat /\ totalPages \in Nat
  /\ cursor \in Nat /\ pageNumber \in Nat
  /\ {cmem, cmem2} \subseteq [address : Nat, pages : Nat]
  /\ inserted \subseteq [level : 0 .. 2, start : Nat, count : Nat, header : Nat]

\* Memory of the given type in the entries copied so far.
Reported(type) ==
  UNION {Pages(firmware[i].start, firmware[i].pages) :
           i \in {j \in 1 .. entry - 1 : firmware[j].type = type}}
Usable == Reported("EfiConventionalMemory") \cup Reported("EfiLoaderData")
HandedOut == {tables[i] : i \in DOMAIN tables} \cup vmmBuffer
Described(s) == Pages(Desc(map, s).address, Desc(map, s).pages)

\* The table describes exactly the usable memory the firmware reported and
\* every page of it once, through merges, cuts, removals and the slots that
\* the loader's int shift marks present without filling them (mm.c:24-80,
\* preosmem.c:45-75).
MapKeepsMemory ==
  /\ UNION {Described(s) : s \in map.present} = Usable
  /\ \A s, t \in map.present : s # t => Described(s) \cap Described(t) = {}

\* What the loader and the kernel took was free, was taken once, and stays
\* described as allocated, so that no later scan can find it.
HandedOutStaysAllocated ==
  /\ Cardinality(HandedOut) = Len(tables) + Cardinality(vmmBuffer)
  /\ HandedOut \subseteq Reported("EfiConventionalMemory")
  /\ HandedOut \cup Reported("EfiLoaderData") = UNION {Described(s) : s \in UsedSlots(map)}

Size(level) == CASE level = 0 -> 1 [] level = 1 -> Large [] level = 2 -> Huge
RunPages(r) == Pages(r.start, r.count * Size(r.level))
Headers(r) == Pages(r.header, r.count * Size(r.level))

\* The page allocator is given every page that nobody took, exactly once, in
\* runs aligned to their page size, and no two pages share a page header
\* (meminit.c:113-225: two parts of one region are cut with one spare copy).
InsertedOnce ==
  /\ \A r \in inserted : r.start % Size(r.level) = 0
  /\ \A r, q \in inserted : r # q => /\ RunPages(r) \cap RunPages(q) = {}
                                    /\ Headers(r) \cap Headers(q) = {}
  /\ \A r \in inserted : Headers(r) \subseteq 0 .. totalPages - 1
  /\ phase = "ready" =>
       UNION {RunPages(r) : r \in inserted} = Reported("EfiConventionalMemory") \ HandedOut

\* The kernel's page counts, made from the loader's descriptors, agree with
\* what the table describes after the kernel has allocated from it.
CountsMatch ==
  phase \in {"walk", "cut", "ready"} =>
    /\ totalPages = Cardinality(Usable)
    /\ allocatedPages = Cardinality(UNION {Described(s) : s \in UsedSlots(map)})
=============================================================================
