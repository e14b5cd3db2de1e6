------------------------- MODULE PhysicalMemoryProofs -------------------------
(* No page of the machine is lost, described twice or handed out twice on its *)
(* way from the firmware to the page allocator: for every memory map, every    *)
(* width of the table and every size of page.                                  *)
EXTENDS PhysicalMemory, FiniteSetTheorems, WellFoundedInduction, TLAPS

-----------------------------------------------------------------------------
(* The invariant.                                                            *)

Region == [address : Nat, pages : Nat, allocated : BOOLEAN]

\* The descriptors whose groups and bits the loader's int can name.
LowSlots == {Slot(g, i) : g \in 0 .. IntBits - 1, i \in 0 .. IntBits - 1}

MapTypes(m) ==
  m \in [desc : UNION {[S -> Region] : S \in SUBSET Slots}, present : SUBSET Slots,
         full : SUBSET Groups, created : SUBSET Slots]

\* The loader's table: only those descriptors are written; those that are present
\* describe memory, and free memory less than its counter holds; the bits above them
\* repeat the last one, of present and of full alike; a group is full when its bits are.
TableInv(m) ==
  /\ m.created = {}
  /\ DOMAIN m.desc \subseteq LowSlots
  /\ \A s \in m.present \cap LowSlots :
       /\ s \in DOMAIN m.desc /\ m.desc[s].pages > 0
       /\ ~m.desc[s].allocated => m.desc[s].pages < PageModulus
  /\ \A g \in Groups, i \in IntBits .. Word - 1 :
       Slot(g, i) \in m.present <=> Slot(g, IntBits - 1) \in m.present
  /\ \A g \in 0 .. IntBits - 1 : g \in m.full <=> SlotsOf(g) \subseteq m.present
  /\ \A g \in IntBits .. Word - 1 : g \in m.full <=> IntBits - 1 \in m.full

\* What a slot contributes to the memory that is allocated, or is not.
Piece(m, s, a) ==
  IF s \in m.present /\ Desc(m, s).allocated = a
  THEN Pages(Desc(m, s).address, Desc(m, s).pages) ELSE {}

\* The table describes free and used memory, each page once.
Holds(m, free, used) ==
  /\ free = UNION {Piece(m, s, FALSE) : s \in Slots}
  /\ used = UNION {Piece(m, s, TRUE) : s \in Slots}
  /\ \A s, t \in Slots : \A a, b \in BOOLEAN :
       s # t => Piece(m, s, a) \cap Piece(m, t, b) = {}

\* Free memory the firmware reported among its first entries, and what is left of it
\* in the slots the loader looks at first.
EarlyEntries == {i \in 1 .. entry - 1 : i <= IntBits /\ firmware[i].type = "EfiConventionalMemory"}
Early == UNION {Pages(firmware[i].start, firmware[i].pages) : i \in EarlyEntries}
EarlyFree(m) == UNION {Piece(m, s, FALSE) : s \in 0 .. IntBits - 1}

Loading == {"map", "tables", "kernel"}

PhaseInv ==
  /\ firmware \in FirmwareMaps /\ entry \in 1 .. Len(firmware) + 1
  /\ phase \in Loading \cup {"walk", "cut", "ready", "halted"}
  /\ tables \in Seq(Nat) /\ Len(tables) <= MaxTables
  /\ MapTypes(map)
  /\ phase = "map" => tables = <<>>
  /\ phase \in {"tables", "kernel"} => entry = Len(firmware) + 1
  /\ phase \in Loading => vmmBuffer = {}
  /\ vmmBuffer \subseteq Nat /\ IsFiniteSet(vmmBuffer)

TakenInv ==
  /\ \A i, j \in DOMAIN tables : tables[i] = tables[j] => i = j
  /\ \A i \in DOMAIN tables : tables[i] \notin vmmBuffer
  /\ HandedOut \subseteq Reported("EfiConventionalMemory")

MemoryInv ==
  Holds(map, Reported("EfiConventionalMemory") \ HandedOut,
             Reported("EfiLoaderData") \cup HandedOut)

LoaderInv ==
  phase \in Loading =>
    /\ TableInv(map)
    /\ Cardinality(map.present \cap LowSlots) <= entry - 1 + Len(tables)
    /\ phase = "map" => \A s \in map.present : s < IntBits => s < entry - 1
    /\ Early \subseteq EarlyFree(map) \cup HandedOut

BootInv == PhaseInv /\ TakenInv /\ MemoryInv /\ LoaderInv
-----------------------------------------------------------------------------
(* Numbers: slots, masks and the smallest of a set.                          *)

Below == {ss \in Nat \X Nat : ss[1] < ss[2]}

\* A scan from the bottom finds the smallest.
LEMMA MinIn ==
  ASSUME NEW S \in SUBSET Nat, S # {}
  PROVE  Min(S) \in S /\ \A y \in S : Min(S) <= y
<1>1. IsWellFoundedOn(Below, Nat)
  BY NatLessThanWellFounded, Zenon DEF OpToRel, Below
<1>2. PICK c \in S : \A d \in S : ~(<<d, c>> \in Below)
  BY <1>1, WFMin
<1>3. \A n, m \in Nat : n < m => <<n, m>> \in Below
  BY DEF Below
<1>4. ASSUME NEW d \in S PROVE c <= d
  <2>1. c \in Nat /\ d \in Nat /\ ~(d < c)
    BY <1>2, <1>3
  <2>2. QED BY <2>1
<1>5. QED BY <1>4 DEF Min

LEMMA Widths ==
  /\ Word \in Nat /\ Word > 0
  /\ IntBits \in Nat /\ IntBits > 0 /\ IntBits <= Word
  /\ PageModulus \in Nat /\ MaxTables \in Nat /\ VmmPages \in Nat /\ VmmPages > 0
BY WidthAssumption, PageAssumption

\* A slot is a group and a bit.
LEMMA SlotIn ==
  ASSUME NEW g \in Groups, NEW i \in 0 .. Word - 1
  PROVE  Slot(g, i) \in Slots /\ GroupOf(Slot(g, i)) = g /\ Slot(g, i) % Word = i
BY Widths DEF Slot, GroupOf, Slots, Groups

LEMMA SlotParts ==
  ASSUME NEW s \in Slots
  PROVE  /\ GroupOf(s) \in Groups /\ s % Word \in 0 .. Word - 1
         /\ s = Slot(GroupOf(s), s % Word)
BY Widths DEF Slot, GroupOf, Slots, Groups

LEMMA SlotsDiffer ==
  ASSUME NEW g \in Groups, NEW h \in Groups, NEW i \in 0 .. Word - 1, NEW j \in 0 .. Word - 1,
         Slot(g, i) = Slot(h, j)
  PROVE  g = h /\ i = j
BY SlotIn

LEMMA LowSlotParts ==
  ASSUME NEW s \in LowSlots
  PROVE  /\ s \in Slots /\ GroupOf(s) \in 0 .. IntBits - 1 /\ s % Word \in 0 .. IntBits - 1
<1>1. PICK g \in 0 .. IntBits - 1, i \in 0 .. IntBits - 1 : s = Slot(g, i)
  BY DEF LowSlots
<1>2. g \in Groups /\ i \in 0 .. Word - 1
  BY Widths DEF Groups
<1>3. QED BY <1>1, <1>2, SlotIn

\* In the first group a slot is its bit.
LEMMA FirstSlots ==
  ASSUME NEW i \in 0 .. IntBits - 1
  PROVE  Slot(0, i) = i /\ i \in LowSlots /\ i \in Slots /\ 0 \in Groups
<1>1. Slot(0, i) = i /\ 0 \in 0 .. IntBits - 1 /\ 0 \in Groups /\ i \in 0 .. Word - 1
  BY Widths DEF Slot, Groups
<1>2. QED BY <1>1, SlotIn DEF LowSlots

\* The int's shift of a low bit is that bit, of the last one all from there on.
LEMMA LowShift ==
  ASSUME NEW i \in 0 .. IntBits - 1
  PROVE  IntShift(i) = IF i = IntBits - 1 THEN IntBits - 1 .. Word - 1 ELSE {i}
<1>1. i % IntBits = i
  BY Widths
<1>2. QED BY <1>1 DEF IntShift

\* A low slot passes the loader's test when it is present.
LEMMA LowSeen ==
  ASSUME NEW m, TableInv(m), NEW s \in LowSlots
  PROVE  Seen(m, s) <=> s \in m.present
<1>1. /\ s \in Slots /\ GroupOf(s) \in Groups /\ s % Word \in 0 .. IntBits - 1
      /\ s = Slot(GroupOf(s), s % Word)
  BY Widths, LowSlotParts, SlotParts
<1>2. CASE s % Word # IntBits - 1
  BY <1>1, <1>2, LowShift DEF Seen
<1>3. CASE s % Word = IntBits - 1
  <2>1. \A b \in IntBits - 1 .. Word - 1 :
          Slot(GroupOf(s), b) \in m.present <=> Slot(GroupOf(s), IntBits - 1) \in m.present
    BY <1>1, Widths DEF TableInv
  <2>2. IntBits - 1 \in IntBits - 1 .. Word - 1
    BY Widths
  <2>3. IntShift(s % Word) = IntBits - 1 .. Word - 1
    BY <1>1, <1>3, LowShift
  <2>4. QED BY <1>1, <1>3, <2>1, <2>2, <2>3 DEF Seen
<1>4. QED BY <1>2, <1>3

-----------------------------------------------------------------------------
(* The table and what its slots describe.                                    *)

\* When one slot changes and what it describes now is no other slot's, the table
\* describes what it did, but for that slot.
LEMMA PieceChange ==
  ASSUME NEW m, NEW n, NEW F, NEW U, Holds(m, F, U), NEW s \in Slots,
         \A t \in Slots \ {s}, a \in BOOLEAN : Piece(n, t, a) = Piece(m, t, a),
         \A a \in BOOLEAN :
           Piece(n, s, a) \cap ((F \cup U) \ (Piece(m, s, TRUE) \cup Piece(m, s, FALSE))) = {}
  PROVE  Holds(n, (F \ Piece(m, s, FALSE)) \cup Piece(n, s, FALSE),
                  (U \ Piece(m, s, TRUE)) \cup Piece(n, s, TRUE))
<1>0. F = UNION {Piece(m, t, FALSE) : t \in Slots} /\ U = UNION {Piece(m, t, TRUE) : t \in Slots}
  BY DEF Holds
<1>1. ASSUME NEW a \in BOOLEAN, NEW M, M = UNION {Piece(m, t, a) : t \in Slots}
      PROVE  (M \ Piece(m, s, a)) \cup Piece(n, s, a) = UNION {Piece(n, t, a) : t \in Slots}
  <2>1. \A t \in Slots : t # s => Piece(m, t, a) \cap Piece(m, s, a) = {}
    BY DEF Holds
  <2>2. \A t \in Slots : t # s => Piece(n, t, a) = Piece(m, t, a)
    OBVIOUS
  <2>3. ASSUME NEW x \in (M \ Piece(m, s, a)) \cup Piece(n, s, a)
        PROVE  x \in UNION {Piece(n, t, a) : t \in Slots}
    BY <1>1, <2>2
  <2>4. ASSUME NEW x \in UNION {Piece(n, t, a) : t \in Slots}
        PROVE  x \in (M \ Piece(m, s, a)) \cup Piece(n, s, a)
    BY <1>1, <2>1, <2>2
  <2>5. QED BY <2>3, <2>4
<1>2. ASSUME NEW t \in Slots, t # s, NEW a \in BOOLEAN, NEW b \in BOOLEAN
      PROVE  Piece(n, s, a) \cap Piece(n, t, b) = {}
  <2>1. Piece(n, t, b) = Piece(m, t, b) /\ Piece(m, t, b) \subseteq F \cup U
    <3>1. Piece(m, t, TRUE) \subseteq U /\ Piece(m, t, FALSE) \subseteq F
      BY <1>0, Zenon
    <3>2. CASE b = TRUE
      BY <1>2, <3>1, <3>2
    <3>3. CASE b = FALSE
      BY <1>2, <3>1, <3>3
    <3>4. QED BY <3>2, <3>3
  <2>2. Piece(m, t, b) \cap (Piece(m, s, TRUE) \cup Piece(m, s, FALSE)) = {}
    <3>1. Piece(m, t, b) \cap Piece(m, s, TRUE) = {} /\ Piece(m, t, b) \cap Piece(m, s, FALSE) = {}
      BY <1>2 DEF Holds
    <3>2. QED BY <3>1
  <2>3. QED BY <2>1, <2>2
<1>3. ASSUME NEW t \in Slots, NEW u \in Slots, NEW a \in BOOLEAN, NEW b \in BOOLEAN, t # u
      PROVE  Piece(n, t, a) \cap Piece(n, u, b) = {}
  <2>1. CASE t = s
    BY <1>2, <1>3, <2>1
  <2>2. CASE u = s
    BY <1>2, <1>3, <2>2
  <2>3. CASE t # s /\ u # s
    BY <1>3, <2>3 DEF Holds
  <2>4. QED BY <2>1, <2>2, <2>3
<1>4. QED BY <1>0, <1>1, <1>3 DEF Holds

\* While the loader's table is not full there is a slot for a new descriptor.
LEMMA FreshSlot ==
  ASSUME NEW m, MapTypes(m), TableInv(m), ~LoaderFull(m)
  PROVE  LET g == Min(Groups \ m.full)
             s == Min(SlotsOf(g) \ m.present)
         IN  /\ g \in 0 .. IntBits - 1 /\ s \in LowSlots \ m.present
             /\ GroupOf(s) = g /\ s \in SlotsOf(g)
             /\ \A t \in 0 .. IntBits - 1 : t \notin m.present => s <= t
             /\ g \notin m.full
<1> DEFINE g == Min(Groups \ m.full)
           s == Min(SlotsOf(g) \ m.present)
<1>1. m.full \subseteq Groups /\ m.present \subseteq Slots
  BY DEF MapTypes
<1>2. Groups \ m.full \in SUBSET Nat /\ Groups \ m.full # {}
  <2>1. Groups \subseteq Nat
    BY DEF Groups
  <2>2. QED BY <1>1, <2>1 DEF LoaderFull
<1>3. g \in Groups \ m.full /\ \A h \in Groups \ m.full : g <= h
  BY <1>2, MinIn
<1> HIDE DEF g
<1>4. g \in 0 .. IntBits - 1
  <2>1. CASE g >= IntBits
    <3>1. IntBits - 1 \in Groups \ m.full
      BY <1>3, <2>1, Widths DEF TableInv, Groups
    <3>2. QED BY <1>3, <2>1, <3>1, Widths DEF Groups
  <2>2. QED BY <1>3, <2>1, Widths DEF Groups
<1>5. SlotsOf(g) \ m.present \in SUBSET Nat /\ SlotsOf(g) \ m.present # {}
  <2>1. SlotsOf(g) \subseteq Nat
    BY <1>4, Widths DEF SlotsOf, Slot
  <2>2. QED BY <2>1, <1>3, <1>4 DEF TableInv
<1>6. s \in SlotsOf(g) \ m.present /\ \A t \in SlotsOf(g) \ m.present : s <= t
  BY <1>5, MinIn
<1> HIDE DEF s
<1>7. PICK i \in 0 .. Word - 1 : s = Slot(g, i)
  BY <1>6 DEF SlotsOf
<1>8. i \in 0 .. IntBits - 1
  <2>1. CASE i >= IntBits
    <3>1. Slot(g, IntBits - 1) \in SlotsOf(g) \ m.present
      BY <1>3, <1>6, <1>7, <2>1, Widths DEF TableInv, SlotsOf
    <3>2. s <= Slot(g, IntBits - 1)
      BY <1>6, <3>1
    <3>3. ~(Slot(g, i) <= Slot(g, IntBits - 1))
      <4>1. g * Word \in Nat
        BY <1>4, Widths
      <4>2. QED BY <4>1, <2>1, Widths DEF Slot
    <3>4. QED BY <1>7, <3>2, <3>3
  <2>2. QED BY <1>7, <2>1, Widths
<1>9. GroupOf(s) = g
  BY <1>3, <1>7, SlotIn
<1>10. s \in LowSlots \ m.present
  BY <1>4, <1>6, <1>7, <1>8 DEF LowSlots
<1>11. ASSUME NEW t \in 0 .. IntBits - 1, t \notin m.present PROVE s <= t
  <2>1. t = Slot(0, t) /\ 0 \in Groups /\ 0 \in 0 .. IntBits - 1 /\ t \in 0 .. Word - 1
    BY FirstSlots, Widths
  <2>2. t \in SlotsOf(0) \ m.present
    BY <2>1, <1>11 DEF SlotsOf
  <2>3. 0 \notin m.full
    BY <2>1, <2>2 DEF TableInv
  <2>4. g = 0
    BY <1>3, <1>4, <2>1, <2>3
  <2>5. QED BY <1>6, <2>2, <2>4
<1>12. QED BY <1>3, <1>4, <1>6, <1>9, <1>10, <1>11 DEF g, s

LEMMA TableUpdate ==
  ASSUME NEW m, NEW d, NEW p, NEW f,
         m = [desc |-> m.desc, present |-> m.present, full |-> m.full, created |-> m.created]
  PROVE  [[[m EXCEPT !.desc = d] EXCEPT !.present = p] EXCEPT !.full = f]
           = [desc |-> d, present |-> p, full |-> f, created |-> m.created]
<1> DEFINE m1 == [m EXCEPT !.desc = d]
           m2 == [m1 EXCEPT !.present = p]
<1>1. m1 = [desc |-> d, present |-> m.present, full |-> m.full, created |-> m.created]
  OBVIOUS
<1> HIDE DEF m1
<1>2. m2 = [desc |-> d, present |-> p, full |-> m.full, created |-> m.created]
  BY <1>1
<1> HIDE DEF m2
<1>3. [m2 EXCEPT !.full = f] = [desc |-> d, present |-> p, full |-> f, created |-> m.created]
  BY <1>2
<1>4. QED BY <1>3 DEF m1, m2

\* The table after the loader has entered region r in slot s of group g.
Entered(m, g, s, r) ==
  LET present == m.present \cup {Slot(g, b) : b \in IntShift(s % Word)}
  IN  [Written(m, s, r) EXCEPT !.present = present,
                               !.full = IF SlotsOf(g) \subseteq present THEN @ \cup IntShift(g) ELSE @]

\* Entering a region in a slot that is not present gives that slot the region, and
\* only to that slot; the table keeps its shape.
LEMMA EnteredKeeps ==
  ASSUME NEW m, MapTypes(m), TableInv(m), NEW s \in LowSlots \ m.present,
         GroupOf(s) \notin m.full, NEW r \in Region, r.pages > 0,
         ~r.allocated => r.pages < PageModulus
  PROVE  LET n == Entered(m, GroupOf(s), s, r)
         IN  /\ MapTypes(n) /\ TableInv(n)
             /\ n.present \cap LowSlots = (m.present \cap LowSlots) \cup {s}
             /\ \A t \in Slots \ {s}, a \in BOOLEAN : Piece(n, t, a) = Piece(m, t, a)
             /\ \A a \in BOOLEAN :
                  Piece(n, s, a) = IF a = r.allocated THEN Pages(r.address, r.pages) ELSE {}
             /\ \A a \in BOOLEAN : Piece(m, s, a) = {}
<1> DEFINE g == GroupOf(s)
           i == s % Word
           n == Entered(m, g, s, r)
           bits == {Slot(g, b) : b \in IntShift(i)}
<1>1. /\ s \in Slots /\ g \in Groups /\ g \in 0 .. IntBits - 1 /\ i \in 0 .. IntBits - 1
      /\ i \in 0 .. Word - 1 /\ s = Slot(g, i)
  BY LowSlotParts, SlotParts
<1>2. /\ m.full \subseteq Groups /\ m.present \subseteq Slots /\ m.created = {}
      /\ m = [desc |-> m.desc, present |-> m.present, full |-> m.full, created |-> m.created]
      /\ m.desc \in [DOMAIN m.desc -> Region] /\ DOMAIN m.desc \subseteq LowSlots
  BY DEF MapTypes, TableInv
<1>3. /\ n.present = m.present \cup bits
      /\ n.full = IF SlotsOf(g) \subseteq n.present THEN m.full \cup IntShift(g) ELSE m.full
      /\ n.created = {}
      /\ n.desc = [t \in DOMAIN m.desc \cup {s} |-> IF t = s THEN r ELSE m.desc[t]]
      /\ n = [desc |-> n.desc, present |-> n.present, full |-> n.full, created |-> n.created]
  <2> DEFINE present == m.present \cup bits
             full == IF SlotsOf(g) \subseteq present THEN m.full \cup IntShift(g) ELSE m.full
             desc == [t \in DOMAIN m.desc \cup {s} |-> IF t = s THEN r ELSE m.desc[t]]
  <2>1. n = [[[m EXCEPT !.desc = desc] EXCEPT !.present = present] EXCEPT !.full = full]
    BY DEF Entered, Written
  <2> HIDE DEF present, full, desc, n
  <2>2. n = [desc |-> desc, present |-> present, full |-> full, created |-> m.created]
    BY <1>2, <2>1, TableUpdate, Zenon
  <2>3. n.present = present /\ n.full = full /\ n.created = m.created /\ n.desc = desc
    BY <2>2
  <2>4. QED BY <1>2, <2>2, <2>3 DEF present, full, desc
<1>4. /\ DOMAIN n.desc = DOMAIN m.desc \cup {s} /\ n.desc[s] = r
      /\ \A t \in DOMAIN m.desc : t # s => n.desc[t] = m.desc[t]
      /\ n.desc \in [DOMAIN m.desc \cup {s} -> Region]
  <2> HIDE DEF n
  <2>1. QED BY <1>2, <1>3
<1>5. IntShift(i) = (IF i = IntBits - 1 THEN IntBits - 1 .. Word - 1 ELSE {i})
      /\ IntShift(g) = (IF g = IntBits - 1 THEN IntBits - 1 .. Word - 1 ELSE {g})
  BY <1>1, LowShift
<1> HIDE DEF n
<1>6. bits \subseteq Slots /\ s \in bits /\ IntShift(g) \subseteq Groups /\ g \in IntShift(g)
  BY <1>1, <1>5, SlotIn, Widths DEF Groups
<1>7. \A b \in 0 .. Word - 1, h \in Groups :
        Slot(h, b) \in bits <=> h = g /\ b \in IntShift(i)
  BY <1>1, <1>5, SlotsDiffer, Widths
<1>8. \A t \in bits : t # s => t \notin LowSlots
  <2>1. ASSUME NEW b \in IntShift(i), Slot(g, b) # s, Slot(g, b) \in LowSlots PROVE FALSE
    <3>1. b \in IntBits .. Word - 1
      BY <1>1, <1>5, <2>1, Widths
    <3>2. Slot(g, b) % Word = b
      BY <1>1, <3>1, SlotIn, Widths
    <3>3. Slot(g, b) % Word \in 0 .. IntBits - 1
      BY <2>1, LowSlotParts
    <3>4. QED BY <3>1, <3>2, <3>3, Widths
  <2>2. QED BY <2>1
<1>9. MapTypes(n)
  <2>1. n.desc \in UNION {[S -> Region] : S \in SUBSET Slots}
    <3>1. DOMAIN m.desc \cup {s} \in SUBSET Slots
      BY <1>1, <1>2, LowSlotParts
    <3>2. QED BY <1>4, <3>1
  <2>2. n.present \in SUBSET Slots /\ n.full \in SUBSET Groups /\ n.created \in SUBSET Slots
    BY <1>2, <1>3, <1>6
  <2>3. QED BY <1>3, <2>1, <2>2 DEF MapTypes
<1>10. n.present \cap LowSlots = (m.present \cap LowSlots) \cup {s}
  BY <1>3, <1>6, <1>8
<1>11. TableInv(n)
  <2>1. n.created = {} /\ DOMAIN n.desc \subseteq LowSlots
    BY <1>2, <1>3, <1>4
  <2>2. ASSUME NEW t \in n.present \cap LowSlots
        PROVE  /\ t \in DOMAIN n.desc /\ n.desc[t].pages > 0
               /\ ~n.desc[t].allocated => n.desc[t].pages < PageModulus
    <3>1. CASE t = s
      BY <1>4, <3>1
    <3>2. CASE t # s
      BY <1>4, <1>10, <2>2, <3>2 DEF TableInv
    <3>3. QED BY <3>1, <3>2
  <2>3. ASSUME NEW h \in Groups, NEW b \in IntBits .. Word - 1
        PROVE  Slot(h, b) \in n.present <=> Slot(h, IntBits - 1) \in n.present
    <3>1. b \in 0 .. Word - 1 /\ IntBits - 1 \in 0 .. Word - 1
      BY Widths
    <3>2. Slot(h, b) \in bits <=> Slot(h, IntBits - 1) \in bits
      BY <1>1, <1>5, <1>7, <3>1, Widths
    <3>3. Slot(h, b) \in m.present <=> Slot(h, IntBits - 1) \in m.present
      BY DEF TableInv
    <3>4. QED BY <1>3, <3>2, <3>3
  <2>4. ASSUME NEW h \in 0 .. IntBits - 1
        PROVE  h \in n.full <=> SlotsOf(h) \subseteq n.present
    <3>1. h \in m.full <=> SlotsOf(h) \subseteq m.present
      BY DEF TableInv
    <3>2. CASE h = g
      BY <1>3, <1>6, <3>1, <3>2
    <3>3. CASE h # g
      <4>1. h \in n.full <=> h \in m.full
        BY <1>1, <1>3, <1>5, <3>3, Widths
      <4>2. SlotsOf(h) \cap bits = {}
        BY <1>7, <3>3, Widths DEF SlotsOf, Groups
      <4>3. QED BY <1>3, <3>1, <4>1, <4>2
    <3>4. QED BY <3>2, <3>3
  <2>5. ASSUME NEW h \in IntBits .. Word - 1
        PROVE  h \in n.full <=> IntBits - 1 \in n.full
    <3>1. h \in m.full <=> IntBits - 1 \in m.full
      BY DEF TableInv
    <3>2. h \in IntShift(g) <=> IntBits - 1 \in IntShift(g)
      BY <1>1, <1>5, Widths
    <3>3. QED BY <1>3, <3>1, <3>2
  <2>6. QED BY <2>1, <2>2, <2>3, <2>4, <2>5 DEF TableInv
<1>12. ASSUME NEW t \in Slots \ {s}, NEW a \in BOOLEAN PROVE Piece(n, t, a) = Piece(m, t, a)
  <2>1. Desc(n, t) = Desc(m, t)
    BY <1>4 DEF Desc
  <2>2. CASE t \in bits
    <3>1. t \notin DOMAIN m.desc
      BY <1>2, <1>8, <2>2
    <3>2. Desc(m, t).address = 0 /\ Desc(m, t).pages = 0 /\ Pages(0, 0) = {}
      BY <3>1 DEF Desc, Pages, Empty
    <3>3. QED BY <2>1, <3>2 DEF Piece
  <2>3. CASE t \notin bits
    BY <1>3, <2>1, <2>3 DEF Piece
  <2>4. QED BY <2>2, <2>3
<1>13. ASSUME NEW a \in BOOLEAN
       PROVE  Piece(n, s, a) = IF a = r.allocated THEN Pages(r.address, r.pages) ELSE {}
  <2>1. Desc(n, s) = r /\ s \in n.present
    BY <1>3, <1>4, <1>6 DEF Desc
  <2>2. QED BY <2>1 DEF Piece
<1>14. ASSUME NEW a \in BOOLEAN PROVE Piece(m, s, a) = {}
  BY DEF Piece
<1>15. QED BY <1>9, <1>10, <1>11, <1>12, <1>13, <1>14 DEF n

\* The loader's test finds descriptors that are present and were written.
LEMMA SourceIn ==
  ASSUME NEW m, MapTypes(m), TableInv(m), NEW address, NEW s \in MmSourceEntry(m, address)
  PROVE  /\ s \in m.present \cap LowSlots /\ s \in DOMAIN m.desc /\ m.desc[s].allocated
         /\ m.desc[s].address + m.desc[s].pages = address
<1>1. Seen(m, s) /\ Desc(m, s).allocated /\ Desc(m, s).address + Desc(m, s).pages = address
  BY DEF MmSourceEntry
<1>2. s \in DOMAIN m.desc
  BY <1>1 DEF Desc, Empty
<1>3. s \in LowSlots
  BY <1>2 DEF TableInv
<1>4. QED BY <1>1, <1>2, <1>3, LowSeen DEF Desc

\* A run of pages is cut anywhere.
LEMMA PagesSplit ==
  ASSUME NEW a \in Nat, NEW c \in Nat, NEW e \in Nat
  PROVE  Pages(a, c + e) = Pages(a, c) \cup Pages(a + c, e)
         /\ Pages(a, c) \cap Pages(a + c, e) = {}
BY DEF Pages

\* The table after a descriptor has grown.
Grown(m, s, pages) == [m EXCEPT !.desc[s].pages = @ + pages]

\* A descriptor that grows at its end keeps the table, and gains what is added.
LEMMA GrownKeeps ==
  ASSUME NEW m, MapTypes(m), TableInv(m), NEW s \in m.present \cap LowSlots, s \in DOMAIN m.desc,
         m.desc[s].allocated, NEW pages \in Nat
  PROVE  LET n == Grown(m, s, pages)
         IN  /\ MapTypes(n) /\ TableInv(n) /\ n.present = m.present
             /\ \A t \in Slots \ {s}, a \in BOOLEAN : Piece(n, t, a) = Piece(m, t, a)
             /\ Piece(n, s, TRUE) = Piece(m, s, TRUE)
                  \cup Pages(m.desc[s].address + m.desc[s].pages, pages)
             /\ Piece(n, s, FALSE) = {} /\ Piece(m, s, FALSE) = {}
<1> DEFINE r == [m.desc[s] EXCEPT !.pages = @ + pages]
           d == [m.desc EXCEPT ![s] = r]
           n == Grown(m, s, pages)
<1>1. /\ m = [desc |-> m.desc, present |-> m.present, full |-> m.full, created |-> m.created]
      /\ m.desc \in [DOMAIN m.desc -> Region] /\ DOMAIN m.desc \subseteq Slots
      /\ m.present \subseteq Slots /\ m.full \subseteq Groups /\ m.created \subseteq Slots
      /\ s \in Slots
  BY DEF MapTypes
<1>2. m.desc[s] \in Region
  BY <1>1
<1>3. /\ r \in Region /\ r.allocated /\ r.address = m.desc[s].address
      /\ r.pages = m.desc[s].pages + pages
  BY <1>2 DEF Region
<1>4. n = [m EXCEPT !.desc = d]
  BY DEF Grown
<1> HIDE DEF n, r
<1>5. d \in [DOMAIN m.desc -> Region] /\ d[s] = r /\ DOMAIN d = DOMAIN m.desc
      /\ \A t \in DOMAIN m.desc : t # s => d[t] = m.desc[t]
  <2> DEFINE S == DOMAIN m.desc
             e == m.desc
  <2>1. e \in [S -> Region] /\ s \in S
    BY <1>1
  <2> HIDE DEF S, e
  <2>2. /\ [e EXCEPT ![s] = r] \in [S -> Region] /\ [e EXCEPT ![s] = r][s] = r
        /\ \A t \in S : t # s => [e EXCEPT ![s] = r][t] = e[t]
    BY <2>1, <1>3
  <2>3. QED BY <2>2 DEF S, e
<1> HIDE DEF d
<1>6. n = [desc |-> d, present |-> m.present, full |-> m.full, created |-> m.created]
  BY <1>1, <1>4
<1>7. n.desc = d /\ n.present = m.present /\ n.full = m.full /\ n.created = m.created
  BY <1>6
<1>8. MapTypes(n)
  BY <1>1, <1>5, <1>6 DEF MapTypes
<1>9. TableInv(n)
  <2>1. ASSUME NEW t \in n.present \cap LowSlots
        PROVE  /\ t \in DOMAIN n.desc /\ n.desc[t].pages > 0
               /\ ~n.desc[t].allocated => n.desc[t].pages < PageModulus
    <3>1. t \in DOMAIN m.desc /\ m.desc[t].pages > 0
          /\ (~m.desc[t].allocated => m.desc[t].pages < PageModulus)
      BY <1>7, <2>1 DEF TableInv
    <3>2. CASE t = s
      <4>1. n.desc[t] = r /\ t \in DOMAIN n.desc
        BY <1>5, <1>7, <3>1, <3>2
      <4>2. r.pages > 0
        BY <1>2, <1>3, <3>1, <3>2 DEF Region
      <4>3. QED BY <1>3, <4>1, <4>2
    <3>3. CASE t # s
      BY <1>5, <1>7, <3>1, <3>3
    <3>4. QED BY <3>2, <3>3
  <2>2. QED BY <1>5, <1>7, <2>1 DEF TableInv
<1>10. ASSUME NEW t \in Slots \ {s}, NEW a \in BOOLEAN PROVE Piece(n, t, a) = Piece(m, t, a)
  <2>1. Desc(n, t) = Desc(m, t)
    BY <1>5, <1>7 DEF Desc
  <2>2. QED BY <2>1, <1>7 DEF Piece
<1>11. Desc(n, s) = r /\ Desc(m, s) = m.desc[s] /\ s \in n.present
  BY <1>5, <1>7 DEF Desc
<1>12. Piece(n, s, TRUE) = Piece(m, s, TRUE) \cup Pages(m.desc[s].address + m.desc[s].pages, pages)
  <2>1. m.desc[s].address \in Nat /\ m.desc[s].pages \in Nat /\ r.allocated = TRUE
        /\ m.desc[s].allocated = TRUE
    BY <1>2, <1>3 DEF Region
  <2>2. Piece(n, s, TRUE) = Pages(m.desc[s].address, m.desc[s].pages + pages)
    BY <1>3, <1>11, <2>1 DEF Piece
  <2>3. Piece(m, s, TRUE) = Pages(m.desc[s].address, m.desc[s].pages)
    BY <1>11, <2>1 DEF Piece
  <2>4. Pages(m.desc[s].address, m.desc[s].pages + pages)
          = Pages(m.desc[s].address, m.desc[s].pages) \cup Pages(m.desc[s].address + m.desc[s].pages, pages)
    <3> DEFINE b == m.desc[s].address
               c == m.desc[s].pages
    <3>1. b \in Nat /\ c \in Nat
      BY <2>1
    <3> HIDE DEF b, c
    <3>2. Pages(b, c + pages) = Pages(b, c) \cup Pages(b + c, pages)
      BY <3>1, PagesSplit
    <3>3. QED BY <3>2 DEF b, c
  <2>5. QED BY <2>2, <2>3, <2>4
<1>13. Piece(n, s, FALSE) = {} /\ Piece(m, s, FALSE) = {}
  BY <1>2, <1>3, <1>11 DEF Piece, Region
<1>14. QED BY <1>7, <1>8, <1>9, <1>10, <1>12, <1>13 DEF n

\* The page at the start of a free descriptor is cut off it; a descriptor that is used
\* up leaves the table.
LEMMA CutKeeps ==
  ASSUME NEW m, MapTypes(m), TableInv(m), NEW s \in m.present \cap LowSlots,
         ~Desc(m, s).allocated
  PROVE  LET n == TakePage(m, s)
             page == Desc(m, s).address
         IN  /\ MapTypes(n) /\ TableInv(n) /\ n.present \subseteq m.present
             /\ \A t \in Slots \ {s}, a \in BOOLEAN : Piece(n, t, a) = Piece(m, t, a)
             /\ page \in Nat /\ page \in Piece(m, s, FALSE)
             /\ Piece(n, s, FALSE) = Piece(m, s, FALSE) \ {page}
             /\ Piece(n, s, TRUE) = {} /\ Piece(m, s, TRUE) = {}
<1> DEFINE g == GroupOf(s)
           i == s % Word
           d == Desc(m, s)
           rest == [d EXCEPT !.address = @ + 1, !.pages = (@ - 1) % PageModulus]
           bits == {Slot(g, b) : b \in IntShift(i)}
           present == IF rest.pages # 0 THEN m.present ELSE m.present \ bits
           full == IF rest.pages # 0 THEN m.full ELSE m.full \ IntShift(g)
           desc == [t \in DOMAIN m.desc \cup {s} |-> IF t = s THEN rest ELSE m.desc[t]]
           n == TakePage(m, s)
<1>1. /\ s \in Slots /\ g \in Groups /\ g \in 0 .. IntBits - 1 /\ i \in 0 .. IntBits - 1
      /\ i \in 0 .. Word - 1 /\ s = Slot(g, i)
  BY LowSlotParts, SlotParts
<1>2. /\ m.full \subseteq Groups /\ m.present \subseteq Slots /\ m.created = {}
      /\ m = [desc |-> m.desc, present |-> m.present, full |-> m.full, created |-> m.created]
      /\ m.desc \in [DOMAIN m.desc -> Region] /\ DOMAIN m.desc \subseteq LowSlots
  BY DEF MapTypes, TableInv
<1>3. /\ s \in DOMAIN m.desc /\ d = m.desc[s] /\ d \in Region /\ d.pages \in Nat /\ d.address \in Nat
      /\ d.pages > 0 /\ d.pages < PageModulus
  BY <1>2 DEF TableInv, Desc, Region
<1>4. /\ rest \in Region /\ rest.address = d.address + 1 /\ rest.pages = d.pages - 1
      /\ ~rest.allocated
  <2>1. (d.pages - 1) % PageModulus = d.pages - 1
    BY <1>3, Widths
  <2>2. d = [address |-> d.address, pages |-> d.pages, allocated |-> d.allocated]
        /\ d.allocated \in BOOLEAN
    BY <1>3 DEF Region
  <2> DEFINE d1 == [d EXCEPT !.address = @ + 1]
  <2>3. d1 = [address |-> d.address + 1, pages |-> d.pages, allocated |-> d.allocated]
    BY <2>2
  <2>4. rest = [d1 EXCEPT !.pages = (d.pages - 1) % PageModulus]
    OBVIOUS
  <2> HIDE DEF d1, rest
  <2>5. rest = [address |-> d.address + 1, pages |-> d.pages - 1, allocated |-> d.allocated]
    BY <2>1, <2>3, <2>4
  <2>6. d.pages - 1 \in Nat /\ d.address + 1 \in Nat
    BY <1>3
  <2>7. QED BY <2>2, <2>5, <2>6 DEF Region
<1> HIDE DEF rest
<1>5. n = [desc |-> desc, present |-> present, full |-> full, created |-> {}]
  <2> DEFINE c == Written(m, s, rest)
  <2>1. c = [m EXCEPT !.desc = desc]
    BY DEF Written
  <2>2. n = IF rest.pages # 0 THEN c
            ELSE [c EXCEPT !.present = @ \ bits, !.full = @ \ IntShift(g)]
    BY DEF TakePage, rest
  <2> HIDE DEF c, n, desc, bits
  <2>3. c = [desc |-> desc, present |-> m.present, full |-> m.full, created |-> m.created]
    BY <1>2, <2>1
  <2>4. CASE rest.pages # 0
    BY <1>2, <2>2, <2>3, <2>4
  <2>5. CASE rest.pages = 0
    <3> DEFINE c1 == [c EXCEPT !.present = @ \ bits]
    <3>1. c1 = [desc |-> desc, present |-> m.present \ bits, full |-> m.full, created |-> m.created]
      BY <2>3
    <3>2. n = [c1 EXCEPT !.full = c.full \ IntShift(g)] /\ c.full = m.full
      BY <2>2, <2>3, <2>5
    <3> HIDE DEF c1
    <3>3. n = [desc |-> desc, present |-> m.present \ bits, full |-> m.full \ IntShift(g),
               created |-> m.created]
      BY <3>1, <3>2
    <3>4. QED BY <1>2, <2>5, <3>3
  <2>6. QED BY <2>4, <2>5
<1>6. n.desc = desc /\ n.present = present /\ n.full = full /\ n.created = {}
  BY <1>5
<1> HIDE DEF n
<1>7. /\ DOMAIN n.desc = DOMAIN m.desc /\ n.desc[s] = rest
      /\ \A t \in DOMAIN m.desc : t # s => n.desc[t] = m.desc[t]
      /\ n.desc \in [DOMAIN m.desc -> Region]
  BY <1>2, <1>3, <1>4, <1>6
<1> HIDE DEF desc
<1>8. IntShift(i) = (IF i = IntBits - 1 THEN IntBits - 1 .. Word - 1 ELSE {i})
      /\ IntShift(g) = (IF g = IntBits - 1 THEN IntBits - 1 .. Word - 1 ELSE {g})
  BY <1>1, LowShift
<1>9. s \in bits /\ g \in IntShift(g)
  BY <1>1, <1>8, Widths
<1>10. \A b \in 0 .. Word - 1, h \in Groups :
        Slot(h, b) \in bits <=> h = g /\ b \in IntShift(i)
  BY <1>1, <1>8, SlotsDiffer, Widths
<1>11. MapTypes(n)
  <2>1. n.desc \in UNION {[S -> Region] : S \in SUBSET Slots}
    <3>1. DOMAIN m.desc \in SUBSET Slots
      BY <1>2, LowSlotParts
    <3>2. QED BY <1>7, <3>1
  <2>2. n.present \in SUBSET Slots /\ n.full \in SUBSET Groups /\ n.created \in SUBSET Slots
    BY <1>2, <1>6
  <2>3. n = [desc |-> n.desc, present |-> n.present, full |-> n.full, created |-> n.created]
    BY <1>5, <1>6
  <2>4. QED BY <2>1, <2>2, <2>3 DEF MapTypes
<1>12. \A t \in bits : t # s => t \notin DOMAIN m.desc
  <2>1. ASSUME NEW b \in IntShift(i), Slot(g, b) # s, Slot(g, b) \in LowSlots PROVE FALSE
    <3>1. b \in IntBits .. Word - 1
      BY <1>1, <1>8, <2>1, Widths
    <3>2. Slot(g, b) % Word = b
      BY <1>1, <3>1, SlotIn, Widths
    <3>3. Slot(g, b) % Word \in 0 .. IntBits - 1
      BY <2>1, LowSlotParts
    <3>4. QED BY <3>1, <3>2, <3>3, Widths
  <2>2. QED BY <1>2, <2>1
<1>13. TableInv(n)
  <2>1. n.created = {} /\ DOMAIN n.desc \subseteq LowSlots
    BY <1>2, <1>6, <1>7
  <2>2. ASSUME NEW t \in n.present \cap LowSlots
        PROVE  /\ t \in DOMAIN n.desc /\ n.desc[t].pages > 0
               /\ ~n.desc[t].allocated => n.desc[t].pages < PageModulus
    <3>1. t \in m.present
      BY <1>6, <2>2
    <3>2. CASE t = s
      <4>1. rest.pages # 0
        BY <1>6, <1>9, <2>2, <3>2
      <4>2. QED BY <1>3, <1>4, <1>7, <3>2, <4>1, Widths
    <3>3. CASE t # s
      BY <1>7, <2>2, <3>1, <3>3 DEF TableInv
    <3>4. QED BY <3>2, <3>3
  <2>3. ASSUME NEW h \in Groups, NEW b \in IntBits .. Word - 1
        PROVE  Slot(h, b) \in n.present <=> Slot(h, IntBits - 1) \in n.present
    <3>1. b \in 0 .. Word - 1 /\ IntBits - 1 \in 0 .. Word - 1
      BY Widths
    <3>2. Slot(h, b) \in bits <=> Slot(h, IntBits - 1) \in bits
      BY <1>1, <1>8, <1>10, <3>1, Widths
    <3>3. Slot(h, b) \in m.present <=> Slot(h, IntBits - 1) \in m.present
      BY DEF TableInv
    <3>4. QED BY <1>6, <3>2, <3>3
  <2>4. ASSUME NEW h \in 0 .. IntBits - 1
        PROVE  h \in n.full <=> SlotsOf(h) \subseteq n.present
    <3>1. h \in m.full <=> SlotsOf(h) \subseteq m.present
      BY DEF TableInv
    <3>2. CASE rest.pages # 0
      BY <1>6, <3>1, <3>2
    <3>3. CASE rest.pages = 0 /\ h = g
      <4>1. s \in SlotsOf(g) /\ s \notin n.present /\ g \notin n.full
        BY <1>1, <1>6, <1>9, <3>3 DEF SlotsOf
      <4>2. QED BY <3>3, <4>1
    <3>4. CASE rest.pages = 0 /\ h # g
      <4>1. h \in n.full <=> h \in m.full
        BY <1>1, <1>6, <1>8, <3>4, Widths
      <4>2. SlotsOf(h) \cap bits = {}
        BY <1>10, <3>4, Widths DEF SlotsOf, Groups
      <4>3. QED BY <1>6, <3>1, <3>4, <4>1, <4>2
    <3>5. QED BY <3>2, <3>3, <3>4
  <2>5. ASSUME NEW h \in IntBits .. Word - 1
        PROVE  h \in n.full <=> IntBits - 1 \in n.full
    <3>1. h \in m.full <=> IntBits - 1 \in m.full
      BY DEF TableInv
    <3>2. h \in IntShift(g) <=> IntBits - 1 \in IntShift(g)
      BY <1>1, <1>8, Widths
    <3>3. QED BY <1>6, <3>1, <3>2
  <2>6. QED BY <2>1, <2>2, <2>3, <2>4, <2>5 DEF TableInv
<1>14. ASSUME NEW t \in Slots \ {s}, NEW a \in BOOLEAN PROVE Piece(n, t, a) = Piece(m, t, a)
  <2>1. Desc(n, t) = Desc(m, t)
    BY <1>7 DEF Desc
  <2>2. CASE t \in bits
    <3>1. Desc(m, t).address = 0 /\ Desc(m, t).pages = 0 /\ Pages(0, 0) = {}
      BY <1>12, <2>2 DEF Desc, Pages, Empty
    <3>2. QED BY <2>1, <3>1 DEF Piece
  <2>3. CASE t \notin bits
    BY <1>6, <2>1, <2>3 DEF Piece
  <2>4. QED BY <2>2, <2>3
<1>15. Piece(m, s, FALSE) = Pages(d.address, d.pages) /\ Piece(m, s, TRUE) = {}
  BY <1>3 DEF Piece, Region
<1>16. Desc(n, s) = rest
  BY <1>3, <1>7 DEF Desc
<1>17. Piece(n, s, FALSE) = Pages(d.address + 1, d.pages - 1) /\ Piece(n, s, TRUE) = {}
  <2>1. rest.allocated = FALSE
    BY <1>4 DEF Region
  <2>2. Piece(n, s, TRUE) = {}
    BY <1>16, <2>1 DEF Piece
  <2>3. CASE rest.pages # 0
    BY <1>4, <1>6, <1>16, <2>1, <2>3 DEF Piece
  <2>4. CASE rest.pages = 0
    <3>1. s \notin n.present
      BY <1>6, <1>9, <2>4
    <3>2. d.pages - 1 = 0
      BY <1>4, <2>4
    <3>3. Pages(d.address + 1, d.pages - 1) = {}
      BY <1>3, <3>2 DEF Pages
    <3>4. QED BY <2>2, <3>1, <3>3 DEF Piece
  <2>5. QED BY <2>2, <2>3, <2>4
<1>18. Pages(d.address + 1, d.pages - 1) = Pages(d.address, d.pages) \ {d.address}
       /\ d.address \in Pages(d.address, d.pages)
  BY <1>3 DEF Pages
<1>19. n.present \subseteq m.present
  BY <1>6
<1>20. QED BY <1>3, <1>11, <1>13, <1>14, <1>15, <1>17, <1>18, <1>19 DEF n

\* Table n is m with the pages P described as well, in one slot: the descriptor that
\* grew, or one not higher than any that was not present.
Adds(m, n, F, U, P, allocated) ==
  /\ MapTypes(n) /\ TableInv(n)
  /\ Holds(n, IF allocated THEN F ELSE F \cup P, IF allocated THEN U \cup P ELSE U)
  /\ EarlyFree(m) \subseteq EarlyFree(n)
  /\ \E s \in LowSlots :
       /\ n.present \cap LowSlots \subseteq (m.present \cap LowSlots) \cup {s}
       /\ \A t \in 0 .. IntBits - 1 : t \notin m.present => s <= t
       /\ ~allocated /\ s < IntBits => P \subseteq EarlyFree(n)

\* BlAllocateMemoryDescriptor adds the new memory to what the table describes.
LEMMA LoaderAdds ==
  ASSUME NEW m, MapTypes(m), TableInv(m), ~LoaderFull(m), NEW F, NEW U, Holds(m, F, U),
         NEW address \in Nat, NEW pages \in Nat, pages > 0, NEW allocated \in BOOLEAN,
         ~allocated => pages < PageModulus,
         Pages(address, pages) \cap (F \cup U) = {}
  PROVE  Adds(m, BlAllocateMemoryDescriptor(m, address, pages, allocated), F, U,
              Pages(address, pages), allocated)
<1> DEFINE n == BlAllocateMemoryDescriptor(m, address, pages, allocated)
           P == Pages(address, pages)
           source == MmSourceEntry(m, address)
           g == Min(Groups \ m.full)
           s == Min(SlotsOf(g) \ m.present)
           r == [address |-> address, pages |-> pages, allocated |-> allocated]
<1>1. /\ s \in LowSlots \ m.present /\ GroupOf(s) = g /\ g \notin m.full
      /\ \A t \in 0 .. IntBits - 1 : t \notin m.present => s <= t
  BY FreshSlot
<1>2. s \in Slots
  BY <1>1, LowSlotParts
<1>3. F = UNION {Piece(m, t, FALSE) : t \in Slots} /\ U = UNION {Piece(m, t, TRUE) : t \in Slots}
  BY DEF Holds
<1>4. 0 .. IntBits - 1 \subseteq Slots
  BY FirstSlots
<1>5. CASE allocated /\ source # {}
  <2> DEFINE o == Min(source)
  <2>1. o \in source
    <3>1. source \in SUBSET Nat
      BY DEF MmSourceEntry, Slots
    <3>2. QED BY <1>5, <3>1, MinIn
  <2>2. n = Grown(m, o, pages)
    BY <1>5 DEF BlAllocateMemoryDescriptor, Grown
  <2> HIDE DEF o, n
  <2>3. /\ o \in m.present \cap LowSlots /\ o \in DOMAIN m.desc /\ m.desc[o].allocated
        /\ m.desc[o].address + m.desc[o].pages = address
    BY <2>1, SourceIn
  <2>4. /\ MapTypes(n) /\ TableInv(n) /\ n.present = m.present
        /\ \A t \in Slots \ {o}, a \in BOOLEAN : Piece(n, t, a) = Piece(m, t, a)
        /\ Piece(n, o, TRUE) = Piece(m, o, TRUE) \cup P
        /\ Piece(n, o, FALSE) = {} /\ Piece(m, o, FALSE) = {}
    <3> DEFINE w == Grown(m, o, pages)
    <3>1. /\ MapTypes(w) /\ TableInv(w) /\ w.present = m.present
          /\ \A t \in Slots \ {o}, a \in BOOLEAN : Piece(w, t, a) = Piece(m, t, a)
          /\ Piece(w, o, TRUE) = Piece(m, o, TRUE) \cup Pages(m.desc[o].address + m.desc[o].pages, pages)
          /\ Piece(w, o, FALSE) = {} /\ Piece(m, o, FALSE) = {}
      BY <2>3, GrownKeeps
    <3>2. QED BY <2>2, <2>3, <3>1
  <2>5. o \in Slots
    BY <2>3, LowSlotParts
  <2>6. Piece(m, o, TRUE) \subseteq U
    BY <1>3, <2>5, Zenon
  <2>7. Holds(n, F, U \cup P)
    <3>1. ASSUME NEW a \in BOOLEAN
          PROVE  Piece(n, o, a) \cap ((F \cup U) \ (Piece(m, o, TRUE) \cup Piece(m, o, FALSE))) = {}
      <4>1. CASE a = TRUE
        BY <2>4, <4>1
      <4>2. CASE a = FALSE
        BY <2>4, <4>2
      <4>3. QED BY <4>1, <4>2
    <3>2. Holds(n, (F \ Piece(m, o, FALSE)) \cup Piece(n, o, FALSE),
                   (U \ Piece(m, o, TRUE)) \cup Piece(n, o, TRUE))
      BY <2>4, <2>5, <3>1, PieceChange
    <3>3. /\ (F \ Piece(m, o, FALSE)) \cup Piece(n, o, FALSE) = F
          /\ (U \ Piece(m, o, TRUE)) \cup Piece(n, o, TRUE) = U \cup P
      BY <2>4, <2>6
    <3>4. QED BY <3>2, <3>3
  <2>8. EarlyFree(m) \subseteq EarlyFree(n)
    <3>1. \A t \in 0 .. IntBits - 1 : Piece(m, t, FALSE) \subseteq Piece(n, t, FALSE)
      BY <1>4, <2>4
    <3>2. QED BY <3>1 DEF EarlyFree
  <2>9. QED BY <1>1, <1>5, <2>4, <2>7, <2>8 DEF n, Adds
<1>6. CASE ~(allocated /\ source # {})
  <2>1. n = Entered(m, g, s, r)
    BY <1>6 DEF BlAllocateMemoryDescriptor, Entered
  <2>2. r \in Region /\ r.pages > 0 /\ (~r.allocated => r.pages < PageModulus)
        /\ r.address = address /\ r.pages = pages /\ r.allocated = allocated
    BY DEF Region
  <2> HIDE DEF n, r, s, g
  <2>3. /\ MapTypes(n) /\ TableInv(n)
        /\ n.present \cap LowSlots = (m.present \cap LowSlots) \cup {s}
        /\ \A t \in Slots \ {s}, a \in BOOLEAN : Piece(n, t, a) = Piece(m, t, a)
        /\ \A a \in BOOLEAN : Piece(n, s, a) = IF a = allocated THEN P ELSE {}
        /\ \A a \in BOOLEAN : Piece(m, s, a) = {}
    BY <1>1, <2>1, <2>2, EnteredKeeps
  <2>4. Piece(m, s, TRUE) = {} /\ Piece(m, s, FALSE) = {}
    BY <2>3
  <2>5. /\ Piece(n, s, TRUE) = IF allocated THEN P ELSE {}
        /\ Piece(n, s, FALSE) = IF allocated THEN {} ELSE P
    <3>1. CASE allocated = TRUE
      BY <2>3, <3>1
    <3>2. CASE allocated = FALSE
      BY <2>3, <3>2
    <3>3. QED BY <3>1, <3>2
  <2>6. Holds(n, IF allocated THEN F ELSE F \cup P, IF allocated THEN U \cup P ELSE U)
    <3>1. ASSUME NEW a \in BOOLEAN
          PROVE  Piece(n, s, a) \cap ((F \cup U) \ (Piece(m, s, TRUE) \cup Piece(m, s, FALSE))) = {}
      <4>1. Piece(n, s, a) = P \/ Piece(n, s, a) = {}
        BY <2>3
      <4>2. QED BY <4>1
    <3>2. Holds(n, (F \ Piece(m, s, FALSE)) \cup Piece(n, s, FALSE),
                   (U \ Piece(m, s, TRUE)) \cup Piece(n, s, TRUE))
      BY <1>2, <2>3, <3>1, PieceChange
    <3>3. /\ (F \ Piece(m, s, FALSE)) \cup Piece(n, s, FALSE) = IF allocated THEN F ELSE F \cup P
          /\ (U \ Piece(m, s, TRUE)) \cup Piece(n, s, TRUE) = IF allocated THEN U \cup P ELSE U
      BY <2>4, <2>5
    <3>4. QED BY <3>2, <3>3
  <2>7. EarlyFree(m) \subseteq EarlyFree(n)
    <3>1. ASSUME NEW t \in 0 .. IntBits - 1 PROVE Piece(m, t, FALSE) \subseteq Piece(n, t, FALSE)
      <4>1. CASE t = s
        BY <2>4, <4>1
      <4>2. CASE t # s
        BY <1>4, <2>3, <4>2
      <4>3. QED BY <4>1, <4>2
    <3>2. QED BY <3>1 DEF EarlyFree
  <2>8. ~allocated /\ s < IntBits => P \subseteq EarlyFree(n)
    <3>1. HAVE ~allocated /\ s < IntBits
    <3>2. s \in 0 .. IntBits - 1
      BY <1>2, <3>1, Widths DEF Slots
    <3>3. QED BY <2>5, <3>1, <3>2 DEF EarlyFree
  <2>9. QED BY <1>1, <2>3, <2>6, <2>7, <2>8 DEF n, Adds
<1>7. QED BY <1>5, <1>6

\* The kernel cuts a run of pages off the start of a free descriptor, and describes it in
\* a slot of its own: the run moves from free to used.
LEMMA RunMoves ==
  ASSUME NEW m, MapTypes(m), TableInv(m), ~LoaderFull(m), NEW F, NEW U, Holds(m, F, U),
         NEW s \in m.present, ~Desc(m, s).allocated, NEW k \in Nat, k > 0,
         Desc(m, s).pages >= k
  PROVE  LET n == CutRun(m, s, k)
             P == Pages(Desc(m, s).address, k)
         IN  /\ MapTypes(n) /\ P \subseteq F /\ Holds(n, F \ P, U \cup P)
             /\ s \in n.present /\ s \in Slots /\ Desc(n, s).pages = Desc(m, s).pages - k
             /\ Desc(m, s).address \in Nat
<1> DEFINE d == Desc(m, s)
           cut == [address |-> d.address + k, pages |-> d.pages - k, allocated |-> FALSE]
           run == [address |-> d.address, pages |-> k, allocated |-> TRUE]
           g == Min(Groups \ m.full)
           f == Min(SlotsOf(g) \ m.present)
           present == m.present \cup {f}
           full == IF SlotsOf(g) \subseteq present THEN m.full \cup {g} ELSE m.full
           vdesc == [t \in DOMAIN m.desc |-> IF t = s THEN cut ELSE m.desc[t]]
           ndesc == [t \in DOMAIN m.desc \cup {f} |->
                       IF t = f THEN run ELSE IF t = s THEN cut ELSE m.desc[t]]
           P == Pages(d.address, k)
           v == [desc |-> vdesc, present |-> m.present, full |-> m.full, created |-> {}]
           n == CutRun(m, s, k)
<1>1. /\ f \in LowSlots \ m.present /\ f \in Slots /\ f # s /\ g \in Groups /\ s \in Slots
  <2>1. g \in 0 .. IntBits - 1 /\ f \in LowSlots \ m.present
    BY FreshSlot
  <2>2. s \in Slots
    BY DEF MapTypes
  <2> HIDE DEF f, g
  <2>3. g \in Groups
    BY <2>1, Widths DEF Groups
  <2>4. QED BY <2>1, <2>2, <2>3, LowSlotParts
<1>2. /\ m.full \subseteq Groups /\ m.present \subseteq Slots /\ m.created = {}
      /\ m = [desc |-> m.desc, present |-> m.present, full |-> m.full, created |-> m.created]
      /\ m.desc \in [DOMAIN m.desc -> Region] /\ DOMAIN m.desc \subseteq Slots
  BY DEF MapTypes, TableInv
<1>3. s \in DOMAIN m.desc
  BY DEF Desc, Empty
<1>4. d = m.desc[s] /\ d \in Region /\ d.pages \in Nat /\ d.address \in Nat
      /\ d = [address |-> d.address, pages |-> d.pages, allocated |-> FALSE]
      /\ d.pages >= k
  BY <1>2, <1>3 DEF Desc, Region
<1> HIDE DEF d
<1>5. cut \in Region /\ run \in Region
  <2>1. d.pages - k \in Nat /\ d.address + k \in Nat
    BY <1>4
  <2>2. QED BY <1>4, <2>1 DEF Region
<1>6. n = [desc |-> ndesc, present |-> present, full |-> full, created |-> {f}]
  <2> DEFINE w == MmCreateMemoryDescriptor(m, d.address, k)
             wdesc == [t \in DOMAIN m.desc \cup {f} |-> IF t = f THEN run ELSE m.desc[t]]
             c1 == [d EXCEPT !.address = @ + k]
             w1 == [w EXCEPT !.desc = [wdesc EXCEPT ![s] = c1]]
  <2>1. w = [[[[m EXCEPT !.desc = wdesc] EXCEPT !.present = present]
                EXCEPT !.created = m.created \cup {f}] EXCEPT !.full = full]
    BY <1>2 DEF MmCreateMemoryDescriptor, Written
  <2> HIDE DEF w, wdesc, f, present, full
  <2>2. w = [desc |-> wdesc, present |-> present, full |-> full, created |-> {f}]
    <3> DEFINE m1 == [m EXCEPT !.desc = wdesc]
               m2 == [m1 EXCEPT !.present = present]
               m3 == [m2 EXCEPT !.created = m.created \cup {f}]
    <3>1. m1 = [desc |-> wdesc, present |-> m.present, full |-> m.full, created |-> m.created]
      BY <1>2
    <3>2. w = [m3 EXCEPT !.full = full]
      BY <2>1
    <3> HIDE DEF m1
    <3>3. m2 = [desc |-> wdesc, present |-> present, full |-> m.full, created |-> m.created]
      BY <3>1
    <3> HIDE DEF m2
    <3>4. m3 = [desc |-> wdesc, present |-> present, full |-> m.full, created |-> {f}]
      BY <1>2, <3>3
    <3> HIDE DEF m3
    <3>5. QED BY <3>2, <3>4
  <2>3. w.desc = wdesc
    BY <2>2
  <2>4. wdesc[s] = d /\ wdesc = [t \in DOMAIN m.desc \cup {f} |-> IF t = f THEN run ELSE m.desc[t]]
    BY <1>1, <1>3, <1>4 DEF wdesc
  <2>5. c1 = [address |-> d.address + k, pages |-> d.pages, allocated |-> FALSE]
    <3> DEFINE a == d.address
               p == d.pages
               x == d.address + k
               l == FALSE
    <3>1. d = [address |-> a, pages |-> p, allocated |-> l]
      BY <1>4
    <3>2. c1 = [d EXCEPT !.address = x]
      OBVIOUS
    <3> HIDE DEF a, p, x, l
    <3>3. [d EXCEPT !.address = x] = [address |-> x, pages |-> p, allocated |-> l]
      BY <3>1
    <3>4. QED BY <3>2, <3>3 DEF a, p, x, l
  <2>6. n = [w1 EXCEPT !.desc = [w1.desc EXCEPT ![s] = [w1.desc[s] EXCEPT !.pages = @ - k]]]
    <3>1. n = [[w EXCEPT !.desc[s].address = @ + k] EXCEPT !.desc[s].pages = @ - k]
      BY DEF CutRun, w, d
    <3>2. [w EXCEPT !.desc[s].address = @ + k] = w1
      BY <2>3, <2>4
    <3> HIDE DEF n, w1
    <3>3. QED BY <3>1, <3>2
  <2> HIDE DEF n, c1
  <2>7. w1 = [desc |-> [wdesc EXCEPT ![s] = c1], present |-> present, full |-> full, created |-> {f}]
    BY <2>2
  <2>8. w1.desc = [wdesc EXCEPT ![s] = c1]
    BY <2>7
  <2> HIDE DEF w1
  <2>9. w1.desc[s] = c1 /\ w1.desc = [t \in DOMAIN m.desc \cup {f} |->
                               IF t = f THEN run ELSE IF t = s THEN c1 ELSE m.desc[t]]
    BY <1>1, <1>3, <2>4, <2>8
  <2>10. [c1 EXCEPT !.pages = @ - k] = cut
    <3> DEFINE x == d.address + k
               p == d.pages
               e == d.pages - k
               l == FALSE
    <3>1. c1 = [address |-> x, pages |-> p, allocated |-> l]
      BY <2>5
    <3>2. cut = [address |-> x, pages |-> e, allocated |-> l] /\ e = p - k
      OBVIOUS
    <3> HIDE DEF x, p, e, l, cut
    <3>3. c1.pages = p
      BY <3>1
    <3>4. [c1 EXCEPT !.pages = e] = [address |-> x, pages |-> e, allocated |-> l]
      BY <3>1
    <3>5. QED BY <3>2, <3>3, <3>4
  <2>11. n = [w1 EXCEPT !.desc = [w1.desc EXCEPT ![s] = cut]]
    BY <2>6, <2>9, <2>10
  <2>12. [w1.desc EXCEPT ![s] = cut] = ndesc
    BY <1>1, <1>3, <2>9
  <2> HIDE DEF ndesc, cut
  <2>13. QED BY <2>7, <2>11, <2>12
<1>7. n.desc = ndesc /\ n.present = present /\ n.full = full /\ n.created = {f}
  BY <1>6
<1> HIDE DEF n
<1>8. MapTypes(n)
  <2>1. ndesc \in [DOMAIN m.desc \cup {f} -> Region] /\ DOMAIN m.desc \cup {f} \in SUBSET Slots
    BY <1>1, <1>2, <1>5
  <2>2. present \in SUBSET Slots /\ full \in SUBSET Groups /\ {f} \in SUBSET Slots
    BY <1>1, <1>2
  <2> HIDE DEF ndesc, present, full, f
  <2>3. QED BY <1>6, <2>1, <2>2 DEF MapTypes
<1>9. /\ \A t \in Slots \ {s} : Desc(v, t) = Desc(m, t)
      /\ Desc(v, s) = cut /\ v.present = m.present
      /\ \A t \in Slots \ {f} : Desc(n, t) = Desc(v, t)
      /\ Desc(n, f) = run /\ Desc(n, s) = cut
  BY <1>1, <1>3, <1>7 DEF Desc
<1> HIDE DEF v, cut, run, f
<1>10. /\ \A t \in Slots \ {s}, a \in BOOLEAN : Piece(v, t, a) = Piece(m, t, a)
       /\ \A t \in Slots \ {f}, a \in BOOLEAN : Piece(n, t, a) = Piece(v, t, a)
       /\ \A a \in BOOLEAN : Piece(v, f, a) = {}
  BY <1>1, <1>7, <1>9 DEF Piece
<1>11. /\ Piece(m, s, FALSE) = Pages(d.address, d.pages) /\ Piece(m, s, TRUE) = {}
       /\ Piece(v, s, FALSE) = Pages(d.address + k, d.pages - k) /\ Piece(v, s, TRUE) = {}
       /\ Piece(n, f, TRUE) = P /\ Piece(n, f, FALSE) = {}
  <2>1. Desc(m, s) = d
    BY DEF d
  <2>2. d.allocated = FALSE
    BY <1>4
  <2>3. cut.address = d.address + k /\ cut.pages = d.pages - k /\ cut.allocated = FALSE
    BY DEF cut
  <2>4. run.address = d.address /\ run.pages = k /\ run.allocated = TRUE
    BY DEF run
  <2>5. f \in n.present /\ s \in v.present
    BY <1>7, <1>9
  <2>6. QED BY <1>9, <2>1, <2>2, <2>3, <2>4, <2>5 DEF Piece
<1>12. /\ Pages(d.address, d.pages) = P \cup Pages(d.address + k, d.pages - k)
       /\ P \cap Pages(d.address + k, d.pages - k) = {}
  <2> DEFINE a == d.address
             e == d.pages - k
  <2>1. e \in Nat /\ a \in Nat /\ d.pages = k + e
    BY <1>4
  <2> HIDE DEF a, e
  <2>2. Pages(a, k + e) = Pages(a, k) \cup Pages(a + k, e) /\ Pages(a, k) \cap Pages(a + k, e) = {}
    BY <2>1, PagesSplit
  <2>3. QED BY <2>1, <2>2 DEF a, e
<1> HIDE DEF P
<1>13. F = UNION {Piece(m, t, FALSE) : t \in Slots}
  BY DEF Holds
<1>14. Piece(m, s, FALSE) \subseteq F
  BY <1>1, <1>13, Zenon
<1>15. Holds(v, F \ P, U)
  <2>1. ASSUME NEW a \in BOOLEAN
        PROVE  Piece(v, s, a) \cap ((F \cup U) \ (Piece(m, s, TRUE) \cup Piece(m, s, FALSE))) = {}
    <3>1. CASE a = TRUE
      BY <1>11, <3>1
    <3>2. CASE a = FALSE
      BY <1>11, <1>12, <3>2
    <3>3. QED BY <3>1, <3>2
  <2>2. Holds(v, (F \ Piece(m, s, FALSE)) \cup Piece(v, s, FALSE),
                 (U \ Piece(m, s, TRUE)) \cup Piece(v, s, TRUE))
    BY <1>1, <1>10, <2>1, PieceChange
  <2>3. /\ (F \ Piece(m, s, FALSE)) \cup Piece(v, s, FALSE) = F \ P
        /\ (U \ Piece(m, s, TRUE)) \cup Piece(v, s, TRUE) = U
    BY <1>11, <1>12, <1>14
  <2>4. QED BY <2>2, <2>3
<1>16. P \cap U = {}
  <2>1. ASSUME NEW x \in P, x \in U PROVE FALSE
    <3>1. x \in Piece(m, s, FALSE)
      BY <1>11, <1>12
    <3>2. PICK t \in Slots : x \in Piece(m, t, TRUE)
      BY <2>1 DEF Holds
    <3>3. t # s
      BY <1>11, <3>2
    <3>4. Piece(m, s, FALSE) \cap Piece(m, t, TRUE) = {}
      BY <1>1, <3>3 DEF Holds
    <3>5. QED BY <3>1, <3>2, <3>4
  <2>2. QED BY <2>1
<1>17. Holds(n, F \ P, U \cup P)
  <2>1. Piece(v, f, TRUE) = {} /\ Piece(v, f, FALSE) = {}
    BY <1>10
  <2>2. ASSUME NEW a \in BOOLEAN
        PROVE  Piece(n, f, a) \cap (((F \ P) \cup U) \ (Piece(v, f, TRUE) \cup Piece(v, f, FALSE))) = {}
    <3>1. CASE a = TRUE
      BY <1>11, <1>16, <3>1
    <3>2. CASE a = FALSE
      BY <1>11, <3>2
    <3>3. QED BY <3>1, <3>2
  <2>3. Holds(n, ((F \ P) \ Piece(v, f, FALSE)) \cup Piece(n, f, FALSE),
                 (U \ Piece(v, f, TRUE)) \cup Piece(n, f, TRUE))
    BY <1>1, <1>10, <1>15, <2>2, PieceChange
  <2>4. /\ ((F \ P) \ Piece(v, f, FALSE)) \cup Piece(n, f, FALSE) = F \ P
        /\ (U \ Piece(v, f, TRUE)) \cup Piece(n, f, TRUE) = U \cup P
    BY <1>11, <2>1
  <2>5. QED BY <2>3, <2>4
<1>18. Desc(n, s).pages = d.pages - k /\ s \in n.present /\ P \subseteq F
  <2>1. Desc(n, s).pages = d.pages - k
    BY <1>9 DEF cut
  <2>2. s \in n.present
    BY <1>7
  <2>3. P \subseteq F
    BY <1>11, <1>12, <1>14
  <2>4. QED BY <2>1, <2>2, <2>3
<1>19. QED BY <1>1, <1>4, <1>8, <1>17, <1>18 DEF n, P, d

-----------------------------------------------------------------------------
(* There is room: the table never fills while the loader fills it.           *)

LEMMA RoomForMap ==
  IsFiniteSet(LowSlots) /\ Cardinality(LowSlots) = IntBits * IntBits
<1> DEFINE A == 0 .. IntBits - 1
           f == [p \in A \X A |-> Slot(p[1], p[2])]
<1>1. IsFiniteSet(A) /\ Cardinality(A) = IntBits
  BY Widths, FS_Interval
<1>2. IsFiniteSet(A \X A) /\ Cardinality(A \X A) = IntBits * IntBits
  BY <1>1, FS_Product
<1>3. f \in [A \X A -> LowSlots]
  BY DEF LowSlots
<1>4. \A s \in LowSlots : \E p \in A \X A : f[p] = s
  <2>1. ASSUME NEW i \in A, NEW j \in A PROVE f[<<i, j>>] = Slot(i, j) /\ <<i, j>> \in A \X A
    OBVIOUS
  <2>2. ASSUME NEW s \in LowSlots PROVE \E p \in A \X A : f[p] = s
    <3>1. PICK i \in A, j \in A : s = Slot(i, j)
      BY DEF LowSlots
    <3>2. f[<<i, j>>] = s /\ <<i, j>> \in A \X A
      BY <2>1, <3>1
    <3> HIDE DEF f, A
    <3>3. QED BY <3>2
  <2>3. QED BY <2>2
<1>5. ASSUME NEW p \in A \X A, NEW q \in A \X A, f[p] = f[q] PROVE p = q
  <2>1. /\ p[1] \in Groups /\ q[1] \in Groups
        /\ p[2] \in 0 .. Word - 1 /\ q[2] \in 0 .. Word - 1
    BY Widths DEF Groups
  <2>2. Slot(p[1], p[2]) = Slot(q[1], q[2])
    BY <1>5
  <2>3. p[1] = q[1] /\ p[2] = q[2]
    BY <2>1, <2>2, SlotsDiffer
  <2>4. QED BY <2>3
<1> HIDE DEF f, A
<1>6. f \in Bijection(A \X A, LowSlots)
  BY <1>3, <1>4, <1>5 DEF Bijection, Injection, Surjection, IsInjective
<1>7. ExistsBijection(A \X A, LowSlots)
  BY <1>6 DEF ExistsBijection
<1>8. QED BY <1>2, <1>7, FS_Bijection

LEMMA NotFull ==
  ASSUME NEW m, TableInv(m), Cardinality(m.present \cap LowSlots) < IntBits * IntBits
  PROVE  ~LoaderFull(m)
<1>1. SUFFICES ASSUME m.full = Groups PROVE FALSE
  BY DEF LoaderFull
<1>2. ASSUME NEW s \in LowSlots PROVE s \in m.present
  <2>1. s \in Slots /\ GroupOf(s) \in 0 .. IntBits - 1
    BY LowSlotParts
  <2>2. GroupOf(s) \in Groups /\ s \in SlotsOf(GroupOf(s))
    BY <2>1, SlotParts DEF SlotsOf
  <2>3. SlotsOf(GroupOf(s)) \subseteq m.present
    BY <1>1, <2>1, <2>2 DEF TableInv
  <2>4. QED BY <2>2, <2>3
<1>3. m.present \cap LowSlots = LowSlots
  BY <1>2
<1> DEFINE k == IntBits * IntBits
           c == Cardinality(m.present \cap LowSlots)
<1>4. k \in Nat
  BY Widths
<1>5. c = k
  BY <1>3, RoomForMap, Zenon
<1>6. c < k
  OBVIOUS
<1> HIDE DEF k, c
<1>7. QED BY <1>4, <1>5, <1>6

\* One more slot is one more.
LEMMA OneMore ==
  ASSUME NEW m, NEW n, NEW s, NEW k \in Nat, Cardinality(m.present \cap LowSlots) <= k,
         n.present \cap LowSlots \subseteq (m.present \cap LowSlots) \cup {s}
  PROVE  Cardinality(n.present \cap LowSlots) <= k + 1
<1> DEFINE M == m.present \cap LowSlots
           N == n.present \cap LowSlots
<1>1. IsFiniteSet(M)
  BY RoomForMap, FS_Subset
<1> HIDE DEF M
<1>2. /\ IsFiniteSet(M \cup {s}) /\ Cardinality(M) \in Nat
      /\ Cardinality(M \cup {s}) <= Cardinality(M) + 1 /\ Cardinality(M \cup {s}) \in Nat
  <2>1. Cardinality(M) \in Nat
    BY <1>1, FS_CardinalityType
  <2>2. IsFiniteSet(M \cup {s}) /\ Cardinality(M \cup {s}) <= Cardinality(M) + 1
    <3>1. /\ IsFiniteSet(M \cup {s})
          /\ Cardinality(M \cup {s}) = IF s \in M THEN Cardinality(M) ELSE Cardinality(M) + 1
      BY <1>1, FS_AddElement, Zenon
    <3>2. QED BY <2>1, <3>1
  <2>3. Cardinality(M \cup {s}) \in Nat
    BY <2>2, FS_CardinalityType
  <2>4. QED BY <2>1, <2>2, <2>3
<1>3. N \subseteq M \cup {s}
  BY DEF M
<1> HIDE DEF N
<1>4. IsFiniteSet(N) /\ Cardinality(N) <= Cardinality(M \cup {s}) /\ Cardinality(N) \in Nat
  BY <1>2, <1>3, FS_Subset, FS_CardinalityType
<1>5. Cardinality(M) <= k
  BY DEF M
<1>6. Cardinality(N) <= k + 1
  BY <1>2, <1>4, <1>5
<1>7. QED BY <1>6 DEF N

LEMMA MapFacts ==
  ASSUME firmware \in FirmwareMaps
  PROVE  /\ firmware \in Seq([start : Nat, pages : 1 .. PageModulus - 1, type : MemoryTypes])
         /\ \A i, j \in DOMAIN firmware :
              i # j => Pages(firmware[i].start, firmware[i].pages)
                         \cap Pages(firmware[j].start, firmware[j].pages) = {}
         /\ Len(firmware) \in Nat /\ DOMAIN firmware = 1 .. Len(firmware)
         /\ Len(firmware) + MaxTables < IntBits * IntBits
<1>1. /\ firmware \in Seq([start : Nat, pages : 1 .. PageModulus - 1, type : MemoryTypes])
      /\ \A i, j \in DOMAIN firmware :
           i # j => Pages(firmware[i].start, firmware[i].pages)
                      \cap Pages(firmware[j].start, firmware[j].pages) = {}
  BY MapAssumption
<1>2. Len(firmware) + MaxTables < IntBits * IntBits
  BY RoomAssumption
<1>3. Len(firmware) \in Nat /\ DOMAIN firmware = 1 .. Len(firmware)
  BY <1>1
<1>4. QED BY <1>1, <1>2, <1>3

\* The page tables do not use up what the firmware reported first.
LEMMA EarlyLeft ==
  ASSUME PhaseInv, TakenInv, phase = "tables", Len(tables) < MaxTables,
         Early \subseteq EarlyFree(map) \cup HandedOut
  PROVE  EarlyFree(map) # {}
<1>1. SUFFICES ASSUME Early \subseteq HandedOut PROVE FALSE
  OBVIOUS
<1> DEFINE D == DOMAIN tables
           T == {tables[i] : i \in D}
<1>2. D = 1 .. Len(tables) /\ Len(tables) \in Nat /\ vmmBuffer = {} /\ MaxTables \in Nat
  BY Widths DEF PhaseInv, Loading
<1>3. Early \subseteq T
  BY <1>1, <1>2 DEF HandedOut
<1>4. IsFiniteSet(D) /\ Cardinality(D) = Len(tables)
  <2> DEFINE n == Len(tables)
  <2>1. n \in Nat /\ D = 1 .. n
    BY <1>2
  <2> HIDE DEF n, D
  <2>2. IsFiniteSet(1 .. n) /\ Cardinality(1 .. n) = n
    BY <2>1, FS_Interval
  <2>3. QED BY <2>1, <2>2 DEF n
<1>5. tables \in Surjection(D, T)
  BY DEF Surjection, PhaseInv
<1> HIDE DEF T, D
<1>6. IsFiniteSet(T) /\ Cardinality(T) <= Cardinality(D)
  BY <1>4, <1>5, FS_Surjection
<1>7. IsFiniteSet(Early) /\ Cardinality(Early) <= Cardinality(T)
  BY <1>3, <1>6, FS_Subset
<1>8. Cardinality(Early) \in Nat /\ Cardinality(T) \in Nat
  BY <1>6, <1>7, FS_CardinalityType
<1>9. Cardinality(Early) > MaxTables
  <2>1. firmware \in FirmwareMaps /\ entry = Len(firmware) + 1
    BY DEF PhaseInv
  <2>2. DOMAIN firmware = 1 .. entry - 1
    BY <2>1, MapFacts
  <2>3. EarlyEntries = {j \in DOMAIN firmware :
                          j <= IntBits /\ firmware[j].type = "EfiConventionalMemory"}
    BY <2>2 DEF EarlyEntries
  <2>4. QED BY <2>1, <2>3, RoomAssumption DEF Early
<1>10. QED BY <1>2, <1>4, <1>6, <1>7, <1>8, <1>9

-----------------------------------------------------------------------------
(* The steps.                                                                *)

\* A phase that starts takes over the table it finds.
LEMMA PhaseKeeps ==
  ASSUME BootInv, UNCHANGED <<firmware, entry, map, tables, vmmBuffer>>,
         \/ phase' = phase
         \/ phase = "map" /\ entry \notin DOMAIN firmware /\ phase' = "tables"
         \/ phase = "tables" /\ phase' = "kernel"
         \/ phase' \in {"walk", "cut", "ready", "halted"}
  PROVE  BootInv'
<1>1. HandedOut' = HandedOut /\ Early' = Early
      /\ Reported("EfiConventionalMemory")' = Reported("EfiConventionalMemory")
      /\ Reported("EfiLoaderData")' = Reported("EfiLoaderData")
  BY DEF HandedOut, Early, EarlyEntries, Reported
<1>2. PhaseInv'
  <2>1. phase = "map" /\ entry \notin DOMAIN firmware => entry = Len(firmware) + 1
    BY MapFacts DEF BootInv, PhaseInv
  <2>2. QED BY <2>1 DEF BootInv, PhaseInv, Loading, MapTypes
<1>3. TakenInv'
  BY <1>1 DEF BootInv, TakenInv
<1>4. MemoryInv'
  BY <1>1 DEF BootInv, MemoryInv, Holds, Piece, Desc
<1>5. LoaderInv'
  <2>1. CASE phase \in Loading
    <3>1. /\ TableInv(map)' /\ EarlyFree(map)' = EarlyFree(map)
      BY <2>1 DEF BootInv, LoaderInv, TableInv, EarlyFree, Piece, Desc
    <3>2. (phase = "map")' => phase = "map"
      BY <2>1 DEF Loading
    <3>3. QED BY <1>1, <2>1, <3>1, <3>2 DEF BootInv, LoaderInv
  <2>2. CASE phase \notin Loading
    BY <2>2 DEF LoaderInv, Loading
  <2>3. QED BY <2>1, <2>2
<1>6. QED BY <1>2, <1>3, <1>4, <1>5 DEF BootInv

LEMMA ReportedMore ==
  ASSUME entry \in Nat \ {0}, firmware' = firmware, entry' = entry + 1, NEW type
  PROVE  Reported(type)' = Reported(type) \cup
           (IF firmware[entry].type = type
            THEN Pages(firmware[entry].start, firmware[entry].pages) ELSE {})
<1>1. 1 .. entry' - 1 = (1 .. entry - 1) \cup {entry}
  OBVIOUS
<1>2. QED BY <1>1 DEF Reported

LEMMA EarlyMore ==
  ASSUME entry \in Nat \ {0}, firmware' = firmware, entry' = entry + 1
  PROVE  Early' \subseteq Early \cup
           (IF entry <= IntBits /\ firmware[entry].type = "EfiConventionalMemory"
            THEN Pages(firmware[entry].start, firmware[entry].pages) ELSE {})
<1>1. 1 .. entry' - 1 = (1 .. entry - 1) \cup {entry}
  OBVIOUS
<1>2. EarlyEntries' = EarlyEntries \cup
         (IF entry <= IntBits /\ firmware[entry].type = "EfiConventionalMemory" THEN {entry} ELSE {})
  BY <1>1 DEF EarlyEntries
<1>3. QED BY <1>2 DEF Early

LEMMA CopyKeeps == BootInv /\ CopyEntry => BootInv'
<1> SUFFICES ASSUME BootInv, CopyEntry PROVE BootInv'
  OBVIOUS
<1> DEFINE e == firmware[entry]
           P == Pages(e.start, e.pages)
           F == Reported("EfiConventionalMemory")
           U == Reported("EfiLoaderData")
           free == e.type = "EfiConventionalMemory"
<1>1. /\ phase = "map" /\ entry \in DOMAIN firmware /\ firmware \in FirmwareMaps
      /\ tables = <<>> /\ vmmBuffer = {} /\ MapTypes(map) /\ TableInv(map)
      /\ UNCHANGED <<firmware, tables, vmmBuffer>>
      /\ Cardinality(map.present \cap LowSlots) <= entry - 1
      /\ \A s \in map.present : s < IntBits => s < entry - 1
  BY DEF BootInv, PhaseInv, LoaderInv, CopyEntry, Loading
<1>2. /\ entry \in Nat \ {0} /\ entry + 1 \in 1 .. Len(firmware) + 1
      /\ e.start \in Nat /\ e.pages \in Nat /\ e.pages > 0 /\ e.pages < PageModulus
      /\ e.type \in MemoryTypes
  <2>1. /\ firmware \in Seq([start : Nat, pages : 1 .. PageModulus - 1, type : MemoryTypes])
        /\ Len(firmware) \in Nat /\ entry \in 1 .. Len(firmware)
    BY <1>1, MapFacts
  <2>2. e \in [start : Nat, pages : 1 .. PageModulus - 1, type : MemoryTypes]
    <3> DEFINE R == [start : Nat, pages : 1 .. PageModulus - 1, type : MemoryTypes]
    <3>1. firmware \in Seq(R) /\ e = firmware[entry]
      BY <2>1
    <3> HIDE DEF R, e
    <3>2. e \in R
      BY <2>1, <3>1
    <3>3. QED BY <3>2 DEF R
  <2>3. QED BY <2>1, <2>2, Widths
<1>3. HandedOut = {} /\ HandedOut' = {} /\ F \ {} = F /\ U \cup {} = U
  BY <1>1 DEF HandedOut
<1>4. Holds(map, F, U) /\ Early \subseteq EarlyFree(map)
  <2>1. Holds(map, F \ HandedOut, U \cup HandedOut)
    BY DEF BootInv, MemoryInv
  <2>2. Early \subseteq EarlyFree(map) \cup HandedOut
    BY <1>1 DEF BootInv, LoaderInv, Loading
  <2>3. QED BY <1>3, <2>1, <2>2
<1>5. P \cap (F \cup U) = {}
  <2>1. ASSUME NEW type, NEW x \in Reported(type), x \in P PROVE FALSE
    <3>1. PICK i \in 1 .. entry - 1 : x \in Pages(firmware[i].start, firmware[i].pages)
      BY <2>1 DEF Reported
    <3>2. i \in DOMAIN firmware /\ i # entry
      BY <1>1, <1>2, MapFacts
    <3>3. QED BY <1>1, <2>1, <3>1, <3>2, MapFacts
  <2>2. QED BY <2>1
<1>6. TakenInv'
  BY <1>1, <1>3 DEF TakenInv
<1>7. CASE e.type = "Reserved"
  <2>1. entry' = entry + 1 /\ map' = map /\ phase' = phase
    BY <1>7 DEF CopyEntry
  <2>2. F' = F /\ U' = U /\ Early' \subseteq Early
    BY <1>1, <1>2, <1>7, <2>1, ReportedMore, EarlyMore
  <2>3. PhaseInv'
    BY <1>1, <1>2, <2>1 DEF BootInv, PhaseInv, MapTypes, Loading
  <2>4. MemoryInv'
    <3> HIDE DEF F, U
    <3>1. Holds(map', F', U')
      BY <1>4, <2>1, <2>2, Zenon
    <3>2. F' = Reported("EfiConventionalMemory")' \ HandedOut'
          /\ U' = Reported("EfiLoaderData")' \cup HandedOut'
      BY <1>3 DEF F, U
    <3>3. Holds(map', Reported("EfiConventionalMemory")' \ HandedOut',
                      Reported("EfiLoaderData")' \cup HandedOut')
      BY <3>1, <3>2, Zenon
    <3>4. QED BY <3>3 DEF MemoryInv, Holds, Piece, Desc
  <2>5. LoaderInv'
    <3>1. TableInv(map)' /\ EarlyFree(map)' = EarlyFree(map)
      BY <1>1, <2>1 DEF TableInv, EarlyFree, Piece, Desc
    <3>2. entry' - 1 + Len(tables') = (entry - 1) + 1 /\ entry - 1 \in Nat
      BY <1>1, <1>2, <2>1
    <3>3. Cardinality(map'.present \cap LowSlots) <= entry' - 1 + Len(tables')
      <4>1. map'.present \cap LowSlots \subseteq (map.present \cap LowSlots) \cup {0}
        BY <2>1
      <4>2. Cardinality(map'.present \cap LowSlots) <= (entry - 1) + 1
        BY <1>1, <3>2, <4>1, OneMore
      <4>3. QED BY <3>2, <4>2
    <3>4. \A s \in map'.present : s < IntBits => s < entry' - 1
      BY <1>1, <1>2, <2>1, Widths DEF MapTypes, Slots
    <3>5. Early' \subseteq EarlyFree(map)' \cup HandedOut'
      BY <1>4, <2>2, <3>1
    <3>6. QED BY <3>1, <3>3, <3>4, <3>5 DEF LoaderInv
  <2>6. QED BY <1>6, <2>3, <2>4, <2>5 DEF BootInv
<1>8. CASE e.type # "Reserved" /\ LoaderFull(map)
  <2>1. UNCHANGED <<firmware, entry, map, tables, vmmBuffer>> /\ phase' = "halted"
    BY <1>8 DEF CopyEntry
  <2>2. QED BY <2>1, PhaseKeeps
<1>9. CASE e.type # "Reserved" /\ ~LoaderFull(map)
  <2> DEFINE used == e.type = "EfiLoaderData"
  <2>1. /\ entry' = entry + 1 /\ phase' = phase
        /\ map' = BlAllocateMemoryDescriptor(map, e.start, e.pages, used)
    BY <1>9 DEF CopyEntry
  <2>2. used \in BOOLEAN /\ (~used <=> e.type = "EfiConventionalMemory")
    BY <1>2, <1>9 DEF MemoryTypes
  <2>3. /\ F' = F \cup (IF used THEN {} ELSE P)
        /\ U' = U \cup (IF used THEN P ELSE {})
    BY <1>1, <1>2, <2>1, <2>2, ReportedMore
  <2>4. Early' \subseteq Early \cup (IF entry <= IntBits /\ ~used THEN P ELSE {})
    BY <1>1, <1>2, <2>1, <2>2, EarlyMore
  <2> HIDE DEF used, F, U, P, e
  <2>5. /\ MapTypes(map') /\ TableInv(map')
        /\ Holds(map', IF used THEN F ELSE F \cup P, IF used THEN U \cup P ELSE U)
        /\ EarlyFree(map) \subseteq EarlyFree(map')
        /\ \E s \in LowSlots :
             /\ map'.present \cap LowSlots \subseteq (map.present \cap LowSlots) \cup {s}
             /\ \A t \in 0 .. IntBits - 1 : t \notin map.present => s <= t
             /\ ~used /\ s < IntBits => P \subseteq EarlyFree(map')
    <3> DEFINE a == e.start
               c == e.pages
    <3>1. /\ a \in Nat /\ c \in Nat /\ c > 0 /\ (~used => c < PageModulus)
          /\ Pages(a, c) \cap (F \cup U) = {} /\ P = Pages(a, c)
          /\ map' = BlAllocateMemoryDescriptor(map, a, c, used)
      BY <1>2, <1>5, <2>1 DEF P
    <3> HIDE DEF a, c
    <3>2. MapTypes(map) /\ TableInv(map) /\ ~LoaderFull(map) /\ Holds(map, F, U)
      BY <1>1, <1>4, <1>9
    <3>3. Adds(map, BlAllocateMemoryDescriptor(map, a, c, used), F, U, Pages(a, c), used)
      BY <2>2, <3>1, <3>2, LoaderAdds, Zenon
    <3>4. P = Pages(a, c) /\ map' = BlAllocateMemoryDescriptor(map, a, c, used)
      BY <3>1
    <3>5. Adds(map, map', F, U, P, used)
      BY <3>3, <3>4, Zenon
    <3>6. QED BY <3>5, Zenon DEF Adds
  <2>6. PICK s \in LowSlots :
          /\ map'.present \cap LowSlots \subseteq (map.present \cap LowSlots) \cup {s}
          /\ \A t \in 0 .. IntBits - 1 : t \notin map.present => s <= t
          /\ ~used /\ s < IntBits => P \subseteq EarlyFree(map')
    BY <2>5
  <2>7. s \in Nat /\ entry \in Nat /\ (entry <= IntBits => s <= entry - 1)
    <3>1. s \in Slots
      BY LowSlotParts
    <3>2. ASSUME entry <= IntBits PROVE s <= entry - 1
      <4>1. entry - 1 \in 0 .. IntBits - 1
        BY <1>2, <3>2, Widths
      <4>2. entry - 1 \notin map.present
        BY <1>1, <4>1, Widths
      <4>3. QED BY <2>6, <4>1, <4>2
    <3>3. QED BY <1>2, <3>1, <3>2 DEF Slots
  <2>8. PhaseInv'
    BY <1>1, <1>2, <2>1, <2>5 DEF BootInv, PhaseInv, Loading
  <2>9. MemoryInv'
    <3>1. F' = (IF used THEN F ELSE F \cup P) /\ U' = (IF used THEN U \cup P ELSE U)
      BY <2>3
    <3>2. Holds(map', F', U')
      BY <2>5, <3>1, Zenon
    <3>3. F' = Reported("EfiConventionalMemory")' \ HandedOut'
          /\ U' = Reported("EfiLoaderData")' \cup HandedOut'
      BY <1>3 DEF F, U
    <3>4. Holds(map', Reported("EfiConventionalMemory")' \ HandedOut',
                      Reported("EfiLoaderData")' \cup HandedOut')
      BY <3>2, <3>3, Zenon
    <3>5. QED BY <3>4 DEF MemoryInv, Holds, Piece, Desc
  <2>10. Cardinality(map'.present \cap LowSlots) <= entry' - 1 + Len(tables')
    <3>1. Len(tables') = 0
      BY <1>1
    <3>2. entry - 1 \in Nat
      BY <1>2
    <3>3. Cardinality(map'.present \cap LowSlots) <= (entry - 1) + 1
      BY <1>1, <2>6, <3>2, OneMore
    <3>4. entry' - 1 + Len(tables') = (entry - 1) + 1
      BY <2>1, <2>7, <3>1
    <3>5. QED BY <3>3, <3>4
  <2>11. ASSUME NEW t \in map'.present, t < IntBits PROVE t < entry' - 1
    <3>1. t \in 0 .. IntBits - 1
      BY <2>5, <2>11, Widths DEF MapTypes, Slots
    <3>2. t \in map.present \/ t = s
      BY <2>6, <3>1, FirstSlots
    <3>3. CASE t \in map.present
      BY <1>1, <1>2, <2>1, <2>11, <3>1, <3>3
    <3>4. CASE t = s
      BY <2>1, <2>7, <2>11, <3>4, Widths
    <3>5. QED BY <3>2, <3>3, <3>4
  <2>12. Early' \subseteq EarlyFree(map') \cup HandedOut'
    <3>1. CASE entry <= IntBits /\ ~used
      <4>1. s < IntBits
        BY <2>7, <3>1, Widths
      <4>2. P \subseteq EarlyFree(map')
        BY <2>6, <3>1, <4>1
      <4>3. QED BY <1>4, <2>4, <2>5, <4>2
    <3>2. CASE ~(entry <= IntBits /\ ~used)
      BY <1>4, <2>4, <2>5, <3>2
    <3>3. QED BY <3>1, <3>2
  <2>13. LoaderInv'
    BY <2>5, <2>10, <2>11, <2>12 DEF LoaderInv, TableInv, EarlyFree, Piece, Desc
  <2>14. QED BY <1>6, <2>8, <2>9, <2>13 DEF BootInv
<1>10. QED BY <1>7, <1>8, <1>9

\* The memory that is free is not used.
LEMMA FreeNotUsed ==
  ASSUME NEW m, NEW F, NEW U, Holds(m, F, U), NEW s \in Slots
  PROVE  /\ Piece(m, s, FALSE) \subseteq F
         /\ Piece(m, s, TRUE) = {} => Piece(m, s, FALSE) \cap U = {}
<1>1. F = UNION {Piece(m, t, FALSE) : t \in Slots} /\ U = UNION {Piece(m, t, TRUE) : t \in Slots}
  BY DEF Holds
<1>2. Piece(m, s, FALSE) \subseteq F
  BY <1>1, Zenon
<1>3. ASSUME Piece(m, s, TRUE) = {}, NEW x \in Piece(m, s, FALSE), x \in U PROVE FALSE
  <2>1. PICK t \in Slots : x \in Piece(m, t, TRUE)
    BY <1>1, <1>3
  <2>2. t # s
    BY <1>3, <2>1
  <2>3. Piece(m, s, FALSE) \cap Piece(m, t, TRUE) = {}
    BY <2>2 DEF Holds
  <2>4. QED BY <1>3, <2>1, <2>3
<1>4. QED BY <1>2, <1>3

LEMMA AllocateKeeps == BootInv /\ BlAllocateOnePage => BootInv'
<1> SUFFICES ASSUME BootInv, BlAllocateOnePage PROVE BootInv'
  OBVIOUS
<1> DEFINE s == Min(FreeSeen(map))
           page == Desc(map, s).address
           cut == TakePage(map, s)
           R == Reported("EfiConventionalMemory")
           L == Reported("EfiLoaderData")
           F == R \ HandedOut
           U == L \cup HandedOut
<1>1. /\ phase = "tables" /\ Len(tables) < MaxTables /\ MapTypes(map) /\ TableInv(map)
      /\ firmware \in FirmwareMaps /\ entry = Len(firmware) + 1 /\ entry \in Nat
      /\ tables \in Seq(Nat) /\ Len(tables) \in Nat /\ MaxTables \in Nat
      /\ vmmBuffer = {} /\ UNCHANGED <<firmware, entry, vmmBuffer>>
      /\ Cardinality(map.present \cap LowSlots) <= entry - 1 + Len(tables)
      /\ Early \subseteq EarlyFree(map) \cup HandedOut
  BY Widths, MapFacts DEF BootInv, PhaseInv, LoaderInv, BlAllocateOnePage, Loading
<1>2. CASE FreeSeen(map) = {} \/ LoaderFull(cut)
  <2>1. UNCHANGED <<firmware, entry, map, tables, vmmBuffer>> /\ phase' = "halted"
    BY <1>2 DEF BlAllocateOnePage
  <2>2. QED BY <2>1, PhaseKeeps
<1>3. CASE FreeSeen(map) # {} /\ ~LoaderFull(cut)
  <2>1. /\ map' = BlAllocateMemoryDescriptor(cut, page, 1, TRUE)
        /\ tables' = Append(tables, page) /\ phase' = phase
    BY <1>3 DEF BlAllocateOnePage
  <2>2. s \in map.present \cap LowSlots /\ s \in Slots /\ ~Desc(map, s).allocated
    <3>1. PICK t \in 0 .. IntBits - 1 : Piece(map, t, FALSE) # {}
      <4>1. EarlyFree(map) # {}
        BY <1>1, EarlyLeft DEF BootInv
      <4>2. QED BY <4>1 DEF EarlyFree
    <3>2. t \in LowSlots /\ t \in Slots
      BY FirstSlots
    <3>3. t \in map.present /\ ~Desc(map, t).allocated
      BY <3>1 DEF Piece
    <3>4. t \in FreeSeen(map)
      BY <1>1, <3>2, <3>3, LowSeen DEF FreeSeen
    <3>5. FreeSeen(map) \in SUBSET Nat
      BY DEF FreeSeen, Slots
    <3>6. s \in FreeSeen(map) /\ s <= t
      BY <1>3, <3>4, <3>5, MinIn
    <3> HIDE DEF s
    <3>7. s \in 0 .. IntBits - 1
      BY <3>5, <3>6, Widths
    <3>8. s \in LowSlots
      BY <3>7, FirstSlots
    <3>9. QED BY <1>1, <3>6, <3>8, LowSeen DEF FreeSeen
  <2> HIDE DEF s
  <2>3. /\ MapTypes(cut) /\ TableInv(cut) /\ cut.present \subseteq map.present
        /\ \A t \in Slots \ {s}, a \in BOOLEAN : Piece(cut, t, a) = Piece(map, t, a)
        /\ page \in Nat /\ page \in Piece(map, s, FALSE)
        /\ Piece(cut, s, FALSE) = Piece(map, s, FALSE) \ {page}
        /\ Piece(cut, s, TRUE) = {} /\ Piece(map, s, TRUE) = {}
    BY <1>1, <2>2, CutKeeps
  <2> HIDE DEF cut, page
  <2>4. Holds(map, F, U)
    BY DEF BootInv, MemoryInv
  <2> HIDE DEF F, U
  <2>5. Piece(map, s, FALSE) \subseteq F /\ Piece(map, s, FALSE) \cap U = {}
    BY <2>2, <2>3, <2>4, FreeNotUsed
  <2>6. page \in F /\ page \notin U
    BY <2>3, <2>5
  <2>7. Holds(cut, F \ {page}, U)
    <3>1. ASSUME NEW a \in BOOLEAN
          PROVE  Piece(cut, s, a) \cap ((F \cup U) \ (Piece(map, s, TRUE) \cup Piece(map, s, FALSE))) = {}
      <4>1. CASE a = TRUE
        BY <2>3, <4>1
      <4>2. CASE a = FALSE
        BY <2>3, <4>2
      <4>3. QED BY <4>1, <4>2
    <3>2. Holds(cut, (F \ Piece(map, s, FALSE)) \cup Piece(cut, s, FALSE),
                     (U \ Piece(map, s, TRUE)) \cup Piece(cut, s, TRUE))
      BY <2>2, <2>3, <2>4, <3>1, PieceChange
    <3>3. /\ (F \ Piece(map, s, FALSE)) \cup Piece(cut, s, FALSE) = F \ {page}
          /\ (U \ Piece(map, s, TRUE)) \cup Piece(cut, s, TRUE) = U
      BY <2>3, <2>5
    <3>4. QED BY <3>2, <3>3
  <2>8. Pages(page, 1) = {page}
    BY <2>3 DEF Pages
  <2>9. Adds(cut, map', F \ {page}, U, {page}, TRUE)
    <3>1. Pages(page, 1) \cap ((F \ {page}) \cup U) = {}
      BY <2>6, <2>8
    <3>2. 1 \in Nat /\ 1 > 0 /\ TRUE \in BOOLEAN /\ (~TRUE => 1 < PageModulus)
      OBVIOUS
    <3>3. Adds(cut, BlAllocateMemoryDescriptor(cut, page, 1, TRUE), F \ {page}, U, Pages(page, 1), TRUE)
      BY <1>3, <2>3, <2>7, <3>1, <3>2, LoaderAdds, Zenon
    <3>4. QED BY <2>1, <2>8, <3>3, Zenon
  <2>10. MapTypes(map') /\ TableInv(map') /\ Holds(map', F \ {page}, U \cup {page})
         /\ EarlyFree(cut) \subseteq EarlyFree(map')
    BY <2>9 DEF Adds
  <2>11. PICK x \in LowSlots : map'.present \cap LowSlots \subseteq (cut.present \cap LowSlots) \cup {x}
    BY <2>9 DEF Adds
  <2>12. HandedOut' = HandedOut \cup {page}
    <3> DEFINE D == DOMAIN tables
               n == Len(tables) + 1
    <3>1. DOMAIN tables' = D \cup {n} /\ tables'[n] = page /\ \A i \in D : tables'[i] = tables[i]
      BY <1>1, <2>1, <2>3
    <3> HIDE DEF D, n
    <3>2. {tables'[i] : i \in DOMAIN tables'} = {tables[i] : i \in D} \cup {page}
      BY <3>1
    <3>3. vmmBuffer' = vmmBuffer
      BY <1>1
    <3>4. QED BY <3>2, <3>3 DEF HandedOut, D
  <2>13. R' = R /\ L' = L /\ Early' = Early
    <3>1. firmware' = firmware /\ entry' = entry
      BY <1>1
    <3>2. R' = R /\ L' = L
      BY <3>1 DEF Reported
    <3>3. EarlyEntries' = EarlyEntries
      BY <3>1 DEF EarlyEntries
    <3>4. QED BY <3>1, <3>2, <3>3 DEF Early
  <2>14. PhaseInv'
    <3>1. tables' \in Seq(Nat) /\ Len(tables') = Len(tables) + 1
      BY <1>1, <2>1, <2>3
    <3>2. Len(tables') <= MaxTables
      BY <1>1, <3>1
    <3>3. phase' = "tables" /\ firmware' = firmware /\ entry' = entry /\ vmmBuffer' = vmmBuffer
      BY <1>1, <2>1
    <3>4. QED BY <1>1, <2>10, <3>1, <3>2, <3>3 DEF BootInv, PhaseInv, Loading, MapTypes
  <2>15. TakenInv'
    <3>1. page \notin HandedOut /\ page \in R
      BY <2>6 DEF F
    <3>2. \A i \in DOMAIN tables : tables[i] # page
      BY <3>1 DEF HandedOut
    <3>3. \A i, j \in DOMAIN tables' : tables'[i] = tables'[j] => i = j
      BY <1>1, <2>1, <2>3, <3>2 DEF BootInv, TakenInv
    <3>4. HandedOut' \subseteq R'
      BY <2>12, <2>13, <3>1 DEF BootInv, TakenInv
    <3>5. QED BY <1>1, <3>3, <3>4 DEF TakenInv
  <2>16. MemoryInv'
    <3>1. F \ {page} = R' \ HandedOut' /\ U \cup {page} = L' \cup HandedOut'
      BY <2>12, <2>13 DEF F, U
    <3>2. Holds(map', R' \ HandedOut', L' \cup HandedOut')
      BY <2>10, <3>1, Zenon
    <3>3. QED BY <3>2 DEF MemoryInv, Holds, Piece, Desc
  <2>17. Cardinality(map'.present \cap LowSlots) <= entry' - 1 + Len(tables')
    <3> DEFINE k == entry - 1 + Len(tables)
    <3>1. k \in Nat /\ Cardinality(map.present \cap LowSlots) <= k
      BY <1>1, MapFacts
    <3>2. map'.present \cap LowSlots \subseteq (map.present \cap LowSlots) \cup {x}
      BY <2>3, <2>11
    <3>3. Cardinality(map'.present \cap LowSlots) <= k + 1
      BY <3>1, <3>2, OneMore
    <3>4. entry' - 1 + Len(tables') = k + 1
      BY <1>1, <2>1, <2>3
    <3>5. QED BY <3>3, <3>4
  <2>18. Early' \subseteq EarlyFree(map') \cup HandedOut'
    <3>1. ASSUME NEW t \in 0 .. IntBits - 1 PROVE Piece(map, t, FALSE) \ {page} \subseteq Piece(cut, t, FALSE)
      <4>1. t \in Slots
        BY FirstSlots
      <4>2. QED BY <2>3, <4>1
    <3>2. EarlyFree(map) \ {page} \subseteq EarlyFree(cut)
      BY <3>1 DEF EarlyFree
    <3>3. QED BY <1>1, <2>10, <2>12, <2>13, <3>2
  <2>19. LoaderInv'
    BY <1>1, <2>1, <2>10, <2>17, <2>18 DEF LoaderInv, TableInv, EarlyFree, Piece, Desc
  <2>20. QED BY <2>14, <2>15, <2>16, <2>19 DEF BootInv
<1>4. QED BY <1>2, <1>3

\* A descriptor without pages leaves the table, which describes what it did.
LEMMA RemovedKeeps ==
  ASSUME NEW m, MapTypes(m), NEW F, NEW U, Holds(m, F, U), NEW s \in Slots, Desc(m, s).pages = 0,
         NEW h
  PROVE  LET n == [m EXCEPT !.present = @ \ {s}, !.full = @ \ {h}]
         IN  MapTypes(n) /\ Holds(n, F, U)
<1> DEFINE n == [m EXCEPT !.present = @ \ {s}, !.full = @ \ {h}]
           present == m.present \ {s}
           full == m.full \ {h}
<1>1. /\ m = [desc |-> m.desc, present |-> m.present, full |-> m.full, created |-> m.created]
      /\ m.full \subseteq Groups /\ m.present \subseteq Slots /\ m.created \in SUBSET Slots
      /\ m.desc \in [DOMAIN m.desc -> Region]
  BY DEF MapTypes
<1>2. n = [desc |-> m.desc, present |-> present, full |-> full, created |-> m.created]
  <2> DEFINE m1 == [m EXCEPT !.present = present]
  <2>1. n = [m1 EXCEPT !.full = full]
    BY <1>1
  <2> HIDE DEF present, full
  <2>2. m1 = [desc |-> m.desc, present |-> present, full |-> m.full, created |-> m.created]
    BY <1>1
  <2> HIDE DEF m1
  <2>3. QED BY <2>1, <2>2
<1>3. n.desc = m.desc /\ n.present = present /\ n.full = full /\ n.created = m.created
  BY <1>2
<1> HIDE DEF n
<1>4. MapTypes(n)
  BY <1>1, <1>2 DEF MapTypes
<1>5. \A t \in Slots : Desc(n, t) = Desc(m, t)
  BY <1>3 DEF Desc
<1>6. Desc(m, s).address \in Nat
  BY <1>1 DEF Desc, Region, Empty
<1>7. Pages(Desc(m, s).address, Desc(m, s).pages) = {}
  BY <1>6 DEF Pages
<1>8. ASSUME NEW t \in Slots, NEW a \in BOOLEAN PROVE Piece(n, t, a) = Piece(m, t, a)
  <2>1. CASE t = s
    BY <1>5, <1>7, <2>1 DEF Piece
  <2>2. CASE t # s
    BY <1>3, <1>5, <2>2 DEF Piece
  <2>3. QED BY <2>1, <2>2
<1>9. Holds(n, F, U)
  <2>1. /\ \A t \in Slots : Piece(n, t, FALSE) = Piece(m, t, FALSE)
        /\ \A t \in Slots : Piece(n, t, TRUE) = Piece(m, t, TRUE)
    BY <1>8
  <2>2. F = UNION {Piece(n, t, FALSE) : t \in Slots} /\ U = UNION {Piece(n, t, TRUE) : t \in Slots}
    <3>1. /\ F = UNION {Piece(m, t, FALSE) : t \in Slots}
          /\ U = UNION {Piece(m, t, TRUE) : t \in Slots}
      BY DEF Holds
    <3>2. /\ {Piece(n, t, FALSE) : t \in Slots} = {Piece(m, t, FALSE) : t \in Slots}
          /\ {Piece(n, t, TRUE) : t \in Slots} = {Piece(m, t, TRUE) : t \in Slots}
      BY <2>1
    <3>3. QED BY <3>1, <3>2
  <2>3. \A t, u \in Slots : \A a, b \in BOOLEAN : t # u => Piece(n, t, a) \cap Piece(n, u, b) = {}
    BY <1>8 DEF Holds
  <2>4. QED BY <2>2, <2>3 DEF Holds
<1>10. QED BY <1>4, <1>9 DEF n

LEMMA BufferKeeps == BootInv /\ KiPhysicalMemoryManagerInit => BootInv'
<1> SUFFICES ASSUME BootInv, KiPhysicalMemoryManagerInit PROVE BootInv'
  OBVIOUS
<1> DEFINE high == HighCandidates(map, VmmPages)
           low == LowCandidates(map, VmmPages)
           s == IF high # {} THEN Min(high) ELSE Min(low)
           P == Pages(Desc(map, s).address, VmmPages)
           n == CutRun(map, s, VmmPages)
           R == Reported("EfiConventionalMemory")
           L == Reported("EfiLoaderData")
           F == R \ HandedOut
           U == L \cup HandedOut
<1>1. /\ phase = "kernel" /\ Len(tables) <= MaxTables /\ MapTypes(map) /\ TableInv(map)
      /\ firmware \in FirmwareMaps /\ entry = Len(firmware) + 1
      /\ tables \in Seq(Nat) /\ vmmBuffer = {} /\ UNCHANGED <<firmware, entry, tables>>
      /\ Cardinality(map.present \cap LowSlots) <= entry - 1 + Len(tables)
  BY DEF BootInv, PhaseInv, LoaderInv, KiPhysicalMemoryManagerInit, Loading
<1>2. CASE phase' = "halted" /\ UNCHANGED <<map, vmmBuffer>>
  BY <1>1, <1>2, PhaseKeeps
<1>3. CASE ~(phase' = "halted" /\ UNCHANGED <<map, vmmBuffer>>)
  <2>1. /\ high # {} \/ low # {}
        /\ vmmBuffer' = P /\ phase' = "walk"
        /\ map' = IF high # {} THEN MmAllocateHighMemory(map, VmmPages)
                               ELSE MmAllocateLowMemory(map, VmmPages)
    BY <1>3 DEF KiPhysicalMemoryManagerInit
  <2>2. /\ s \in map.present /\ ~Desc(map, s).allocated /\ Desc(map, s).pages >= VmmPages
    <3>1. high \in SUBSET Nat /\ low \in SUBSET Nat
      BY <1>1 DEF HighCandidates, LowCandidates, MapTypes, Slots
    <3>2. CASE high # {}
      <4>1. s \in high
        BY <3>1, <3>2, MinIn
      <4>2. QED BY <4>1 DEF HighCandidates
    <3>3. CASE high = {}
      <4>1. s \in low
        BY <2>1, <3>1, <3>3, MinIn
      <4>2. QED BY <4>1 DEF LowCandidates
    <3>4. QED BY <3>2, <3>3
  <2>3. ~LoaderFull(map)
    <3> DEFINE c == Cardinality(map.present \cap LowSlots)
               k == IntBits * IntBits
    <3>1. c \in Nat /\ k \in Nat
      <4>1. IsFiniteSet(map.present \cap LowSlots)
        BY RoomForMap, FS_Subset
      <4>2. QED BY <4>1, FS_CardinalityType, Widths
    <3>2. c <= Len(firmware) + Len(tables) /\ Len(firmware) + MaxTables < k
          /\ Len(firmware) \in Nat /\ Len(tables) \in Nat
      BY <1>1, MapFacts
    <3> HIDE DEF c, k
    <3>3. c < k
      BY <1>1, <3>1, <3>2, Widths
    <3>4. QED BY <1>1, <3>3, NotFull DEF c, k
  <2>4. map' = n \/ (map' = [n EXCEPT !.present = @ \ {s}, !.full = @ \ {GroupOf(s)}]
                     /\ Desc(n, s).pages = 0)
    <3>1. CASE high # {}
      BY <2>1, <3>1 DEF MmAllocateHighMemory
    <3>2. CASE high = {}
      <4>1. map' = MmAllocateLowMemory(map, VmmPages) /\ s = Min(low)
        BY <2>1, <3>2
      <4>2. MmAllocateLowMemory(map, VmmPages) =
              IF Desc(n, s).pages # 0 THEN n
              ELSE [n EXCEPT !.present = @ \ {s}, !.full = @ \ {GroupOf(s)}]
        BY <4>1 DEF MmAllocateLowMemory
      <4>3. QED BY <4>1, <4>2
    <3>3. QED BY <3>1, <3>2
  <2> HIDE DEF s, F, U
  <2>5. Holds(map, F, U)
    BY DEF BootInv, MemoryInv, F, U
  <2>6. /\ MapTypes(n) /\ P \subseteq F /\ Holds(n, F \ P, U \cup P)
        /\ s \in Slots /\ Desc(map, s).address \in Nat
    <3>1. VmmPages \in Nat /\ VmmPages > 0
      BY Widths
    <3>2. QED BY <1>1, <2>2, <2>3, <2>5, <3>1, RunMoves
  <2> HIDE DEF n
  <2>7. MapTypes(map') /\ Holds(map', F \ P, U \cup P)
    <3>1. CASE map' = n
      BY <2>6, <3>1, Zenon
    <3>2. CASE map' = [n EXCEPT !.present = @ \ {s}, !.full = @ \ {GroupOf(s)}]
               /\ Desc(n, s).pages = 0
      <4> DEFINE w == [n EXCEPT !.present = @ \ {s}, !.full = @ \ {GroupOf(s)}]
      <4>1. MapTypes(w) /\ Holds(w, F \ P, U \cup P)
        BY <2>6, <3>2, RemovedKeeps, Zenon
      <4>2. map' = w
        BY <3>2
      <4> HIDE DEF w
      <4>3. QED BY <4>1, <4>2, Zenon
    <3>3. QED BY <2>4, <3>1, <3>2
  <2>8. P \subseteq Nat /\ IsFiniteSet(P)
    <3> DEFINE a == Desc(map, s).address
               b == a + VmmPages - 1
    <3>1. a \in Nat /\ a \in Int /\ b \in Int
      BY <2>6, Widths
    <3>2. P = a .. b
      BY DEF Pages
    <3> HIDE DEF a, b, P
    <3>3. IsFiniteSet(a .. b)
      BY <3>1, FS_Interval
    <3>4. QED BY <3>1, <3>2, <3>3
  <2> HIDE DEF P
  <2>9. R' = R /\ L' = L /\ HandedOut' = HandedOut \cup P
    <3>1. firmware' = firmware /\ entry' = entry /\ tables' = tables /\ vmmBuffer' = P /\ vmmBuffer = {}
      BY <1>1, <2>1
    <3>2. R' = R /\ L' = L
      BY <3>1 DEF Reported
    <3>3. HandedOut' = HandedOut \cup P
      BY <3>1 DEF HandedOut
    <3>4. QED BY <3>2, <3>3
  <2>10. PhaseInv'
    BY <1>1, <2>1, <2>7, <2>8 DEF BootInv, PhaseInv, Loading, MapTypes
  <2>11. TakenInv'
    <3>1. P \cap HandedOut = {} /\ P \subseteq R
      BY <2>6 DEF F
    <3>2. \A i \in DOMAIN tables : tables[i] \notin P
      BY <3>1 DEF HandedOut
    <3>3. HandedOut' \subseteq R'
      BY <2>9, <3>1 DEF BootInv, TakenInv
    <3>4. tables' = tables /\ vmmBuffer' = P
      BY <1>1, <2>1
    <3>5. QED BY <3>2, <3>3, <3>4 DEF BootInv, TakenInv
  <2>12. MemoryInv'
    <3>1. F \ P = R' \ HandedOut' /\ U \cup P = L' \cup HandedOut'
      BY <2>9 DEF F, U
    <3>2. Holds(map', R' \ HandedOut', L' \cup HandedOut')
      BY <2>7, <3>1, Zenon
    <3>3. QED BY <3>2 DEF MemoryInv, Holds, Piece, Desc
  <2>13. LoaderInv'
    BY <2>1 DEF LoaderInv, Loading
  <2>14. QED BY <2>10, <2>11, <2>12, <2>13 DEF BootInv
<1>4. QED BY <1>2, <1>3

LEMMA InitMemory == Init => BootInv
<1> SUFFICES ASSUME Init PROVE BootInv
  OBVIOUS
<1>1. /\ firmware \in FirmwareMaps /\ entry = 1 /\ tables = <<>> /\ vmmBuffer = {} /\ phase = "map"
      /\ map = [desc |-> <<>>, present |-> {}, full |-> {}, created |-> {}]
      /\ map.desc = <<>> /\ map.present = {} /\ map.full = {} /\ map.created = {}
      /\ Len(firmware) \in Nat
  BY MapFacts DEF Init
<1>2. HandedOut = {} /\ Early = {}
      /\ Reported("EfiConventionalMemory") = {} /\ Reported("EfiLoaderData") = {}
  <2>1. 1 .. entry - 1 = {}
    BY <1>1
  <2>2. \A type : Reported(type) = {}
    BY <2>1 DEF Reported
  <2>3. EarlyEntries = {}
    BY <2>1 DEF EarlyEntries
  <2>4. Early = {}
    BY <2>3 DEF Early
  <2>5. HandedOut = {}
    BY <1>1 DEF HandedOut
  <2>6. QED BY <2>2, <2>4, <2>5
<1>3. MapTypes(map)
  <2>1. <<>> \in [{} -> Region]
    OBVIOUS
  <2>2. <<>> \in UNION {[S -> Region] : S \in SUBSET Slots}
    BY <2>1
  <2>3. QED BY <1>1, <2>2 DEF MapTypes
<1>4. \A s \in Slots, a \in BOOLEAN : Piece(map, s, a) = {}
  BY <1>1 DEF Piece
<1>5. Holds(map, {}, {})
  <2>1. UNION {Piece(map, s, FALSE) : s \in Slots} = {}
        /\ UNION {Piece(map, s, TRUE) : s \in Slots} = {}
    BY <1>4
  <2>2. QED BY <1>4, <2>1 DEF Holds
<1>6. MemoryInv
  <2>1. Reported("EfiConventionalMemory") \ HandedOut = {}
        /\ Reported("EfiLoaderData") \cup HandedOut = {}
    BY <1>2
  <2>2. QED BY <1>5, <2>1, Zenon DEF MemoryInv
<1>7. TableInv(map)
  <2>1. DOMAIN map.desc = {}
    BY <1>1
  <2>2. \A g \in 0 .. IntBits - 1 : ~(SlotsOf(g) \subseteq map.present)
    <3>1. \A g \in 0 .. IntBits - 1 : Slot(g, 0) \in SlotsOf(g)
      BY Widths DEF SlotsOf
    <3>2. QED BY <1>1, <3>1
  <2>3. QED BY <1>1, <2>1, <2>2 DEF TableInv
<1>8. Cardinality(map.present \cap LowSlots) <= entry - 1 + Len(tables)
  <2>1. map.present \cap LowSlots = {} /\ entry - 1 + Len(tables) = 0
    BY <1>1
  <2>2. QED BY <2>1, FS_EmptySet
<1>9. LoaderInv
  BY <1>1, <1>2, <1>7, <1>8 DEF LoaderInv
<1>10. TakenInv
  BY <1>1, <1>2 DEF TakenInv
<1>11. PhaseInv
  <2>1. IsFiniteSet({})
    BY FS_EmptySet
  <2>2. Len(tables) = 0 /\ tables \in Seq(Nat)
    BY <1>1
  <2>3. QED BY <1>1, <1>3, <2>1, <2>2, Widths DEF PhaseInv, Loading
<1>12. QED BY <1>6, <1>9, <1>10, <1>11 DEF BootInv

LEMMA NextMemory == BootInv /\ [Next]_vars => BootInv'
<1> SUFFICES ASSUME BootInv, [Next]_vars PROVE BootInv'
  OBVIOUS
<1>1. CASE CopyEntry
  BY <1>1, CopyKeeps
<1>2. CASE MapCopied
  BY <1>2, PhaseKeeps DEF MapCopied
<1>3. CASE BlAllocateOnePage
  BY <1>3, AllocateKeeps
<1>4. CASE NosEntryPoint
  BY <1>4, PhaseKeeps DEF NosEntryPoint
<1>5. CASE KiPhysicalMemoryManagerInit
  BY <1>5, BufferKeeps
<1>6. CASE NextDescriptor
  <2>1. UNCHANGED <<firmware, entry, map, tables, vmmBuffer>> /\ phase' \in {"cut", "ready", "halted"}
    BY <1>6 DEF NextDescriptor
  <2>2. QED BY <2>1, PhaseKeeps
<1>7. CASE CutPart
  <2>1. UNCHANGED <<firmware, entry, map, tables, vmmBuffer>> /\ phase' \in {"walk", "cut"}
    BY <1>7 DEF CutPart
  <2>2. QED BY <2>1, PhaseKeeps
<1>8. CASE UNCHANGED vars
  BY <1>8, PhaseKeeps DEF vars
<1>9. QED BY <1>1, <1>2, <1>3, <1>4, <1>5, <1>6, <1>7, <1>8 DEF Next

\* Throughout the boot, for every firmware map: the table and the pages taken from it
\* are in one of the states BootInv describes, the table is never written outside the
\* slots that the loader's int can name, and never fills (mm.c:24-80, preosmem.c:45-75).
THEOREM BootInvariant == Spec => []BootInv
<1>1. Init => BootInv
  BY InitMemory
<1>2. BootInv /\ [Next]_vars => BootInv'
  BY NextMemory
<1>3. QED BY <1>1, <1>2, PTL DEF Spec

-----------------------------------------------------------------------------
(* What it implies.                                                          *)

\* The slots that are present describe what their pieces hold.
LEMMA PiecesOfMap ==
  ASSUME BootInv, NEW s \in map.present
  PROVE  /\ s \in Slots
         /\ Desc(map, s).allocated \in BOOLEAN
         /\ Piece(map, s, Desc(map, s).allocated) = Described(s)
         /\ Described(s) = Piece(map, s, FALSE) \cup Piece(map, s, TRUE)
<1>1. MapTypes(map)
  BY DEF BootInv, PhaseInv
<1>2. s \in Slots /\ Desc(map, s).allocated \in BOOLEAN
  BY <1>1 DEF MapTypes, Desc, Region, Empty
<1>3. Piece(map, s, Desc(map, s).allocated) = Described(s)
  BY DEF Piece, Described
<1>4. Described(s) = Piece(map, s, FALSE) \cup Piece(map, s, TRUE)
  <2>1. CASE Desc(map, s).allocated = TRUE
    BY <2>1 DEF Piece, Described
  <2>2. CASE Desc(map, s).allocated = FALSE
    BY <2>2 DEF Piece, Described
  <2>3. QED BY <1>2, <2>1, <2>2
<1>5. QED BY <1>2, <1>3, <1>4

LEMMA UsableMemory == BootInv => MapKeepsMemory
<1> SUFFICES ASSUME BootInv PROVE MapKeepsMemory
  OBVIOUS
<1> DEFINE R == Reported("EfiConventionalMemory")
           L == Reported("EfiLoaderData")
           F == R \ HandedOut
           U == L \cup HandedOut
<1>1. /\ F = UNION {Piece(map, s, FALSE) : s \in Slots}
      /\ U = UNION {Piece(map, s, TRUE) : s \in Slots}
      /\ \A s, t \in Slots : \A a, b \in BOOLEAN :
           s # t => Piece(map, s, a) \cap Piece(map, t, b) = {}
      /\ HandedOut \subseteq R
  BY DEF BootInv, MemoryInv, Holds, TakenInv
<1>0. Usable = F \cup U
  BY <1>1 DEF Usable
<1> HIDE DEF F, U, R, L
<1>2. \A s \in Slots, a \in BOOLEAN : s \notin map.present => Piece(map, s, a) = {}
  BY DEF Piece
<1>3. UNION {Described(s) : s \in map.present} = Usable
  <2>2. ASSUME NEW x \in Usable PROVE x \in UNION {Described(s) : s \in map.present}
    <3>1. PICK s \in Slots : x \in Piece(map, s, FALSE) \/ x \in Piece(map, s, TRUE)
      <4>1. CASE x \in F
        BY <1>1, <4>1
      <4>2. CASE x \in U
        BY <1>1, <4>2
      <4>3. QED BY <1>0, <2>2, <4>1, <4>2
    <3>2. s \in map.present
      BY <1>2, <3>1
    <3>3. x \in Described(s)
      BY <3>1, <3>2, PiecesOfMap
    <3>4. QED BY <3>2, <3>3
  <2>3. ASSUME NEW s \in map.present, NEW x \in Described(s) PROVE x \in Usable
    <3>1. s \in Slots /\ x \in Piece(map, s, FALSE) \cup Piece(map, s, TRUE)
      BY <2>3, PiecesOfMap
    <3>2. CASE x \in Piece(map, s, FALSE)
      <4>1. x \in F
        BY <1>1, <3>1, <3>2, Zenon
      <4>2. QED BY <1>0, <4>1
    <3>3. CASE x \in Piece(map, s, TRUE)
      <4>1. x \in U
        BY <1>1, <3>1, <3>3, Zenon
      <4>2. QED BY <1>0, <4>1
    <3>4. QED BY <3>1, <3>2, <3>3
  <2>4. QED BY <2>2, <2>3
<1>4. ASSUME NEW s \in map.present, NEW t \in map.present, s # t
      PROVE  Described(s) \cap Described(t) = {}
  <2> DEFINE a == Desc(map, s).allocated
             b == Desc(map, t).allocated
  <2>1. /\ s \in Slots /\ t \in Slots /\ a \in BOOLEAN /\ b \in BOOLEAN
        /\ Described(s) = Piece(map, s, a) /\ Described(t) = Piece(map, t, b)
    BY PiecesOfMap
  <2> HIDE DEF a, b
  <2>2. Piece(map, s, a) \cap Piece(map, t, b) = {}
    BY <1>1, <1>4, <2>1, Zenon
  <2>3. QED BY <2>1, <2>2
<1>5. QED BY <1>3, <1>4 DEF MapKeepsMemory

LEMMA HandedOutMemory == BootInv => HandedOutStaysAllocated
<1> SUFFICES ASSUME BootInv PROVE HandedOutStaysAllocated
  OBVIOUS
<1> DEFINE D == DOMAIN tables
           T == {tables[i] : i \in D}
           n == Len(tables)
<1>1. tables \in Seq(Nat) /\ D = 1 .. n /\ n \in Nat /\ IsFiniteSet(vmmBuffer)
  BY DEF BootInv, PhaseInv
<1>2. IsFiniteSet(T) /\ Cardinality(T) = n
  <2>1. IsFiniteSet(D) /\ Cardinality(D) = n
    <3> HIDE DEF n, D
    <3>1. IsFiniteSet(1 .. n) /\ Cardinality(1 .. n) = n
      BY <1>1, FS_Interval
    <3>2. QED BY <1>1, <3>1
  <2>2. tables \in [D -> T] /\ \A y \in T : \E i \in D : tables[i] = y
    BY <1>1
  <2>3. \A i, j \in D : tables[i] = tables[j] => i = j
    BY DEF BootInv, TakenInv
  <2> HIDE DEF T, D, n
  <2>4. tables \in Bijection(D, T)
    BY <2>2, <2>3 DEF Bijection, Injection, Surjection, IsInjective
  <2>5. ExistsBijection(D, T)
    BY <2>4 DEF ExistsBijection
  <2>6. QED BY <2>1, <2>5, FS_Bijection
<1>3. T \cap vmmBuffer = {}
  BY DEF BootInv, TakenInv
<1>4. Cardinality(HandedOut) = n + Cardinality(vmmBuffer)
  <2> HIDE DEF T, n
  <2>1. Cardinality(T \cup vmmBuffer)
          = Cardinality(T) + Cardinality(vmmBuffer) - Cardinality(T \cap vmmBuffer)
    BY <1>1, <1>2, FS_Union
  <2>2. Cardinality(T \cap vmmBuffer) = 0
    BY <1>3, FS_EmptySet
  <2>3. Cardinality(vmmBuffer) \in Nat
    BY <1>1, FS_CardinalityType
  <2>4. HandedOut = T \cup vmmBuffer
    BY DEF HandedOut, T
  <2>5. QED BY <1>1, <1>2, <2>1, <2>2, <2>3, <2>4
<1>5. HandedOut \subseteq Reported("EfiConventionalMemory")
  BY DEF BootInv, TakenInv
<1>6. HandedOut \cup Reported("EfiLoaderData") = UNION {Described(s) : s \in UsedSlots(map)}
  <2>1. Reported("EfiLoaderData") \cup HandedOut = UNION {Piece(map, s, TRUE) : s \in Slots}
    BY DEF BootInv, MemoryInv, Holds
  <2>2. ASSUME NEW s \in Slots, NEW x \in Piece(map, s, TRUE)
        PROVE  s \in UsedSlots(map) /\ x \in Described(s)
    BY <2>2 DEF Piece, UsedSlots, Described
  <2>3. ASSUME NEW s \in UsedSlots(map), NEW x \in Described(s)
        PROVE  s \in Slots /\ x \in Piece(map, s, TRUE)
    <3>1. s \in map.present /\ Desc(map, s).allocated
      BY DEF UsedSlots
    <3>2. s \in Slots /\ Desc(map, s).allocated = TRUE
      BY <3>1, PiecesOfMap
    <3>3. QED BY <2>3, <3>1, <3>2 DEF Piece, Described
  <2>4. QED BY <2>1, <2>2, <2>3
<1>7. QED BY <1>4, <1>5, <1>6 DEF HandedOutStaysAllocated

\* The table describes exactly the usable memory the firmware has reported so far, and
\* every page of it once, in every state of the boot and for every firmware map: no
\* merge, cut or removal, and none of the slots that the loader's int shift marks
\* without filling them, loses a page or doubles one (mm.c:24-80, preosmem.c:45-75).
THEOREM MapsKeepMemory == Spec => []MapKeepsMemory
<1>1. BootInv => MapKeepsMemory
  BY UsableMemory
<1>2. QED BY <1>1, BootInvariant, PTL

\* The pages of the page tables and of the page allocator's buffer were reported free,
\* are all different, and are described as allocated from then on: with the loader's
\* own memory they are all that is (mm.c:82-132, preosmem.c:77-170).
THEOREM HandedOutAreAllocated == Spec => []HandedOutStaysAllocated
<1>1. BootInv => HandedOutStaysAllocated
  BY HandedOutMemory
<1>2. QED BY <1>1, BootInvariant, PTL

-----------------------------------------------------------------------------
(* The page allocator's side: what was counted, what was inserted and what is *)
(* left to be cut.                                                            *)

Part == [address : Nat, pages : Nat]
PartPages(c) == Pages(c.address, c.pages)
InsertedPages(runs) == UNION {RunPages(r) : r \in runs}

\* The memory of the free descriptors that the walk has reached.
Walked == UNION {Described(s) : s \in {t \in FreeSlots(map) : t < cursor}}

Handing == {"walk", "cut", "ready"}

\* Runs are aligned, no two share a page or a header, and n headers are used up by the n
\* pages of all of them.
RunsInv(runs, n) ==
  /\ n \in Nat /\ runs \subseteq [level : 0 .. 2, start : Nat, count : Nat, header : Nat]
  /\ \A r \in runs : r.start % Size(r.level) = 0 /\ Headers(r) \subseteq 0 .. n - 1
  /\ \A r, q \in runs : r # q => /\ RunPages(r) \cap RunPages(q) = {}
                                /\ Headers(r) \cap Headers(q) = {}
  /\ IsFiniteSet(InsertedPages(runs)) /\ Cardinality(InsertedPages(runs)) = n

\* While a part is waiting behind the one being cut, that one ends where a large page
\* does: nothing will be left behind it that would need the place of the waiting part.
PartsInv ==
  /\ cursor \in Nat /\ {cmem, cmem2} \subseteq Part
  /\ cmem2 # None => /\ phase = "cut" /\ cmem2.pages # 0
                     /\ (cmem.address + cmem.pages) % Large = 0

\* What was inserted and what is being cut is what the walk has reached, each page once.
WalkInv ==
  /\ InsertedPages(inserted) \subseteq Reported("EfiConventionalMemory") \ HandedOut
  /\ phase \in Loading => inserted = {} /\ pageNumber = 0 /\ cursor = 0
  /\ phase \in {"walk", "ready"} => InsertedPages(inserted) = Walked
  /\ phase = "cut" =>
       /\ Walked = InsertedPages(inserted) \cup PartPages(cmem) \cup PartPages(cmem2)
       /\ InsertedPages(inserted) \cap (PartPages(cmem) \cup PartPages(cmem2)) = {}
       /\ PartPages(cmem) \cap PartPages(cmem2) = {}
  /\ phase = "ready" => \A s \in FreeSlots(map) : s < cursor

CountInv ==
  /\ allocatedPages \in Nat /\ totalPages \in Nat
  /\ phase \in Handing \/ inserted # {} =>
       /\ totalPages = Cardinality(Usable)
       /\ allocatedPages = Cardinality(Reported("EfiLoaderData") \cup HandedOut)

HandOverInv == BootInv /\ RunsInv(inserted, pageNumber) /\ PartsInv /\ WalkInv /\ CountInv

-----------------------------------------------------------------------------
(* Numbers: multiples of a page size.                                        *)

LEMMA Multiple ==
  ASSUME NEW x \in Nat, NEW size \in Nat, size > 0
  PROVE  x % size = 0 <=> \E k \in Nat : x = k * size
<1>1. ASSUME x % size = 0 PROVE \E k \in Nat : x = k * size
  <2>1. x \div size \in Nat /\ x = (x \div size) * size + (x % size)
    OBVIOUS
  <2>2. QED BY <1>1, <2>1
<1>2. ASSUME NEW k \in Nat, x = k * size PROVE x % size = 0
  BY <1>2
<1>3. QED BY <1>1, <1>2

LEMMA ExcessAligns ==
  ASSUME NEW a \in Nat, NEW size \in Nat, size > 0
  PROVE  Excess(a, size) \in 0 .. size - 1 /\ (a + Excess(a, size)) % size = 0
<1> DEFINE r == a % size
           q == a \div size
<1>1. r \in 0 .. size - 1 /\ q \in Nat /\ a = q * size + r
  OBVIOUS
<1>2. Excess(a, size) = (size - r) % size
  BY DEF Excess
<1> HIDE DEF r, q
<1>3. CASE r = 0
  <2>1. size % size = 0
    OBVIOUS
  <2>2. Excess(a, size) = 0
    BY <1>1, <1>2, <1>3, <2>1
  <2>3. (q * size) % size = 0
    BY <1>1
  <2>4. QED BY <1>1, <1>3, <2>2, <2>3
<1>4. CASE r > 0
  <2>1. Excess(a, size) = size - r
    BY <1>1, <1>2, <1>4
  <2>2. a + Excess(a, size) = (q + 1) * size
    BY <1>1, <2>1
  <2>3. ((q + 1) * size) % size = 0
    BY <1>1
  <2>4. QED BY <1>1, <1>4, <2>1, <2>2, <2>3
<1>5. QED BY <1>1, <1>3, <1>4

\* What a size divides is divided by what divides the size.
LEMMA MultipleOfMultiple ==
  ASSUME NEW x \in Nat, NEW big \in Nat, NEW small \in Nat, small > 0, big > 0,
         x % big = 0, big % small = 0
  PROVE  x % small = 0
<1>1. PICK k \in Nat : x = k * big
  BY Multiple
<1>2. PICK j \in Nat : big = j * small
  BY Multiple
<1>3. x = (k * j) * small /\ k * j \in Nat
  BY <1>1, <1>2
<1>4. QED BY <1>3, Multiple

\* Whole pages fit in front of the end, and reach it when it is aligned.
LEMMA WholeFits ==
  ASSUME NEW a \in Nat, NEW p \in Nat, NEW size \in Nat, size > 0,
         p >= size + Excess(a, size)
  PROVE  LET e == Excess(a, size)
             w == (p - e) \div size
         IN  /\ e \in Nat /\ w \in Nat /\ w > 0 /\ w * size \in Nat /\ w * size <= p - e
             /\ w * size > 0
             /\ (a + p) % size = 0 => w * size = p - e
<1> DEFINE e == Excess(a, size)
           w == (p - e) \div size
           d == p - e
<1>1. e \in Nat /\ d \in Nat /\ d >= size /\ (a + e) % size = 0
  <2>1. e \in 0 .. size - 1 /\ (a + e) % size = 0
    BY ExcessAligns
  <2> HIDE DEF e
  <2>2. p >= size + e
    BY DEF e
  <2>3. QED BY <2>1, <2>2
<1> HIDE DEF e
<1>2. w \in Nat /\ w * size <= d /\ d < w * size + size
  <2> HIDE DEF d
  <2>1. d \div size \in Nat /\ d = (d \div size) * size + (d % size) /\ d % size \in 0 .. size - 1
    BY <1>1
  <2>2. (d \div size) * size \in Nat
    BY <2>1
  <2>3. QED BY <1>1, <2>1, <2>2 DEF d
<1> HIDE DEF w, d
<1>3. w > 0
  <2>1. CASE w = 0
    <3>1. w * size = 0
      BY <2>1
    <3>2. QED BY <1>1, <1>2, <3>1
  <2>2. QED BY <1>2, <2>1
<1>4. w * size \in Nat /\ w * size > 0
  BY <1>2, <1>3
<1>5. ASSUME (a + p) % size = 0 PROVE w * size = d
  <2>0. a + p \in Nat /\ a + e \in Nat
    BY <1>1
  <2>1. PICK k \in Nat : a + p = k * size
    BY <1>5, <2>0, Multiple
  <2>2. PICK j \in Nat : a + e = j * size
    BY <1>1, <2>0, Multiple
  <2>3. d = (k - j) * size
    BY <1>1, <2>1, <2>2 DEF d
  <2>4. (k - j - w) * size \in Int /\ (k - j - w) * size = d - w * size
    BY <1>1, <1>2, <2>3
  <2>5. 0 <= (k - j - w) * size /\ (k - j - w) * size < size
    BY <1>1, <1>2, <1>4, <2>4
  <2>6. k - j - w = 0
    BY <1>2, <2>5
  <2>7. QED BY <1>1, <1>4, <2>4, <2>6
<1>6. QED BY <1>1, <1>2, <1>3, <1>4, <1>5 DEF e, w, d

-----------------------------------------------------------------------------
(* Sums of page counts.                                                      *)

\* The recursion by which a sum over a set is taken, of the sizes of the sets D.
IsSum(h, S, D) ==
  h = [r \in SUBSET S |-> IF r = {} THEN 0
                          ELSE Cardinality(D[CHOOSE x \in r : TRUE]) + h[r \ {CHOOSE x \in r : TRUE}]]

Together(D, r) == UNION {D[x] : x \in r}

\* Of disjoint sets, one more adds its size.
LEMMA OneMoreSet ==
  ASSUME NEW S, IsFiniteSet(S), NEW D, \A x \in S : IsFiniteSet(D[x]),
         \A x, y \in S : x # y => D[x] \cap D[y] = {},
         NEW r \in SUBSET S, NEW x \in r
  PROVE  /\ IsFiniteSet(Together(D, r)) /\ IsFiniteSet(Together(D, r \ {x}))
         /\ Cardinality(Together(D, r)) = Cardinality(D[x]) + Cardinality(Together(D, r \ {x}))
<1>1. ASSUME NEW q \in SUBSET S PROVE IsFiniteSet(Together(D, q))
  <2> DEFINE T == {D[y] : y \in q}
  <2>1. IsFiniteSet(q)
    BY FS_Subset
  <2>2. [y \in q |-> D[y]] \in Surjection(q, T)
    BY DEF Surjection
  <2> HIDE DEF T
  <2>3. IsFiniteSet(T)
    BY <2>1, <2>2, FS_Surjection
  <2>4. \A t \in T : IsFiniteSet(t)
    BY DEF T
  <2>5. IsFiniteSet(UNION T)
    BY <2>3, <2>4, FS_UNION
  <2>6. QED BY <2>5 DEF Together, T
<1> DEFINE A == D[x]
           B == Together(D, r \ {x})
<1>2. IsFiniteSet(A) /\ IsFiniteSet(B) /\ r \ {x} \in SUBSET S
  BY <1>1
<1>3. Together(D, r) = A \cup B
  BY DEF Together
<1>4. A \cap B = {}
  BY DEF Together
<1>5. IsFiniteSet(Together(D, r))
  BY <1>1
<1> HIDE DEF A, B
<1>6. Cardinality(A \cup B) = Cardinality(A) + Cardinality(B) - Cardinality(A \cap B)
  BY <1>2, FS_Union
<1>7. Cardinality(A \cap B) = 0 /\ Cardinality(A) \in Nat /\ Cardinality(B) \in Nat
  BY <1>2, <1>4, FS_EmptySet, FS_CardinalityType
<1>8. Cardinality(A \cup B) = Cardinality(A) + Cardinality(B)
  BY <1>6, <1>7
<1>9. QED BY <1>2, <1>3, <1>5, <1>8 DEF A, B

LEMMA SumExists ==
  ASSUME NEW S, IsFiniteSet(S), NEW D, \A x \in S : IsFiniteSet(D[x]),
         \A x, y \in S : x # y => D[x] \cap D[y] = {}
  PROVE  IsSum([r \in SUBSET S |-> Cardinality(Together(D, r))], S, D)
<1> DEFINE h == [r \in SUBSET S |-> Cardinality(Together(D, r))]
<1>1. ASSUME NEW r \in SUBSET S
      PROVE  h[r] = IF r = {} THEN 0 ELSE Cardinality(D[CHOOSE x \in r : TRUE]) + h[r \ {CHOOSE x \in r : TRUE}]
  <2>1. CASE r = {}
    <3>1. Together(D, r) = {}
      BY <2>1 DEF Together
    <3>2. QED BY <2>1, <3>1, FS_EmptySet
  <2>2. CASE r # {}
    <3> DEFINE x == CHOOSE y \in r : TRUE
    <3>1. x \in r
      BY <2>2
    <3> HIDE DEF x
    <3>2. Cardinality(Together(D, r)) = Cardinality(D[x]) + Cardinality(Together(D, r \ {x}))
      BY <3>1, OneMoreSet
    <3>3. h[r] = Cardinality(Together(D, r)) /\ h[r \ {x}] = Cardinality(Together(D, r \ {x}))
      OBVIOUS
    <3> HIDE DEF h
    <3>4. h[r] = Cardinality(D[x]) + h[r \ {x}]
      BY <3>2, <3>3
    <3>5. QED BY <2>2, <3>4 DEF x
  <2>3. QED BY <2>1, <2>2
<1>2. h = [r \in SUBSET S |-> h[r]]
  OBVIOUS
<1> HIDE DEF h
<1>3. IsSum(h, S, D)
  BY <1>1, <1>2 DEF IsSum
<1>4. QED BY <1>3 DEF h

\* The sum of the sizes of disjoint sets is the size of all of them: by the smallest
\* subfamily for which it would not be.
LEMMA SumIsCount ==
  ASSUME NEW S, IsFiniteSet(S), NEW D, \A x \in S : IsFiniteSet(D[x]),
         \A x, y \in S : x # y => D[x] \cap D[y] = {},
         NEW h, IsSum(h, S, D)
  PROVE  h[S] = Cardinality(Together(D, S))
<1> DEFINE Bad == {r \in SUBSET S : h[r] # Cardinality(Together(D, r))}
           sizes == {Cardinality(r) : r \in Bad}
<1>1. SUFFICES ASSUME Bad # {} PROVE FALSE
  OBVIOUS
<1>2. \A r \in SUBSET S : IsFiniteSet(r) /\ Cardinality(r) \in Nat
  BY FS_Subset, FS_CardinalityType
<1>3. sizes \in SUBSET Nat /\ sizes # {}
  BY <1>1, <1>2
<1>4. Min(sizes) \in sizes /\ \A n \in sizes : Min(sizes) <= n
  BY <1>3, MinIn
<1>5. PICK r \in Bad : \A q \in Bad : Cardinality(r) <= Cardinality(q)
  BY <1>4
<1>6. r \in SUBSET S /\ h[r] # Cardinality(Together(D, r))
  BY <1>5
<1>7. \A q \in SUBSET S : h[q] = IF q = {} THEN 0
        ELSE Cardinality(D[CHOOSE x \in q : TRUE]) + h[q \ {CHOOSE x \in q : TRUE}]
  BY DEF IsSum
<1>8. r # {}
  <2>1. Together(D, {}) = {}
    BY DEF Together
  <2>2. h[{}] = 0
    BY <1>7
  <2>3. QED BY <1>6, <2>1, <2>2, FS_EmptySet
<1> DEFINE x == CHOOSE y \in r : TRUE
<1>9. x \in r /\ h[r] = Cardinality(D[x]) + h[r \ {x}]
  BY <1>6, <1>7, <1>8
<1> HIDE DEF x
<1>10. r \ {x} \in SUBSET S /\ r \ {x} \notin Bad
  <2>1. Cardinality(r \ {x}) = Cardinality(r) - 1 /\ Cardinality(r) \in Nat
    BY <1>2, <1>6, <1>9, FS_RemoveElement
  <2>2. ~(Cardinality(r) <= Cardinality(r \ {x}))
    BY <2>1
  <2>3. QED BY <1>5, <1>6, <2>2
<1>11. h[r \ {x}] = Cardinality(Together(D, r \ {x}))
  BY <1>10
<1>12. Cardinality(Together(D, r)) = Cardinality(D[x]) + Cardinality(Together(D, r \ {x}))
  BY <1>6, <1>9, OneMoreSet
<1>13. QED BY <1>6, <1>9, <1>11, <1>12

\* The loop that counts the pages of some descriptors finds how many they are.
LEMMA SlotSum ==
  ASSUME NEW m, MapTypes(m), NEW S \in SUBSET Slots, NEW D,
         \A s \in S : D[s] = Pages(Desc(m, s).address, Desc(m, s).pages),
         \A s, t \in S : s # t => D[s] \cap D[t] = {}
  PROVE  IsFiniteSet(Together(D, S)) /\ PagesIn(m, S) = Cardinality(Together(D, S))
<1>1. IsFiniteSet(S)
  <2> DEFINE k == Word * Word - 1
  <2>1. k \in Int /\ 0 \in Int
    BY Widths
  <2>2. Slots = 0 .. k
    BY DEF Slots
  <2> HIDE DEF k
  <2>3. IsFiniteSet(0 .. k)
    BY <2>1, FS_Interval
  <2>4. QED BY <2>2, <2>3, FS_Subset
<1>2. ASSUME NEW s \in S PROVE IsFiniteSet(D[s]) /\ Cardinality(D[s]) = Desc(m, s).pages
  <2> DEFINE a == Desc(m, s).address
             p == Desc(m, s).pages
             b == a + p - 1
  <2>1. a \in Nat /\ p \in Nat
    BY DEF MapTypes, Desc, Region, Empty
  <2>2. D[s] = a .. b
    BY DEF Pages
  <2> HIDE DEF a, p
  <2>3. a \in Int /\ b \in Int
    BY <2>1
  <2> HIDE DEF b
  <2>4. IsFiniteSet(a .. b) /\ Cardinality(a .. b) = IF a > b THEN 0 ELSE b - a + 1
    BY <2>3, FS_Interval
  <2>5. (IF a > b THEN 0 ELSE b - a + 1) = p
    BY <2>1 DEF b
  <2>6. QED BY <2>2, <2>4, <2>5 DEF p
<1>3. PICK g : IsSum(g, S, D)
  BY <1>1, <1>2, SumExists, Zenon
<1> DEFINE Adding(h) == h = [r \in SUBSET S |->
                  IF r = {} THEN 0
                  ELSE Desc(m, CHOOSE x \in r : TRUE).pages + h[r \ {CHOOSE x \in r : TRUE}]]
           G == CHOOSE h : Adding(h)
<1>4. PagesIn(m, S) = G[S]
  BY Zenon DEF PagesIn, MapThenSumSet, MapThenFoldSet
<1>a. \A r \in SUBSET S : r # {} =>
        Desc(m, CHOOSE x \in r : TRUE).pages = Cardinality(D[CHOOSE x \in r : TRUE])
  BY <1>2
<1>5. G = [r \in SUBSET S |->
             IF r = {} THEN 0
             ELSE Desc(m, CHOOSE x \in r : TRUE).pages + G[r \ {CHOOSE x \in r : TRUE}]]
  <2>1. \A r \in SUBSET S : g[r] = IF r = {} THEN 0
          ELSE Cardinality(D[CHOOSE x \in r : TRUE]) + g[r \ {CHOOSE x \in r : TRUE}]
    BY <1>3 DEF IsSum
  <2>2. ASSUME NEW r \in SUBSET S
        PROVE  g[r] = IF r = {} THEN 0
                 ELSE Desc(m, CHOOSE x \in r : TRUE).pages + g[r \ {CHOOSE x \in r : TRUE}]
    <3>1. CASE r = {}
      BY <2>1, <3>1
    <3>2. CASE r # {}
      <4>1. g[r] = Cardinality(D[CHOOSE x \in r : TRUE]) + g[r \ {CHOOSE x \in r : TRUE}]
        BY <2>1, <3>2
      <4>2. Desc(m, CHOOSE x \in r : TRUE).pages = Cardinality(D[CHOOSE x \in r : TRUE])
        BY <1>a, <3>2
      <4>3. QED BY <3>2, <4>1, <4>2
    <3>3. QED BY <3>1, <3>2
  <2>3. g = [r \in SUBSET S |-> g[r]]
    BY <1>3 DEF IsSum
  <2>4. Adding(g)
    BY <2>2, <2>3
  <2> HIDE DEF Adding
  <2>5. Adding(G)
    BY <2>4, Zenon
  <2> HIDE DEF G
  <2>6. QED BY <2>5, Zenon DEF Adding
<1>6. IsSum(G, S, D)
  <2> HIDE DEF G
  <2>1. \A r \in SUBSET S : G[r] = IF r = {} THEN 0
          ELSE Desc(m, CHOOSE x \in r : TRUE).pages + G[r \ {CHOOSE x \in r : TRUE}]
    BY <1>5
  <2>2. ASSUME NEW r \in SUBSET S
        PROVE  G[r] = IF r = {} THEN 0
                 ELSE Cardinality(D[CHOOSE x \in r : TRUE]) + G[r \ {CHOOSE x \in r : TRUE}]
    <3>1. CASE r = {}
      BY <2>1, <3>1
    <3>2. CASE r # {}
      <4>1. G[r] = Desc(m, CHOOSE x \in r : TRUE).pages + G[r \ {CHOOSE x \in r : TRUE}]
        BY <2>1, <3>2
      <4>2. Desc(m, CHOOSE x \in r : TRUE).pages = Cardinality(D[CHOOSE x \in r : TRUE])
        BY <1>a, <3>2
      <4>3. QED BY <3>2, <4>1, <4>2
    <3>3. QED BY <3>1, <3>2
  <2>3. G = [r \in SUBSET S |-> G[r]]
    BY <1>5
  <2>4. QED BY <2>2, <2>3 DEF IsSum
<1> HIDE DEF G
<1>7. G[S] = Cardinality(Together(D, S))
  BY <1>1, <1>2, <1>6, SumIsCount
<1>8. IsFiniteSet(Together(D, S))
  <2>1. CASE S = {}
    <3>1. Together(D, S) = {}
      BY <2>1 DEF Together
    <3>2. QED BY <3>1, FS_EmptySet
  <2>2. CASE S # {}
    <3>1. PICK x \in S : TRUE
      BY <2>2
    <3>2. QED BY <1>1, <1>2, <3>1, OneMoreSet
  <2>3. QED BY <2>1, <2>2
<1>9. QED BY <1>4, <1>7, <1>8

LEMMA PagesAreCounted ==
  ASSUME NEW m, MapTypes(m), NEW F, NEW U, Holds(m, F, U)
  PROVE  /\ IsFiniteSet(F) /\ PagesIn(m, FreeSlots(m)) = Cardinality(F)
         /\ IsFiniteSet(U) /\ PagesIn(m, UsedSlots(m)) = Cardinality(U)
<1> DEFINE D == [s \in Slots |-> Pages(Desc(m, s).address, Desc(m, s).pages)]
<1>1. /\ F = UNION {Piece(m, s, FALSE) : s \in Slots} /\ U = UNION {Piece(m, s, TRUE) : s \in Slots}
      /\ \A s, t \in Slots : \A a, b \in BOOLEAN :
           s # t => Piece(m, s, a) \cap Piece(m, t, b) = {}
  BY DEF Holds
<1>2. /\ FreeSlots(m) \in SUBSET Slots /\ UsedSlots(m) \in SUBSET Slots
      /\ \A s \in Slots : Desc(m, s).allocated \in BOOLEAN
  BY DEF MapTypes, FreeSlots, UsedSlots, Desc, Region, Empty
<1>3. \A s \in Slots : /\ Piece(m, s, FALSE) = IF s \in FreeSlots(m) THEN D[s] ELSE {}
                       /\ Piece(m, s, TRUE) = IF s \in UsedSlots(m) THEN D[s] ELSE {}
  BY <1>2 DEF FreeSlots, UsedSlots, Piece
<1>4. F = Together(D, FreeSlots(m)) /\ U = Together(D, UsedSlots(m))
  <2> HIDE DEF D
  <2>1. ASSUME NEW a, NEW M, NEW S \in SUBSET Slots, M = UNION {Piece(m, s, a) : s \in Slots},
               \A s \in Slots : Piece(m, s, a) = IF s \in S THEN D[s] ELSE {}
        PROVE  M = Together(D, S)
    <3>1. ASSUME NEW x \in M PROVE x \in Together(D, S)
      <4>1. PICK s \in Slots : x \in Piece(m, s, a)
        BY <2>1, Zenon
      <4>2. s \in S /\ x \in D[s]
        BY <2>1, <4>1
      <4>3. QED BY <4>2, Zenon DEF Together
    <3>2. ASSUME NEW x \in Together(D, S) PROVE x \in M
      <4>1. PICK s \in S : x \in D[s]
        BY Zenon DEF Together
      <4>2. s \in Slots /\ x \in Piece(m, s, a)
        BY <2>1, <4>1
      <4>3. QED BY <2>1, <4>2, Zenon
    <3>3. QED BY <3>1, <3>2
  <2>2. F = Together(D, FreeSlots(m))
    BY <1>1, <1>2, <1>3, <2>1
  <2>3. U = Together(D, UsedSlots(m))
    BY <1>1, <1>2, <1>3, <2>1
  <2>4. QED BY <2>2, <2>3
<1>5. /\ \A s, t \in FreeSlots(m) : s # t => D[s] \cap D[t] = {}
      /\ \A s, t \in UsedSlots(m) : s # t => D[s] \cap D[t] = {}
  <2> HIDE DEF D
  <2>1. \A s, t \in Slots : s # t => /\ Piece(m, s, FALSE) \cap Piece(m, t, FALSE) = {}
                                     /\ Piece(m, s, TRUE) \cap Piece(m, t, TRUE) = {}
    BY <1>1
  <2>2. QED BY <1>2, <1>3, <2>1
<1>6. /\ \A s \in FreeSlots(m) : D[s] = Pages(Desc(m, s).address, Desc(m, s).pages)
      /\ \A s \in UsedSlots(m) : D[s] = Pages(Desc(m, s).address, Desc(m, s).pages)
  BY <1>2
<1> HIDE DEF D
<1>7. /\ IsFiniteSet(Together(D, FreeSlots(m)))
      /\ PagesIn(m, FreeSlots(m)) = Cardinality(Together(D, FreeSlots(m)))
  BY <1>2, <1>5, <1>6, SlotSum
<1>8. /\ IsFiniteSet(Together(D, UsedSlots(m)))
      /\ PagesIn(m, UsedSlots(m)) = Cardinality(Together(D, UsedSlots(m)))
  BY <1>2, <1>5, <1>6, SlotSum
<1>9. QED BY <1>4, <1>7, <1>8, Zenon

-----------------------------------------------------------------------------
(* Runs and parts.                                                           *)

LEMMA Sizes ==
  /\ Large \in Nat /\ Large > 0 /\ Huge \in Nat /\ Huge > 0 /\ Huge % Large = 0
  /\ Size(0) = 1 /\ Size(1) = Large /\ Size(2) = Huge
  /\ \A k \in 0 .. 2 : Size(k) \in Nat /\ Size(k) > 0
<1>1. /\ Large \in Nat /\ Large > 0 /\ Huge \in Nat /\ Huge > 0 /\ Huge % Large = 0
  BY PageAssumption
<1>2. Size(0) = 1 /\ Size(1) = Large /\ Size(2) = Huge
  BY DEF Size
<1>3. ASSUME NEW k \in 0 .. 2 PROVE Size(k) \in Nat /\ Size(k) > 0
  <2>1. k = 0 \/ k = 1 \/ k = 2
    OBVIOUS
  <2>2. QED BY <1>1, <1>2, <2>1
<1>4. QED BY <1>1, <1>2, <1>3

LEMMA PagesCount ==
  ASSUME NEW a \in Nat, NEW n \in Nat
  PROVE  IsFiniteSet(Pages(a, n)) /\ Cardinality(Pages(a, n)) = n
<1> DEFINE b == a + n - 1
<1>1. Pages(a, n) = a .. b
  BY DEF Pages
<1>2. a \in Int /\ b \in Int
  OBVIOUS
<1>3. (IF a > b THEN 0 ELSE b - a + 1) = n
  OBVIOUS
<1> HIDE DEF b
<1>4. IsFiniteSet(a .. b) /\ Cardinality(a .. b) = IF a > b THEN 0 ELSE b - a + 1
  BY <1>2, FS_Interval
<1>5. QED BY <1>1, <1>3, <1>4

\* A run of new pages with the next header keeps the runs in order.
LEMMA AddRun ==
  ASSUME NEW runs, NEW n, RunsInv(runs, n),
         NEW r \in [level : 0 .. 2, start : Nat, count : Nat, header : Nat],
         r.header = n, r.start % Size(r.level) = 0, RunPages(r) \cap InsertedPages(runs) = {}
  PROVE  /\ RunsInv(runs \cup {r}, n + (r.count * Size(r.level)))
         /\ InsertedPages(runs \cup {r}) = InsertedPages(runs) \cup RunPages(r)
<1> DEFINE k == r.count * Size(r.level)
           A == InsertedPages(runs)
           B == RunPages(r)
<1>1. k \in Nat /\ r.start \in Nat
  <2>1. Size(r.level) \in Nat
    BY Sizes
  <2>2. r.count \in Nat
    OBVIOUS
  <2>3. QED BY <2>1, <2>2
<1>2. n \in Nat /\ IsFiniteSet(A) /\ Cardinality(A) = n
  BY DEF RunsInv
<1>3. B = Pages(r.start, k) /\ Headers(r) = Pages(n, k)
  BY DEF RunPages, Headers
<1>4. InsertedPages(runs \cup {r}) = A \cup B
  BY DEF InsertedPages
<1>5. \A q \in runs : RunPages(q) \subseteq A
  BY DEF InsertedPages
<1> HIDE DEF k, A, B
<1>6. IsFiniteSet(A \cup B) /\ Cardinality(A \cup B) = n + k
  <2>1. IsFiniteSet(B) /\ Cardinality(B) = k
    BY <1>1, <1>3, PagesCount
  <2>2. A \cap B = {}
    BY DEF A, B
  <2>3. Cardinality(A \cup B) = Cardinality(A) + Cardinality(B) - Cardinality(A \cap B)
    BY <1>2, <2>1, FS_Union
  <2>4. Cardinality(A \cap B) = 0
    BY <2>2, FS_EmptySet
  <2>5. QED BY <1>1, <1>2, <2>1, <2>3, <2>4, FS_Union
<1>7. \A q \in runs : q.start % Size(q.level) = 0 /\ Headers(q) \subseteq 0 .. n - 1
  BY DEF RunsInv
<1>8. Headers(r) \subseteq 0 .. (n + k) - 1 /\ Headers(r) \cap (0 .. n - 1) = {}
  BY <1>1, <1>2, <1>3 DEF Pages
<1>9. 0 .. n - 1 \subseteq 0 .. (n + k) - 1
  BY <1>1, <1>2
<1>10. \A q \in runs \cup {r} : q.start % Size(q.level) = 0 /\ Headers(q) \subseteq 0 .. (n + k) - 1
  BY <1>7, <1>8, <1>9
<1>11. ASSUME NEW p \in runs \cup {r}, NEW q \in runs \cup {r}, p # q
       PROVE  RunPages(p) \cap RunPages(q) = {} /\ Headers(p) \cap Headers(q) = {}
  <2>1. \A u \in runs : RunPages(u) \cap RunPages(r) = {} /\ Headers(u) \cap Headers(r) = {}
    BY <1>5, <1>7, <1>8 DEF A, B
  <2>2. CASE p = r
    BY <1>11, <2>1, <2>2
  <2>3. CASE q = r
    BY <1>11, <2>1, <2>3
  <2>4. CASE p \in runs /\ q \in runs
    BY <1>11, <2>4 DEF RunsInv
  <2>5. QED BY <2>2, <2>3, <2>4
<1>12. /\ runs \cup {r} \subseteq [level : 0 .. 2, start : Nat, count : Nat, header : Nat]
       /\ n + k \in Nat
  BY <1>1, <1>2 DEF RunsInv
<1>13. RunsInv(runs \cup {r}, n + k)
  BY <1>4, <1>6, <1>10, <1>11, <1>12 DEF RunsInv
<1>14. QED BY <1>4, <1>13 DEF k, A, B

\* A part that holds a page of a size is cut in three; the first piece ends where a
\* page does, and the last is empty when the part ends so.
LEMMA CutInThree ==
  ASSUME NEW c \in Part, NEW size \in Nat, size > 0, Fits(c, size)
  PROVE  /\ LeftOf(c, size) \in Part /\ RightOf(c, size) \in Part
         /\ Start(c, size) \in Nat /\ Whole(c, size) \in Nat /\ Start(c, size) % size = 0
         /\ PartPages(c) = PartPages(LeftOf(c, size)) \cup PartPages(RightOf(c, size))
                             \cup Pages(Start(c, size), Whole(c, size) * size)
         /\ PartPages(LeftOf(c, size)) \cap PartPages(RightOf(c, size)) = {}
         /\ Pages(Start(c, size), Whole(c, size) * size)
              \cap (PartPages(LeftOf(c, size)) \cup PartPages(RightOf(c, size))) = {}
         /\ LeftOf(c, size).address + LeftOf(c, size).pages = Start(c, size)
         /\ (c.address + c.pages) % size = 0 => RightOf(c, size).pages = 0
<1> DEFINE a == c.address
           p == c.pages
           e == Excess(a, size)
           w == (p - e) \div size
           k == w * size
<1>1. a \in Nat /\ p \in Nat /\ p >= size + e
  BY DEF Part, Fits
<1>2. /\ e \in Nat /\ w \in Nat /\ k \in Nat /\ k > 0 /\ k <= p - e
      /\ (a + p) % size = 0 => k = p - e
  <2> HIDE DEF a, p
  <2>1. QED BY <1>1, WholeFits
<1>3. (a + e) % size = 0
  <2> HIDE DEF a, p
  <2>1. QED BY <1>1, ExcessAligns
<1>4. /\ Whole(c, size) = w /\ Start(c, size) = a + e
      /\ LeftOf(c, size) = [address |-> a, pages |-> e]
      /\ RightOf(c, size) = [address |-> a + e + k, pages |-> a + p - (a + e + k)]
  BY DEF Whole, Start, LeftOf, RightOf
<1>5. PartPages(c) = Pages(a, p)
  BY DEF PartPages
<1> HIDE DEF a, p, e, w
<1>6. Pages(Start(c, size), Whole(c, size) * size) = Pages(a + e, k)
  BY <1>4
<1> HIDE DEF k
<1>7. /\ PartPages(LeftOf(c, size)) = Pages(a, e)
      /\ PartPages(RightOf(c, size)) = Pages(a + e + k, a + p - (a + e + k))
  BY <1>4 DEF PartPages
<1>8. LeftOf(c, size) \in Part /\ RightOf(c, size) \in Part
  BY <1>1, <1>2, <1>4 DEF Part
<1>9. /\ Pages(a, p) = Pages(a, e) \cup Pages(a + e + k, a + p - (a + e + k)) \cup Pages(a + e, k)
      /\ Pages(a, e) \cap Pages(a + e + k, a + p - (a + e + k)) = {}
      /\ Pages(a + e, k) \cap (Pages(a, e) \cup Pages(a + e + k, a + p - (a + e + k))) = {}
  BY <1>1, <1>2 DEF Pages
<1>10. /\ LeftOf(c, size).address + LeftOf(c, size).pages = Start(c, size)
       /\ (a + p) % size = 0 => RightOf(c, size).pages = 0
  BY <1>1, <1>2, <1>4
<1>11. Start(c, size) \in Nat /\ Whole(c, size) \in Nat /\ Start(c, size) % size = 0
  BY <1>1, <1>2, <1>3, <1>4
<1>12. QED BY <1>5, <1>6, <1>7, <1>8, <1>9, <1>10, <1>11 DEF a, p

-----------------------------------------------------------------------------
(* The steps of the loader and of the kernel's allocation.                   *)

\* No page was reported both free and in use.
LEMMA KindsApart ==
  ASSUME PhaseInv
  PROVE  Reported("EfiConventionalMemory") \cap Reported("EfiLoaderData") = {}
<1> DEFINE Of(i) == Pages(firmware[i].start, firmware[i].pages)
<1>1. /\ 1 .. entry - 1 \subseteq DOMAIN firmware
      /\ \A i, j \in DOMAIN firmware : i # j => Of(i) \cap Of(j) = {}
  <2>1. firmware \in FirmwareMaps /\ entry \in 1 .. Len(firmware) + 1
    BY DEF PhaseInv
  <2>2. Len(firmware) \in Nat /\ DOMAIN firmware = 1 .. Len(firmware)
    BY <2>1, MapFacts
  <2>3. 1 .. entry - 1 \subseteq DOMAIN firmware
    BY <2>1, <2>2
  <2>4. \A i, j \in DOMAIN firmware : i # j => Of(i) \cap Of(j) = {}
    BY <2>1, MapFacts
  <2>5. QED BY <2>3, <2>4
<1> HIDE DEF Of
<1>2. ASSUME NEW x, x \in Reported("EfiConventionalMemory"), x \in Reported("EfiLoaderData")
      PROVE  FALSE
  <2>1. PICK i \in 1 .. entry - 1 : x \in Of(i) /\ firmware[i].type = "EfiConventionalMemory"
    BY <1>2 DEF Reported, Of
  <2>2. PICK j \in 1 .. entry - 1 : x \in Of(j) /\ firmware[j].type = "EfiLoaderData"
    BY <1>2 DEF Reported, Of
  <2>3. i # j
    BY <2>1, <2>2
  <2>4. QED BY <1>1, <2>1, <2>2, <2>3
<1>3. QED BY <1>2

LEMMA NoRuns == RunsInv({}, 0) /\ InsertedPages({}) = {} /\ PartPages(None) = {} /\ None \in Part
<1>1. InsertedPages({}) = {}
  BY DEF InsertedPages
<1>2. RunsInv({}, 0)
  BY <1>1, FS_EmptySet DEF RunsInv
<1>3. PartPages(None) = {} /\ None \in Part
  BY DEF PartPages, None, Pages, Part
<1>4. QED BY <1>1, <1>2, <1>3

\* Before the walk nothing is inserted.
LEMMA NothingYet ==
  ASSUME HandOverInv, BootInv', UNCHANGED <<walk, counts>>, phase \in Loading,
         phase' \in Loading \cup {"halted"}
  PROVE  HandOverInv'
<1>1. /\ inserted = {} /\ pageNumber = 0 /\ cursor = 0 /\ cmem2 = None
      /\ inserted' = {} /\ pageNumber' = 0 /\ cursor' = 0 /\ cmem2' = None /\ cmem' = cmem
      /\ allocatedPages' = allocatedPages /\ totalPages' = totalPages
  BY DEF HandOverInv, WalkInv, PartsInv, walk, counts, Loading
<1>2. phase' \notin Handing /\ phase' \notin {"walk", "ready"} /\ phase' # "cut"
  BY DEF Handing, Loading
<1>3. RunsInv(inserted', pageNumber') /\ InsertedPages(inserted') = {}
  BY <1>1, NoRuns
<1>4. RunsInv(inserted, pageNumber)'
  BY <1>3 DEF RunsInv, InsertedPages, RunPages, Headers, Size, Pages
<1>5. PartsInv'
  BY <1>1 DEF HandOverInv, PartsInv
<1>6. WalkInv'
  <2>1. InsertedPages(inserted)' = {}
    BY <1>1 DEF InsertedPages
  <2>2. QED BY <1>1, <1>2, <2>1 DEF WalkInv
<1>7. CountInv'
  BY <1>1, <1>2 DEF HandOverInv, CountInv
<1>8. QED BY <1>4, <1>5, <1>6, <1>7 DEF HandOverInv

LEMMA InitHandOver == Init => HandOverInv
<1> SUFFICES ASSUME Init PROVE HandOverInv
  OBVIOUS
<1>1. /\ phase = "map" /\ allocatedPages = 0 /\ totalPages = 0
      /\ cursor = 0 /\ cmem = None /\ cmem2 = None /\ pageNumber = 0 /\ inserted = {}
  BY DEF Init
<1>2. RunsInv(inserted, pageNumber) /\ InsertedPages(inserted) = {}
  BY <1>1, NoRuns
<1>3. PartsInv
  BY <1>1, NoRuns DEF PartsInv
<1>4. WalkInv
  BY <1>1, <1>2 DEF WalkInv
<1>5. CountInv
  BY <1>1 DEF CountInv, Handing
<1>6. QED BY <1>2, <1>3, <1>4, <1>5, InitMemory DEF HandOverInv

\* The counts are of what the table describes, the buffer included.
LEMMA CountsKept == HandOverInv /\ KiPhysicalMemoryManagerInit => HandOverInv'
<1> SUFFICES ASSUME HandOverInv, KiPhysicalMemoryManagerInit PROVE HandOverInv'
  OBVIOUS
<1> DEFINE R == Reported("EfiConventionalMemory")
           L == Reported("EfiLoaderData")
           F == R \ HandedOut
           U == L \cup HandedOut
           free == PagesIn(map, FreeSlots(map))
           used == PagesIn(map, UsedSlots(map))
<1>0. BootInv /\ BootInv' /\ phase = "kernel" /\ UNCHANGED walk
  BY BufferKeeps DEF HandOverInv, KiPhysicalMemoryManagerInit
<1>1. CASE phase' = "halted" /\ UNCHANGED counts
  BY <1>0, <1>1, NothingYet DEF Loading
<1>2. CASE ~(phase' = "halted" /\ UNCHANGED counts)
  <2>1. /\ phase' = "walk" /\ totalPages' = used + free /\ allocatedPages' = used + VmmPages
        /\ UNCHANGED <<firmware, entry, tables>>
        /\ \E s \in Slots : vmmBuffer' = Pages(Desc(map, s).address, VmmPages)
    <3> DEFINE high == HighCandidates(map, VmmPages)
               low == LowCandidates(map, VmmPages)
               s == IF high # {} THEN Min(high) ELSE Min(low)
    <3>1. /\ phase' = "walk" /\ totalPages' = used + free /\ allocatedPages' = used + VmmPages
          /\ UNCHANGED <<firmware, entry, tables>>
          /\ vmmBuffer' = Pages(Desc(map, s).address, VmmPages)
          /\ high # {} \/ low # {}
      BY <1>2 DEF KiPhysicalMemoryManagerInit
    <3>2. high \in SUBSET Nat /\ low \in SUBSET Nat /\ high \subseteq Slots /\ low \subseteq Slots
      BY <1>0 DEF HighCandidates, LowCandidates, MapTypes, Slots, BootInv, PhaseInv
    <3> HIDE DEF high, low
    <3>3. s \in Slots
      BY <3>1, <3>2, MinIn
    <3> HIDE DEF s
    <3>4. QED BY <3>1, <3>3
  <2>2. /\ IsFiniteSet(F) /\ free = Cardinality(F) /\ IsFiniteSet(U) /\ used = Cardinality(U)
    <3> HIDE DEF F, U
    <3>1. MapTypes(map) /\ Holds(map, F, U)
      BY <1>0 DEF BootInv, PhaseInv, MemoryInv, F, U
    <3>2. QED BY <3>1, PagesAreCounted, Zenon
  <2>3. R \cap L = {} /\ HandedOut \subseteq R /\ Usable = R \cup L
    BY <1>0, KindsApart DEF BootInv, TakenInv, Usable
  <2>4. F \cap U = {} /\ F \cup U = R \cup L
    BY <2>3
  <2>5. vmmBuffer = {} /\ R' = R /\ L' = L /\ HandedOut' = HandedOut \cup vmmBuffer'
    <3>1. vmmBuffer = {}
      BY <1>0 DEF BootInv, PhaseInv, Loading
    <3>2. R' = R /\ L' = L
      BY <2>1 DEF Reported
    <3>3. HandedOut' = HandedOut \cup vmmBuffer'
      BY <2>1, <3>1 DEF HandedOut
    <3>4. QED BY <3>1, <3>2, <3>3
  <2>6. IsFiniteSet(vmmBuffer') /\ Cardinality(vmmBuffer') = VmmPages
    <3>1. PICK s \in Slots : vmmBuffer' = Pages(Desc(map, s).address, VmmPages)
      BY <2>1
    <3>2. Desc(map, s).address \in Nat
      BY <1>0 DEF BootInv, PhaseInv, MapTypes, Desc, Region, Empty
    <3>3. QED BY <3>1, <3>2, Widths, PagesCount
  <2>7. vmmBuffer' \cap U = {}
    <3>1. HandedOut' \subseteq R'
      BY <1>0 DEF BootInv, TakenInv
    <3>2. vmmBuffer' \cap L = {}
      BY <2>3, <2>5, <3>1
    <3>3. \A i \in DOMAIN tables : tables[i] \notin vmmBuffer'
      BY <1>0, <2>1 DEF BootInv, TakenInv
    <3>4. vmmBuffer' \cap HandedOut = {}
      BY <2>5, <3>3 DEF HandedOut
    <3>5. QED BY <3>2, <3>4
  <2>8. Usable' = R \cup L /\ (L \cup HandedOut)' = U \cup vmmBuffer'
    BY <2>5 DEF Usable
  <2> HIDE DEF F, U, R, L, free, used
  <2>9. totalPages' = Cardinality(R \cup L) /\ totalPages' \in Nat
    <3>1. Cardinality(F \cup U) = Cardinality(F) + Cardinality(U) - Cardinality(F \cap U)
      BY <2>2, FS_Union
    <3>2. Cardinality(F \cap U) = 0
      BY <2>4, FS_EmptySet
    <3>3. Cardinality(F) \in Nat /\ Cardinality(U) \in Nat
      BY <2>2, FS_CardinalityType
    <3>4. Cardinality(R \cup L) = Cardinality(F \cup U)
      BY <2>4, Zenon
    <3>5. Cardinality(F \cup U) = used + free /\ used + free \in Nat
      BY <2>2, <3>1, <3>2, <3>3
    <3>6. QED BY <2>1, <3>4, <3>5
  <2>10. allocatedPages' = Cardinality(U \cup vmmBuffer') /\ allocatedPages' \in Nat
    <3>1. Cardinality(U \cup vmmBuffer')
            = Cardinality(U) + Cardinality(vmmBuffer') - Cardinality(U \cap vmmBuffer')
      BY <2>2, <2>6, FS_Union
    <3>2. Cardinality(U \cap vmmBuffer') = 0
      BY <2>7, FS_EmptySet
    <3>3. Cardinality(U) \in Nat
      BY <2>2, FS_CardinalityType
    <3>4. QED BY <2>1, <2>2, <2>6, <3>1, <3>2, <3>3, Widths
  <2>11. CountInv'
    <3>1. (Reported("EfiLoaderData") \cup HandedOut)' = U \cup vmmBuffer'
      BY <2>8 DEF L
    <3>2. QED BY <2>8, <2>9, <2>10, <3>1 DEF CountInv
  <2>12. /\ inserted = {} /\ pageNumber = 0 /\ cursor = 0 /\ cmem2 = None
         /\ inserted' = {} /\ pageNumber' = 0 /\ cursor' = 0 /\ cmem2' = None /\ cmem' = cmem
    BY <1>0 DEF HandOverInv, WalkInv, PartsInv, walk, Loading
  <2>13. RunsInv(inserted, pageNumber)'
    <3>1. RunsInv(inserted', pageNumber')
      BY <2>12, NoRuns
    <3>2. QED BY <3>1 DEF RunsInv, InsertedPages, RunPages, Headers, Size, Pages
  <2>14. PartsInv'
    BY <2>12 DEF HandOverInv, PartsInv
  <2>15. WalkInv'
    <3>1. InsertedPages(inserted)' = {}
      BY <2>12 DEF InsertedPages
    <3>2. Walked' = {}
      <4>1. map'.present \subseteq Slots
        BY <1>0 DEF BootInv, PhaseInv, MapTypes
      <4>2. \A t \in FreeSlots(map)' : ~(t < 0)
        BY <4>1, Widths DEF FreeSlots, Slots
      <4>3. {t \in FreeSlots(map)' : t < 0} = {}
        BY <4>2
      <4>4. QED BY <2>12, <4>3 DEF Walked
    <3>3. QED BY <2>1, <3>1, <3>2 DEF WalkInv, Loading
  <2>16. QED BY <1>0, <2>11, <2>13, <2>14, <2>15 DEF HandOverInv
<1>3. QED BY <1>1, <1>2

-----------------------------------------------------------------------------
(* The steps of the walk.                                                    *)

\* What a free descriptor describes was free, and no other describes it.
LEMMA FreeDescribed ==
  ASSUME BootInv, NEW s \in FreeSlots(map)
  PROVE  /\ s \in Nat /\ Desc(map, s).address \in Nat /\ Desc(map, s).pages \in Nat
         /\ Described(s) \subseteq Reported("EfiConventionalMemory") \ HandedOut
         /\ \A t \in FreeSlots(map) : s # t => Described(s) \cap Described(t) = {}
<1>1. s \in map.present /\ ~Desc(map, s).allocated /\ FreeSlots(map) \subseteq map.present
  BY DEF FreeSlots
<1>2. s \in Slots /\ Desc(map, s).allocated \in BOOLEAN
  BY <1>1, PiecesOfMap
<1>3. s \in Nat /\ Desc(map, s).address \in Nat /\ Desc(map, s).pages \in Nat
  BY <1>2, Widths DEF BootInv, PhaseInv, MapTypes, Desc, Region, Empty, Slots
<1>4. Described(s) \subseteq Reported("EfiConventionalMemory") \ HandedOut
  <2> DEFINE F == Reported("EfiConventionalMemory") \ HandedOut
             U == Reported("EfiLoaderData") \cup HandedOut
  <2>1. Holds(map, F, U)
    BY DEF BootInv, MemoryInv
  <2> HIDE DEF F, U
  <2>2. Piece(map, s, FALSE) \subseteq F
    BY <1>2, <2>1, FreeNotUsed
  <2>3. Desc(map, s).allocated = FALSE
    BY <1>1, <1>2
  <2>4. Piece(map, s, FALSE) = Described(s)
    BY <1>1, <2>3 DEF Piece, Described
  <2>5. QED BY <2>2, <2>4 DEF F
<1>5. \A t \in FreeSlots(map) : s # t => Described(s) \cap Described(t) = {}
  BY <1>1, UsableMemory DEF MapKeepsMemory
<1>6. QED BY <1>3, <1>4, <1>5

\* The memory of the descriptors below a slot.
Reached(n) == UNION {Described(s) : s \in {t \in FreeSlots(map) : t < n}}

\* W is three pieces that share nothing.
ThreeParts(W, A, B, C) ==
  W = A \cup B \cup C /\ A \cap (B \cup C) = {} /\ B \cap C = {}

\* The invariant after a step of the walk, from its parts.
LEMMA WalkStep ==
  ASSUME HandOverInv, BootInv', UNCHANGED <<firmware, entry, map, tables, vmmBuffer, counts>>,
         phase \in Handing, phase' \in {"walk", "cut", "ready", "halted"},
         RunsInv(inserted', pageNumber'),
         cursor' \in Nat, cmem' \in Part, cmem2' \in Part,
         cmem2' # None => /\ phase' = "cut" /\ cmem2'.pages # 0
                          /\ (cmem'.address + cmem'.pages) % Large = 0,
         phase' \in {"walk", "ready"} => InsertedPages(inserted') = Reached(cursor'),
         phase' = "cut" => ThreeParts(Reached(cursor'), InsertedPages(inserted'),
                                      PartPages(cmem'), PartPages(cmem2')),
         InsertedPages(inserted') \subseteq Reported("EfiConventionalMemory") \ HandedOut,
         phase' = "ready" => \A s \in FreeSlots(map) : s < cursor'
  PROVE  HandOverInv'
<1>1. /\ HandedOut' = HandedOut /\ Usable' = Usable
      /\ Reported("EfiConventionalMemory")' = Reported("EfiConventionalMemory")
      /\ Reported("EfiLoaderData")' = Reported("EfiLoaderData")
      /\ FreeSlots(map)' = FreeSlots(map)
      /\ allocatedPages' = allocatedPages /\ totalPages' = totalPages
  BY DEF HandedOut, Usable, Reported, FreeSlots, Desc, counts
<1>2. Walked' = Reached(cursor')
  <2>1. \A s : Described(s)' = Described(s)
    BY DEF Described, Desc
  <2>2. QED BY <1>1, <2>1 DEF Walked, Reached
<1>3. RunsInv(inserted, pageNumber)'
  BY DEF RunsInv, InsertedPages, RunPages, Headers, Size, Pages
<1>4. PartsInv'
  BY DEF PartsInv
<1>5. /\ InsertedPages(inserted)' = InsertedPages(inserted')
      /\ PartPages(cmem)' = PartPages(cmem') /\ PartPages(cmem2)' = PartPages(cmem2')
  BY DEF InsertedPages, RunPages, PartPages, Size, Pages
<1>6. WalkInv'
  <2>1. phase' \notin Loading
    BY DEF Loading
  <2>2. QED BY <1>1, <1>2, <1>5, <2>1 DEF WalkInv, ThreeParts
<1>7. CountInv'
  BY <1>1 DEF HandOverInv, CountInv
<1>8. QED BY <1>3, <1>4, <1>6, <1>7 DEF HandOverInv

\* Copying the next free descriptor and inserting its huge pages keeps every page:
\* what is left before them and behind them waits to be cut.
LEMMA DescriptorKeeps == HandOverInv /\ NextDescriptor => HandOverInv'
<1> SUFFICES ASSUME HandOverInv, NextDescriptor PROVE HandOverInv'
  OBVIOUS
<1> DEFINE rest == {t \in FreeSlots(map) : t >= cursor}
           s == Min(rest)
           c == [address |-> Desc(map, s).address, pages |-> Desc(map, s).pages]
           A == InsertedPages(inserted)
           F == Reported("EfiConventionalMemory") \ HandedOut
<1>1. /\ phase = "walk" /\ cmem2 = None /\ cursor \in Nat /\ cmem \in Part
      /\ UNCHANGED <<firmware, entry, map, tables, vmmBuffer, counts>>
      /\ phase \in Handing
  BY DEF HandOverInv, PartsInv, NextDescriptor, Handing
<1>2. RunsInv(inserted, pageNumber) /\ pageNumber \in Nat /\ A = Walked /\ A \subseteq F
      /\ Walked = Reached(cursor)
  <2>1. Walked = Reached(cursor)
    BY DEF Walked, Reached
  <2>2. QED BY <1>1, <2>1 DEF HandOverInv, WalkInv, RunsInv
<1>3. phase' \in {"cut", "ready", "halted"}
  BY DEF NextDescriptor
<1>4. BootInv /\ BootInv'
  BY <1>1, <1>3, PhaseKeeps DEF HandOverInv
<1>5. FreeSlots(map) \in SUBSET Nat
  BY <1>4, FreeDescribed
<1>6. CASE rest = {}
  <2>1. phase' = "ready" /\ UNCHANGED walk
    BY <1>6 DEF NextDescriptor
  <2>2. \A t \in FreeSlots(map) : t < cursor
    BY <1>1, <1>5, <1>6
  <2>3. /\ inserted' = inserted /\ pageNumber' = pageNumber /\ cursor' = cursor
        /\ cmem' = cmem /\ cmem2' = None
    BY <1>1, <2>1 DEF walk
  <2>4. None \in Part
    BY NoRuns
  <2> HIDE DEF A, F
  <2>5. InsertedPages(inserted') = Reached(cursor')
    BY <1>2, <2>3 DEF A
  <2>6. InsertedPages(inserted') \subseteq Reported("EfiConventionalMemory") \ HandedOut
    BY <1>2, <2>3 DEF A, F
  <2>7. RunsInv(inserted', pageNumber')
    BY <1>2, <2>3
  <2>8. QED BY <1>1, <1>4, <2>1, <2>2, <2>3, <2>4, <2>5, <2>6, <2>7, WalkStep
<1>7. CASE rest # {}
  <2>1. s \in rest /\ \A t \in rest : s <= t
    <3>1. rest \in SUBSET Nat
      BY <1>5
    <3> HIDE DEF rest
    <3>2. QED BY <1>7, <3>1, MinIn
  <2>2. s \in FreeSlots(map) /\ s \in Nat /\ cursor <= s
    BY <1>5, <2>1
  <2>3. /\ cursor' = s + 1 /\ s + 1 \in Nat
        /\ IF ~Fits(c, Huge)
           THEN phase' = "cut" /\ cmem' = c /\ UNCHANGED <<cmem2, pageNumber, inserted>>
           ELSE IF Whole(c, Huge) > LevelLength
           THEN phase' = "halted" /\ UNCHANGED <<cmem, cmem2, pageNumber, inserted>>
           ELSE /\ inserted' = inserted \cup {Run(2, Start(c, Huge), Whole(c, Huge))}
                /\ pageNumber' = pageNumber + Whole(c, Huge) * Huge
                /\ cmem' = LeftOf(c, Huge)
                /\ cmem2' = Pending(c, Huge)
                /\ phase' = "cut"
    BY <1>7, <2>2 DEF NextDescriptor
  <2>4. c \in Part /\ PartPages(c) = Described(s) /\ Described(s) \subseteq F
    BY <1>4, <2>2, FreeDescribed DEF Part, PartPages, Described
  <2>5. Reached(s + 1) = A \cup PartPages(c) /\ A \cap PartPages(c) = {}
    <3>0. \A t \in FreeSlots(map) : t >= cursor => s <= t
      BY <2>1
    <3> HIDE DEF s, A, c, rest
    <3>1. ASSUME NEW t \in FreeSlots(map) PROVE t < s + 1 <=> t < cursor \/ t = s
      <4>1. t \in Nat /\ s \in Nat /\ cursor \in Nat /\ cursor <= s
        BY <1>1, <1>5, <2>2
      <4>2. t >= cursor => s <= t
        BY <3>0
      <4>3. QED BY <4>1, <4>2
    <3>2. {t \in FreeSlots(map) : t < s + 1} = {t \in FreeSlots(map) : t < cursor} \cup {s}
      BY <2>2, <3>1
    <3>3. Reached(s + 1) = Reached(cursor) \cup Described(s)
      BY <3>2 DEF Reached
    <3>4. \A t \in FreeSlots(map) : t < cursor => Described(s) \cap Described(t) = {}
      BY <1>1, <1>4, <1>5, <2>2, FreeDescribed
    <3>5. Reached(cursor) \cap Described(s) = {}
      BY <3>4 DEF Reached
    <3>6. QED BY <1>2, <2>4, <3>3, <3>5
  <2> HIDE DEF s, c, rest
  <2>6. /\ HandOverInv /\ BootInv' /\ UNCHANGED <<firmware, entry, map, tables, vmmBuffer, counts>>
        /\ phase \in Handing /\ cursor' \in Nat
    BY <1>1, <1>4, <2>3
  <2>7. CASE ~Fits(c, Huge)
    <3>1. /\ phase' = "cut" /\ cmem' = c /\ cmem2' = None
          /\ pageNumber' = pageNumber /\ inserted' = inserted
      BY <1>1, <2>3, <2>7
    <3>2. ThreeParts(Reached(cursor'), InsertedPages(inserted'), PartPages(cmem'), PartPages(cmem2'))
      <4>1. InsertedPages(inserted') = A
        BY <3>1
      <4> HIDE DEF A
      <4>2. ThreeParts(Reached(s + 1), A, PartPages(c), {})
        BY <2>5 DEF ThreeParts
      <4>3. QED BY <2>3, <3>1, <4>1, <4>2, NoRuns
    <3>3. InsertedPages(inserted') \subseteq Reported("EfiConventionalMemory") \ HandedOut
      BY <1>2, <3>1
    <3>4. RunsInv(inserted', pageNumber')
      BY <1>2, <3>1
    <3>5. QED BY <2>4, <2>6, <3>1, <3>2, <3>3, <3>4, NoRuns, WalkStep
  <2>8. CASE Fits(c, Huge) /\ Whole(c, Huge) > LevelLength
    <3>1. /\ phase' = "halted" /\ cmem' = cmem /\ cmem2' = None
          /\ pageNumber' = pageNumber /\ inserted' = inserted
      BY <1>1, <2>3, <2>8
    <3>2. InsertedPages(inserted') \subseteq Reported("EfiConventionalMemory") \ HandedOut
      BY <1>2, <3>1
    <3>3. RunsInv(inserted', pageNumber')
      BY <1>2, <3>1
    <3>4. QED BY <1>1, <2>6, <3>1, <3>2, <3>3, NoRuns, WalkStep
  <2>9. CASE Fits(c, Huge) /\ ~(Whole(c, Huge) > LevelLength)
    <3> DEFINE r == Run(2, Start(c, Huge), Whole(c, Huge))
               B == Pages(Start(c, Huge), Whole(c, Huge) * Huge)
               lp == LeftOf(c, Huge)
               rp == RightOf(c, Huge)
    <3>1. /\ phase' = "cut" /\ cmem' = lp /\ cmem2' = IF rp.pages # 0 THEN rp ELSE None
          /\ pageNumber' = pageNumber + (Whole(c, Huge) * Huge) /\ inserted' = inserted \cup {r}
      BY <1>1, <2>3, <2>9 DEF Pending
    <3>2. /\ lp \in Part /\ rp \in Part
          /\ Start(c, Huge) \in Nat /\ Whole(c, Huge) \in Nat /\ Start(c, Huge) % Huge = 0
          /\ PartPages(c) = PartPages(lp) \cup PartPages(rp) \cup B
          /\ PartPages(lp) \cap PartPages(rp) = {}
          /\ B \cap (PartPages(lp) \cup PartPages(rp)) = {}
          /\ lp.address + lp.pages = Start(c, Huge)
      BY <2>4, <2>9, Sizes, CutInThree
    <3>3. /\ r \in [level : 0 .. 2, start : Nat, count : Nat, header : Nat]
          /\ r.header = pageNumber /\ r.start = Start(c, Huge) /\ r.count = Whole(c, Huge)
          /\ r.level = 2 /\ RunPages(r) = B
      BY <1>2, <3>2, Sizes DEF Run, RunPages
    <3> HIDE DEF r, lp, rp, A, B, F
    <3>4. /\ RunsInv(inserted \cup {r}, pageNumber + (Whole(c, Huge) * Huge))
          /\ InsertedPages(inserted \cup {r}) = A \cup B
      <4>1. RunPages(r) \cap InsertedPages(inserted) = {}
        BY <2>5, <3>2, <3>3 DEF A
      <4>2. r.start % Size(r.level) = 0 /\ Size(r.level) = Huge
        BY <3>2, <3>3, Sizes
      <4>3. /\ RunsInv(inserted \cup {r}, pageNumber + (r.count * Size(r.level)))
            /\ InsertedPages(inserted \cup {r}) = InsertedPages(inserted) \cup RunPages(r)
        BY <1>2, <3>3, <4>1, <4>2, AddRun
      <4>4. QED BY <3>3, <4>2, <4>3 DEF A
    <3>5. PartPages(cmem2') = PartPages(rp)
      <4>1. rp.pages = 0 => PartPages(rp) = {}
        BY <3>2 DEF PartPages, Pages, Part
      <4>2. CASE rp.pages = 0
        BY <3>1, <4>1, <4>2, NoRuns
      <4>3. CASE rp.pages # 0
        BY <3>1, <4>3
      <4>4. QED BY <4>2, <4>3
    <3>6. ThreeParts(Reached(cursor'), InsertedPages(inserted'), PartPages(cmem'), PartPages(cmem2'))
      <4>1. ThreeParts(Reached(s + 1), A \cup B, PartPages(lp), PartPages(rp))
        BY <2>5, <3>2 DEF ThreeParts
      <4>2. cursor' = s + 1 /\ InsertedPages(inserted') = A \cup B /\ cmem' = lp
        BY <2>3, <3>1, <3>4
      <4>3. QED BY <3>5, <4>1, <4>2
    <3>7. InsertedPages(inserted') \subseteq Reported("EfiConventionalMemory") \ HandedOut
      <4>1. A \cup B \subseteq F
        BY <1>2, <2>4, <3>2
      <4>2. QED BY <3>1, <3>4, <4>1 DEF F
    <3>8. RunsInv(inserted', pageNumber')
      BY <3>1, <3>4
    <3>9. /\ cmem' \in Part /\ cmem2' \in Part
          /\ cmem2' # None => cmem2'.pages # 0
      BY <3>1, <3>2, NoRuns
    <3>10. (cmem'.address + cmem'.pages) % Large = 0
      BY <3>1, <3>2, Sizes, MultipleOfMultiple
    <3>11. QED BY <2>6, <3>1, <3>6, <3>7, <3>8, <3>9, <3>10, WalkStep
  <2>10. QED BY <2>7, <2>8, <2>9
<1>8. QED BY <1>6, <1>7

\* Cutting a part inserts its large pages and the single pages before them; the part
\* behind them, or the one that was waiting, is all that is left.
LEMMA PartKeeps == HandOverInv /\ CutPart => HandOverInv'
<1> SUFFICES ASSUME HandOverInv, CutPart PROVE HandOverInv'
  OBVIOUS
<1> DEFINE A == InsertedPages(inserted)
           F == Reported("EfiConventionalMemory") \ HandedOut
           W == Reached(cursor)
           fits == Fits(cmem, Large)
           k == Whole(cmem, Large) * Large
           r == Run(1, Start(cmem, Large), Whole(cmem, Large))
           lp == LeftOf(cmem, Large)
           rp == RightOf(cmem, Large)
           larges == IF fits THEN {r} ELSE {}
           past == pageNumber + IF fits THEN k ELSE 0
           small == IF fits THEN lp ELSE cmem
           pending == IF fits THEN Pending(cmem, Large) ELSE cmem2
           q == [Run(0, small.address, small.pages) EXCEPT !.header = past]
           singles == IF small.pages = 0 THEN {} ELSE {q}
<1>1. /\ phase = "cut" /\ phase \in Handing /\ cursor \in Nat /\ cmem \in Part /\ cmem2 \in Part
      /\ UNCHANGED <<firmware, entry, map, tables, vmmBuffer, counts, cursor>>
      /\ cmem2 # None => (cmem.address + cmem.pages) % Large = 0
  BY DEF HandOverInv, PartsInv, CutPart, Handing
<1>2. RunsInv(inserted, pageNumber) /\ pageNumber \in Nat /\ A \subseteq F
      /\ ThreeParts(W, A, PartPages(cmem), PartPages(cmem2))
  <2>1. Walked = W
    BY DEF Walked, Reached
  <2> HIDE DEF W
  <2>2. QED BY <1>1, <2>1 DEF HandOverInv, WalkInv, RunsInv, ThreeParts
<1>3. /\ inserted' = inserted \cup larges \cup singles
      /\ pageNumber' = past + small.pages
      /\ cmem' = pending /\ cmem2' = None
      /\ phase' = IF pending = None THEN "walk" ELSE "cut"
  BY DEF CutPart
<1>4. phase' \in {"walk", "cut"} /\ UNCHANGED <<firmware, entry, map, tables, vmmBuffer, counts>>
  BY <1>1, <1>3
<1>5. BootInv /\ BootInv'
  BY <1>4, PhaseKeeps DEF HandOverInv
<1>6. W \subseteq F
  BY <1>5, FreeDescribed DEF Reached
<1> HIDE DEF A, F, W
<1>7. /\ RunsInv(inserted \cup larges, past) /\ past \in Nat
      /\ small \in Part /\ pending \in Part
      /\ ThreeParts(W, InsertedPages(inserted \cup larges), PartPages(small), PartPages(pending))
  <2>1. CASE ~fits
    <3>1. larges = {} /\ past = pageNumber /\ small = cmem /\ pending = cmem2
      BY <1>2, <2>1
    <3> HIDE DEF larges, past, small, pending
    <3>2. inserted \cup larges = inserted
      BY <3>1
    <3>3. QED BY <1>1, <1>2, <3>1, <3>2 DEF A
  <2>2. CASE fits
    <3> DEFINE B == Pages(Start(cmem, Large), k)
    <3>1. /\ lp \in Part /\ rp \in Part
          /\ Start(cmem, Large) \in Nat /\ Whole(cmem, Large) \in Nat
          /\ Start(cmem, Large) % Large = 0
          /\ PartPages(cmem) = PartPages(lp) \cup PartPages(rp) \cup B
          /\ PartPages(lp) \cap PartPages(rp) = {}
          /\ B \cap (PartPages(lp) \cup PartPages(rp)) = {}
          /\ (cmem.address + cmem.pages) % Large = 0 => rp.pages = 0
      BY <1>1, <2>2, Sizes, CutInThree
    <3>2. /\ r \in [level : 0 .. 2, start : Nat, count : Nat, header : Nat]
          /\ r.header = pageNumber /\ r.start = Start(cmem, Large)
          /\ r.count = Whole(cmem, Large) /\ r.level = 1 /\ RunPages(r) = B
      BY <1>2, <3>1, Sizes DEF Run, RunPages
    <3>3. larges = {r} /\ past = pageNumber + k /\ small = lp
          /\ pending = IF rp.pages # 0 THEN rp ELSE cmem2
      BY <2>2 DEF Pending
    <3>4. k \in Nat
      BY <3>1, Sizes
    <3> HIDE DEF larges, past, small, pending, lp, rp, B, fits
    <3>5. r.start % Size(r.level) = 0 /\ Size(r.level) = Large
      BY <3>1, <3>2, Sizes
    <3> HIDE DEF r
    <3>6. A \cap B = {}
      BY <1>2, <3>1 DEF ThreeParts
    <3>7. RunsInv(inserted \cup {r}, pageNumber + k) /\ InsertedPages(inserted \cup {r}) = A \cup B
      <4>1. RunPages(r) \cap InsertedPages(inserted) = {}
        BY <3>2, <3>6 DEF A
      <4>2. /\ RunsInv(inserted \cup {r}, pageNumber + (r.count * Size(r.level)))
            /\ InsertedPages(inserted \cup {r}) = InsertedPages(inserted) \cup RunPages(r)
        BY <1>2, <3>2, <3>5, <4>1, AddRun
      <4>3. QED BY <3>2, <3>5, <4>2 DEF A
    <3>8. pending \in Part /\ PartPages(pending) = PartPages(rp) \cup PartPages(cmem2)
      <4>1. CASE rp.pages # 0
        <5>1. cmem2 = None /\ pending = rp
          BY <1>1, <3>1, <3>3, <4>1
        <5>2. QED BY <3>1, <5>1, NoRuns
      <4>2. CASE rp.pages = 0
        <5>1. PartPages(rp) = {}
          BY <3>1, <4>2 DEF PartPages, Pages, Part
        <5>2. QED BY <1>1, <3>3, <4>2, <5>1
      <4>3. QED BY <4>1, <4>2
    <3>9. ThreeParts(W, A \cup B, PartPages(small), PartPages(pending))
      BY <1>2, <3>1, <3>3, <3>8 DEF ThreeParts
    <3>10. RunsInv(inserted \cup larges, past) /\ InsertedPages(inserted \cup larges) = A \cup B
      BY <3>3, <3>7
    <3>11. past \in Nat /\ small \in Part
      <4> HIDE DEF k
      <4>1. QED BY <1>2, <3>1, <3>3, <3>4
    <3>12. QED BY <3>8, <3>9, <3>10, <3>11
  <2>3. QED BY <2>1, <2>2
<1> DEFINE runs == inserted \cup larges
<1> HIDE DEF larges, past, small, pending
<1>8. /\ RunsInv(inserted', pageNumber')
      /\ InsertedPages(inserted') = InsertedPages(runs) \cup PartPages(small)
  <2>0. small.address \in Nat /\ small.pages \in Nat
    BY <1>7 DEF Part
  <2>1. CASE small.pages = 0
    <3>1. inserted' = runs /\ pageNumber' = past
      BY <1>3, <1>7, <2>1
    <3>2. PartPages(small) = {}
      BY <2>0, <2>1 DEF PartPages, Pages
    <3> HIDE DEF runs
    <3>3. QED BY <1>7, <3>1, <3>2 DEF runs
  <2>2. CASE small.pages # 0
    <3>1. inserted' = runs \cup {q} /\ pageNumber' = past + small.pages
      BY <1>3, <2>2
    <3>2. q = [level |-> 0, start |-> small.address, count |-> small.pages, header |-> past]
      BY DEF Run
    <3> HIDE DEF q, runs
    <3>3. /\ q \in [level : 0 .. 2, start : Nat, count : Nat, header : Nat]
          /\ q.header = past /\ q.count = small.pages /\ q.start % 1 = 0
          /\ q.level = 0 /\ q.start = small.address
      BY <1>7, <2>0, <3>2
    <3>4. Size(q.level) = 1 /\ q.count * Size(q.level) = small.pages
      BY <2>0, <3>3, Sizes
    <3>5. RunPages(q) = PartPages(small)
      BY <3>3, <3>4 DEF RunPages, PartPages
    <3>6. RunPages(q) \cap InsertedPages(runs) = {}
      BY <1>7, <3>5 DEF ThreeParts, runs
    <3>7. RunsInv(runs, past)
      BY <1>7 DEF runs
    <3>8. /\ RunsInv(runs \cup {q}, past + (q.count * Size(q.level)))
          /\ InsertedPages(runs \cup {q}) = InsertedPages(runs) \cup RunPages(q)
      BY <3>3, <3>4, <3>6, <3>7, AddRun
    <3>9. QED BY <3>1, <3>4, <3>5, <3>8
  <2>3. QED BY <2>1, <2>2
<1>9. ThreeParts(W, InsertedPages(inserted'), PartPages(pending), {})
  BY <1>7, <1>8 DEF ThreeParts, runs
<1>10. InsertedPages(inserted') \subseteq Reported("EfiConventionalMemory") \ HandedOut
  BY <1>6, <1>9 DEF ThreeParts, F
<1>11. cursor' = cursor /\ Reached(cursor') = W
  BY <1>1 DEF W
<1>12. phase' = "walk" => InsertedPages(inserted') = Reached(cursor')
  <2>1. phase' = "walk" => pending = None
    BY <1>3
  <2>2. QED BY <1>9, <1>11, <2>1, NoRuns DEF ThreeParts
<1>13. ThreeParts(Reached(cursor'), InsertedPages(inserted'), PartPages(cmem'), PartPages(cmem2'))
  BY <1>3, <1>9, <1>11, NoRuns
<1>14. /\ cursor' \in Nat /\ cmem' \in Part /\ cmem2' = None /\ cmem2' \in Part
       /\ phase' # "ready"
  BY <1>1, <1>3, <1>4, <1>7, NoRuns
<1>15. QED BY <1>1, <1>4, <1>5, <1>8, <1>10, <1>12, <1>13, <1>14, WalkStep

LEMMA NextHandOver == HandOverInv /\ [Next]_vars => HandOverInv'
<1> SUFFICES ASSUME HandOverInv, [Next]_vars PROVE HandOverInv'
  OBVIOUS
<1>0. BootInv /\ BootInv'
  BY NextMemory DEF HandOverInv
<1>1. CASE CopyEntry
  <2>1. UNCHANGED <<walk, counts>> /\ phase \in Loading /\ phase' \in Loading \cup {"halted"}
    BY <1>1 DEF CopyEntry, Loading
  <2>2. QED BY <1>0, <2>1, NothingYet
<1>2. CASE MapCopied
  <2>1. UNCHANGED <<walk, counts>> /\ phase \in Loading /\ phase' \in Loading \cup {"halted"}
    BY <1>2 DEF MapCopied, Loading
  <2>2. QED BY <1>0, <2>1, NothingYet
<1>3. CASE BlAllocateOnePage
  <2>1. UNCHANGED <<walk, counts>> /\ phase \in Loading /\ phase' \in Loading \cup {"halted"}
    BY <1>3 DEF BlAllocateOnePage, Loading
  <2>2. QED BY <1>0, <2>1, NothingYet
<1>4. CASE NosEntryPoint
  <2>1. UNCHANGED <<walk, counts>> /\ phase \in Loading /\ phase' \in Loading \cup {"halted"}
    BY <1>4 DEF NosEntryPoint, Loading
  <2>2. QED BY <1>0, <2>1, NothingYet
<1>5. CASE KiPhysicalMemoryManagerInit
  BY <1>5, CountsKept
<1>6. CASE NextDescriptor
  BY <1>6, DescriptorKeeps
<1>7. CASE CutPart
  BY <1>7, PartKeeps
<1>8. CASE UNCHANGED vars
  <2>1. /\ HandedOut' = HandedOut /\ Usable' = Usable
        /\ Reported("EfiConventionalMemory")' = Reported("EfiConventionalMemory")
        /\ Reported("EfiLoaderData")' = Reported("EfiLoaderData")
        /\ FreeSlots(map)' = FreeSlots(map) /\ \A s : Described(s)' = Described(s)
    BY <1>8 DEF vars, HandedOut, Usable, Reported, FreeSlots, Described, Desc
  <2>2. /\ inserted' = inserted /\ pageNumber' = pageNumber /\ cursor' = cursor
        /\ cmem' = cmem /\ cmem2' = cmem2 /\ phase' = phase
        /\ allocatedPages' = allocatedPages /\ totalPages' = totalPages
    BY <1>8 DEF vars, walk, counts
  <2>3. Walked' = Walked
    BY <2>1, <2>2 DEF Walked
  <2>4. RunsInv(inserted, pageNumber)'
    BY <2>2 DEF HandOverInv, RunsInv, InsertedPages, RunPages, Headers, Size, Pages
  <2>5. PartsInv'
    BY <2>2 DEF HandOverInv, PartsInv
  <2>6. /\ InsertedPages(inserted)' = InsertedPages(inserted)
        /\ PartPages(cmem)' = PartPages(cmem) /\ PartPages(cmem2)' = PartPages(cmem2)
    BY <2>2 DEF InsertedPages, PartPages
  <2>7. WalkInv'
    BY <2>1, <2>2, <2>3, <2>6 DEF HandOverInv, WalkInv
  <2>8. CountInv'
    BY <2>1, <2>2 DEF HandOverInv, CountInv
  <2>9. QED BY <1>0, <2>4, <2>5, <2>7, <2>8 DEF HandOverInv
<1>9. QED BY <1>1, <1>2, <1>3, <1>4, <1>5, <1>6, <1>7, <1>8 DEF Next

\* Throughout the boot, for every firmware map and every size of page: what was inserted
\* and the two parts being cut are the memory the walk has reached, each page once; and
\* when a part waits behind the one being cut, nothing can be left that would take its
\* place (meminit.c:113-225).
THEOREM HandOverInvariant == Spec => []HandOverInv
<1>1. Init => HandOverInv
  BY InitHandOver
<1>2. HandOverInv /\ [Next]_vars => HandOverInv'
  BY NextHandOver
<1>3. QED BY <1>1, <1>2, PTL DEF Spec

-----------------------------------------------------------------------------
(* What it implies.                                                          *)

LEMMA TypesHeld == HandOverInv => TypeOK
<1> SUFFICES ASSUME HandOverInv PROVE TypeOK
  OBVIOUS
<1>1. PhaseInv
  BY DEF HandOverInv, BootInv
<1>2. /\ firmware \in FirmwareMaps /\ entry \in 1 .. Len(firmware) + 1
      /\ tables \in Seq(Nat) /\ vmmBuffer \subseteq Nat
      /\ phase \in {"map", "tables", "kernel", "walk", "cut", "ready", "halted"}
  BY <1>1 DEF PhaseInv, Loading
<1>3. /\ map.present \subseteq Slots /\ map.created \subseteq Slots
      /\ map.full \subseteq Groups /\ DOMAIN map.desc \subseteq Slots
      /\ \A s \in DOMAIN map.desc : map.desc[s] \in [address : Nat, pages : Nat, allocated : BOOLEAN]
  BY <1>1 DEF PhaseInv, MapTypes, Region
<1>4. allocatedPages \in Nat /\ totalPages \in Nat
  BY DEF HandOverInv, CountInv
<1>5. cursor \in Nat /\ {cmem, cmem2} \subseteq [address : Nat, pages : Nat]
  BY DEF HandOverInv, PartsInv, Part
<1>6. /\ pageNumber \in Nat
      /\ inserted \subseteq [level : 0 .. 2, start : Nat, count : Nat, header : Nat]
  BY DEF HandOverInv, RunsInv
<1>7. QED BY <1>2, <1>3, <1>4, <1>5, <1>6 DEF TypeOK

LEMMA CountsHeld == HandOverInv => CountsMatch
<1> SUFFICES ASSUME HandOverInv, phase \in {"walk", "cut", "ready"}
             PROVE  /\ totalPages = Cardinality(Usable)
                    /\ allocatedPages = Cardinality(UNION {Described(s) : s \in UsedSlots(map)})
  BY DEF CountsMatch
<1>1. /\ totalPages = Cardinality(Usable)
      /\ allocatedPages = Cardinality(Reported("EfiLoaderData") \cup HandedOut)
  BY DEF HandOverInv, CountInv, Handing
<1>2. HandedOut \cup Reported("EfiLoaderData") = UNION {Described(s) : s \in UsedSlots(map)}
  BY HandedOutMemory DEF HandOverInv, HandedOutStaysAllocated
<1>3. Reported("EfiLoaderData") \cup HandedOut = HandedOut \cup Reported("EfiLoaderData")
  OBVIOUS
<1>4. QED BY <1>1, <1>2, <1>3, Zenon

LEMMA RunsHeld == HandOverInv => InsertedOnce
<1> SUFFICES ASSUME HandOverInv PROVE InsertedOnce
  OBVIOUS
<1> DEFINE A == InsertedPages(inserted)
           F == Reported("EfiConventionalMemory") \ HandedOut
           U == Reported("EfiLoaderData") \cup HandedOut
<1>1. /\ \A r \in inserted : r.start % Size(r.level) = 0 /\ Headers(r) \subseteq 0 .. pageNumber - 1
      /\ \A r, q \in inserted : r # q => /\ RunPages(r) \cap RunPages(q) = {}
                                        /\ Headers(r) \cap Headers(q) = {}
      /\ pageNumber \in Nat /\ Cardinality(A) = pageNumber
  BY DEF HandOverInv, RunsInv
<1>2. A \subseteq F /\ BootInv
  BY DEF HandOverInv, WalkInv
<1>3. F = UNION {Piece(map, s, FALSE) : s \in Slots} /\ IsFiniteSet(Usable) /\ A \subseteq Usable
  <2>1. Usable = F \cup U
    BY <1>2 DEF BootInv, TakenInv, Usable
  <2> HIDE DEF A, F, U
  <2>2. MapTypes(map) /\ Holds(map, F, U)
    BY <1>2 DEF BootInv, PhaseInv, MemoryInv, F, U
  <2>3. IsFiniteSet(F) /\ IsFiniteSet(U)
    BY <2>2, PagesAreCounted, Zenon
  <2>4. IsFiniteSet(F \cup U)
    BY <2>3, FS_Union
  <2>5. QED BY <1>2, <2>1, <2>2, <2>4 DEF Holds
<1>4. inserted # {} => pageNumber <= totalPages /\ totalPages \in Nat
  <2>1. inserted # {} => totalPages = Cardinality(Usable) /\ totalPages \in Nat
    BY DEF HandOverInv, CountInv
  <2> HIDE DEF A, F
  <2>2. Cardinality(A) <= Cardinality(Usable)
    BY <1>3, FS_Subset
  <2>3. QED BY <1>1, <2>1, <2>2
<1>5. \A r \in inserted : Headers(r) \subseteq 0 .. totalPages - 1
  <2>1. ASSUME NEW r \in inserted, NEW x \in Headers(r) PROVE x \in 0 .. totalPages - 1
    <3>1. x \in 0 .. pageNumber - 1
      BY <1>1, <2>1
    <3>2. QED BY <1>1, <1>4, <3>1
  <2>2. QED BY <2>1
<1>6. ASSUME phase = "ready" PROVE A = F
  <2>1. A = Walked /\ \A s \in FreeSlots(map) : s < cursor
    BY <1>6 DEF HandOverInv, WalkInv
  <2> HIDE DEF A, F
  <2>2. ASSUME NEW x \in F PROVE x \in Walked
    <3>1. PICK s \in Slots : x \in Piece(map, s, FALSE)
      BY <1>3, <2>2, Zenon
    <3>2. s \in FreeSlots(map) /\ x \in Described(s)
      BY <3>1 DEF Piece, FreeSlots, Described
    <3>3. QED BY <2>1, <3>2 DEF Walked
  <2>3. QED BY <1>2, <2>1, <2>2
<1>7. phase = "ready" =>
        UNION {RunPages(r) : r \in inserted} = Reported("EfiConventionalMemory") \ HandedOut
  BY <1>6 DEF InsertedPages
<1>8. QED BY <1>1, <1>5, <1>7 DEF InsertedOnce

\* The types hold in every state of the boot: no slot outside the table is written, and no
\* count of pages, header number or part being cut leaves its range.
THEOREM TypesAreKept == Spec => []TypeOK
<1>1. HandOverInv => TypeOK
  BY TypesHeld
<1>2. QED BY <1>1, HandOverInvariant, PTL

\* The page allocator is given every page that nobody took, exactly once, in aligned
\* runs whose page headers are distinct and below the count, for every firmware map,
\* although two parts of one region are cut with one spare copy (meminit.c:113-225).
THEOREM PagesInsertedOnce == Spec => []InsertedOnce
<1>1. HandOverInv => InsertedOnce
  BY RunsHeld
<1>2. QED BY <1>1, HandOverInvariant, PTL

\* The totals the kernel makes by adding up descriptors are the number of usable pages
\* and of pages in use, the allocator's own buffer included (meminit.c:35-67).
THEOREM CountsAreRight == Spec => []CountsMatch
<1>1. HandOverInv => CountsMatch
  BY CountsHeld
<1>2. QED BY <1>1, HandOverInvariant, PTL
===============================================================================
