-------------------------- MODULE MCPhysicalMemory --------------------------
(* Instances of PhysicalMemory for TLC: memory of LastPage pages, cut into up *)
(* to MaxEntries entries of any kind.                                         *)
EXTENDS PhysicalMemory, SequencesExt

CONSTANTS LastPage, MaxEntries

Types == {"EfiConventionalMemory", "EfiLoaderData", "Reserved"}

\* The entries that lie between consecutive cuts.
Layout(cuts, kinds) ==
  LET bounds == SetToSortSeq(cuts \cup {0, LastPage}, <)
  IN  [i \in 1 .. Len(bounds) - 1 |->
         [start |-> bounds[i], pages |-> bounds[i + 1] - bounds[i], type |-> kinds[i]]]

AnyMap ==
  UNION {{Layout(cuts, kinds) : kinds \in [1 .. Cardinality(cuts) + 1 -> Types]} :
           cuts \in UNION {kSubset(k, 1 .. LastPage - 1) : k \in 0 .. MaxEntries - 1}}

\* The loader finds its page tables in the descriptors whose bits its int can
\* name, the first IntBits of the table.
RoomForTables ==
  {m \in AnyMap :
     MapThenSumSet(LAMBDA i : m[i].pages,
       {i \in DOMAIN m : i <= IntBits /\ m[i].type = "EfiConventionalMemory"}) > MaxTables}

\* The firmware lists its memory upwards or downwards.
Maps == RoomForTables \cup {Reverse(m) : m \in RoomForTables}
=============================================================================
