------------------------------- MODULE MCPaging -------------------------------
(* Instances of Paging for TLC: tables of eight entries, 4096 pages.          *)
EXTENDS Paging

CONSTANTS t1, t2, t3

Map(virt, phys, pages) == [op |-> "KeMapVirtualMemory", virt |-> virt,
                           phys |-> phys, pages |-> pages, big |-> FALSE]
MapBig(virt, phys, pages) == [Map(virt, phys, pages) EXCEPT !.big = TRUE]
Share(from, pages) == [op |-> "MmShareMemory", from |-> from,
                       pages |-> pages, big |-> FALSE]
ShareBig(from, pages) == [Share(from, pages) EXCEPT !.big = TRUE]

\* Drivers map their registers: over three page tables and two directories,
\* from and up to the end of one, over each other and beyond a Pdp entry; big
\* pages, aligned and not; and they share what they mapped, at addresses that
\* are searched for beyond those of the devices: small pages, big ones, one from
\* a page that is not aligned to it, and none, for which nothing is found.
DriverProgram ==
    [t \in Threads |->
        CASE t = t1 -> <<Map(61, 1061, 12), Map(70, 2070, 2), Share(61, 9)>>
          [] t = t2 -> <<MapBig(83, 1083, 1), MapBig(88, 1088, 2), ShareBig(88, 1), Share(88, 0)>>
          [] t = t3 -> <<Map(511, 1511, 2), ShareBig(511, 1)>>]

\* The pages of the requests, their neighbours and where the searches look.
AllPages == 59 .. 74 \cup 86 .. 90 \cup 103 .. 105 \cup 188 .. 210 \cup 510 .. 513
===============================================================================
