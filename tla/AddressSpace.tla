----------------------------- MODULE AddressSpace -----------------------------
(* What the calls that map memory promise of an address space, whatever its   *)
(* page tables look like: callers are served one at a time, a call changes    *)
(* what its own pages lead to and nothing else, and when it returns each of   *)
(* them leads where it was asked to lead.                                     *)
EXTENDS Naturals

CONSTANTS Threads,     \* the callers
          Watched,     \* the virtual pages looked at
          Unmapped,    \* what a page leads to that is not mapped
          Nobody       \* no request

VARIABLES space,       \* space[v]: the physical page the page v leads to
          asked        \* asked[t]: the request thread t is served for, or Nobody

vars == <<space, asked>>

\* The pages of a request: size pages from virt on, to those from phys on.
Pages(r) == Watched \cap (r.virt .. r.virt + r.size - 1)
Wanted(r, v) == r.phys + (v - r.virt)

Init == /\ space = [v \in Watched |-> Unmapped]
        /\ asked = [t \in Threads |-> Nobody]

\* t is served: nobody else is.
Begin(t) == /\ \A u \in Threads : asked[u] = Nobody
            /\ asked'[t] # Nobody
            /\ \A u \in Threads \ {t} : asked'[u] = Nobody
            /\ UNCHANGED space

\* The pages of the request change, one or several at a time.
Change(t) == /\ asked[t] # Nobody
             /\ \A v \in Watched \ Pages(asked[t]) : space'[v] = space[v]
             /\ UNCHANGED asked

\* All of them are as asked for.
End(t) == /\ asked[t] # Nobody
          /\ \A v \in Pages(asked[t]) : space[v] = Wanted(asked[t], v)
          /\ asked' = [asked EXCEPT ![t] = Nobody]
          /\ UNCHANGED space

Next == \E t \in Threads : Begin(t) \/ Change(t) \/ End(t)

Spec == Init /\ [][Next]_vars
===============================================================================
