------------------------- MODULE ThreadQueueProofs --------------------------
(* Proofs about ThreadQueue for any set of threads: the doubly linked lists   *)
(* hold two sequences, followed forwards or backwards, whatever the order of  *)
(* linking and unlinking.                                                     *)
EXTENDS ThreadQueue, QueueLemmas, FiniteSetTheorems

Links == [Threads -> Threads \cup {Null}]
Ends == [Queues -> Threads \cup {Null}]
Memory == [top : Ends, bottom : Ends, next : Links, previous : Links,
           ready : [Threads -> BOOLEAN], fault : BOOLEAN]

\* The i-th entry of a list; in front of and behind it is Null.
At(s, i) == IF i \in DOMAIN s THEN s[i] ELSE Null

\* Both ends of the queue and both links of every entry are those of the list s.
Holds(m, q, s) ==
  /\ m.top[q] = At(s, 1) /\ m.bottom[q] = At(s, Len(s))
  /\ \A i \in DOMAIN s : m.next[s[i]] = At(s, i + 1) /\ m.previous[s[i]] = At(s, i - 1)

\* The queues are the lists L, which share no thread; a thread in neither has no
\* links, which linking it at a bottom relies on.
Kept(m, L) ==
  /\ m \in Memory /\ ~m.fault
  /\ L \in [Queues -> Seq(Threads)]
  /\ \A q \in Queues : IsInjective(L[q]) /\ Holds(m, q, L[q])
  /\ \A q, o \in Queues : q # o => ToSet(L[q]) \cap ToSet(L[o]) = {}
  /\ \A t \in Threads :
       (\A q \in Queues : t \notin ToSet(L[q])) => m.next[t] = Null /\ m.previous[t] = Null

\* The threads whose ready bit is set are those in the ready queue.
ReadyAreIn(m, L) == \A t \in Threads : m.ready[t] <=> t \in ToSet(L["ThreadQueue"])

\* The inductive invariant: the lists read from the tops are held.
FollowedLists == [q \in Queues |-> Forward(q)]
ListInv == Kept(memory, FollowedLists) /\ ReadyAreIn(memory, FollowedLists)
------------------------------------------------------------------------------
\* Links that lead from each entry of a list to the next are followed to its end
\* and no further.
LEMMA ChainIsList ==
  ASSUME NEW link \in Links, NEW s \in Seq(Threads),
         \A i \in DOMAIN s : link[s[i]] = At(s, i + 1)
  PROVE  \A n \in Nat \ {0} : Chain(link, At(s, 1))[n] = At(s, n)
<1> DEFINE first == At(s, 1)
           after == After(link)
           c == Chain(link, first)
           g == [n \in Nat |-> IF n = 0 THEN first ELSE At(s, n)]
<1>1. c = CHOOSE f : f = [n \in Nat |-> IF n <= 1 THEN first ELSE after[f[n - 1]]]
  BY DEF Chain
<1>2. ASSUME NEW n \in Nat, n > 1 PROVE after[At(s, n - 1)] = At(s, n)
  <2>1. DOMAIN s = 1 .. Len(s) /\ Len(s) \in Nat
    OBVIOUS
  <2>2. CASE n - 1 \in DOMAIN s
    <3>1. At(s, n - 1) = s[n - 1] /\ s[n - 1] \in Threads
      BY <2>2 DEF At
    <3>2. link[s[n - 1]] = At(s, (n - 1) + 1) /\ (n - 1) + 1 = n
      BY <2>2
    <3>3. QED BY <3>1, <3>2, ThreadQueueAssumption DEF After
  <2>3. CASE n - 1 \notin DOMAIN s
    <3>1. n \notin DOMAIN s
      BY <2>1, <2>3, <1>2
    <3>2. QED BY <2>3, <3>1 DEF At, After
  <2>4. QED BY <2>2, <2>3
<1>3. g = [n \in Nat |-> IF n <= 1 THEN first ELSE after[g[n - 1]]]
  <2>1. ASSUME NEW n \in Nat
        PROVE  (IF n = 0 THEN first ELSE At(s, n)) = IF n <= 1 THEN first ELSE after[g[n - 1]]
    <3>1. CASE n <= 1
      BY <3>1
    <3>2. CASE n > 1
      <4>1. n - 1 \in Nat /\ n - 1 # 0 /\ ~(n <= 1) /\ n # 0
        BY <3>2
      <4>2. g[n - 1] = At(s, n - 1)
        BY <4>1
      <4>3. QED BY <1>2, <3>2, <4>1, <4>2
    <3>3. QED BY <3>1, <3>2
  <2> HIDE DEF first, after
  <2>2. QED BY <2>1
<1> HIDE DEF c, g, after
<1>4. c = [n \in Nat |-> IF n <= 1 THEN first ELSE after[c[n - 1]]]
  BY <1>1, <1>3, Zenon
<1> DEFINE bad == {n \in Nat \ {0} : c[n] # At(s, n)}
<1>5. ASSUME bad # {} PROVE FALSE
  <2>1. PICK n \in bad : \A k \in bad : n <= k
    <3>1. bad \in SUBSET Nat
      OBVIOUS
    <3>2. QED BY <3>1, <1>5, Least
  <2>2. n \in Nat /\ n # 0 /\ c[n] # At(s, n)
    OBVIOUS
  <2>3. n # 1
    BY <1>4, <2>2
  <2>4. n - 1 \in Nat \ {0} /\ n > 1 /\ ~(n <= 1) /\ ~(n <= n - 1)
    BY <2>2, <2>3
  <2>5. c[n - 1] = At(s, n - 1)
    BY <2>1, <2>4
  <2>6. c[n] = after[c[n - 1]]
    BY <1>4, <2>2, <2>4
  <2>7. QED BY <1>2, <2>2, <2>4, <2>5, <2>6 DEF after
<1>6. QED BY <1>5 DEF c

\* A list without duplicates is not longer than there are threads.
LEMMA ListFits ==
  ASSUME NEW s \in Seq(Threads), IsInjective(s)
  PROVE  Len(s) <= Cardinality(Threads)
<1>1. DOMAIN s = 1 .. Len(s) /\ Len(s) \in Nat /\ s \in [1 .. Len(s) -> Threads]
  OBVIOUS
<1>2. s \in Injection(1 .. Len(s), Threads)
  BY <1>1 DEF Injection, IsInjective
<1>3. Cardinality(1 .. Len(s)) <= Cardinality(Threads)
  BY <1>2, ThreadQueueAssumption, FS_Injection
<1>4. Cardinality(1 .. Len(s)) = Len(s)
  BY SMTT(30), <1>1, FS_Interval
<1>5. QED BY <1>3, <1>4

\* Following the links of a list gives the list.
LEMMA FollowIsList ==
  ASSUME NEW link \in Links, NEW s \in Seq(Threads), IsInjective(s),
         \A i \in DOMAIN s : link[s[i]] = At(s, i + 1)
  PROVE  Follow(link, At(s, 1)) = s
<1>0. DOMAIN s = 1 .. Len(s) /\ Len(s) \in Nat
  OBVIOUS
<1> DEFINE first == At(s, 1)
           chain == Chain(link, first)
           entries == {n \in 1 .. Cardinality(Threads) + 1 : chain[n] # Null}
<1>1. CASE s = <<>>
  BY <1>1 DEF At, Follow
<1>2. CASE s # <<>>
  <2>1. first # Null
    <3>1. 1 \in DOMAIN s /\ s[1] \in Threads
      BY <1>0, <1>2
    <3>2. QED BY <3>1, ThreadQueueAssumption DEF At
  <2>2. \A n \in Nat \ {0} : chain[n] = At(s, n)
    BY ChainIsList
  <2>3. Cardinality(Threads) \in Nat /\ Len(s) <= Cardinality(Threads)
    BY ListFits, FS_CardinalityType, ThreadQueueAssumption
  <2> HIDE DEF chain
  <2>4. entries = 1 .. Len(s)
    <3>1. ASSUME NEW n \in 1 .. Cardinality(Threads) + 1
          PROVE  chain[n] # Null <=> n \in DOMAIN s
      <4>1. chain[n] = At(s, n)
        BY <2>2, <2>3
      <4>2. n \in DOMAIN s => s[n] \in Threads
        OBVIOUS
      <4>3. QED BY <4>1, <4>2, ThreadQueueAssumption DEF At
    <3>2. QED BY <1>0, <2>3, <3>1
  <2> HIDE DEF entries
  <2>5. Cardinality(entries) = Len(s)
    <3>1. Cardinality(1 .. Len(s)) = IF 1 > Len(s) THEN 0 ELSE Len(s) - 1 + 1
      BY <1>0, FS_Interval
    <3>2. QED BY <1>0, <2>4, <3>1
  <2>6. Follow(link, first) = [n \in 1 .. Cardinality(entries) |-> chain[n]]
    BY <2>1 DEF Follow, chain, entries
  <2>7. \A n \in 1 .. Len(s) : chain[n] = s[n]
    BY <1>0, <2>2 DEF At
  <2>8. Follow(link, first) = [n \in 1 .. Len(s) |-> s[n]]
    BY <2>5, <2>6, <2>7
  <2>9. s = [n \in DOMAIN s |-> s[n]]
    OBVIOUS
  <2>10. QED BY <1>0, <2>8, <2>9
<1>3. QED BY <1>1, <1>2

\* A list read from its bottom through Previous is the list in reverse.
LEMMA ListsAreFollowed ==
  ASSUME NEW m, NEW L, Kept(m, L), NEW q \in Queues
  PROVE  /\ Follow(m.next, m.top[q]) = L[q]
         /\ Follow(m.previous, m.bottom[q]) = Reverse(L[q])
<1> DEFINE s == L[q]
           r == Reverse(s)
<1>0. /\ s \in Seq(Threads) /\ IsInjective(s) /\ Holds(m, q, s)
      /\ m.next \in Links /\ m.previous \in Links
  BY DEF Kept, Memory
<1> HIDE DEF s
<1>1. Follow(m.next, m.top[q]) = s
  BY <1>0, FollowIsList DEF Holds
<1>2. DOMAIN s = 1 .. Len(s) /\ Len(s) \in Nat
  BY <1>0
<1>3. /\ r \in Seq(Threads) /\ DOMAIN r = DOMAIN s
      /\ \A i \in DOMAIN s : r[i] = s[Len(s) - i + 1]
  <2>1. \A i \in 1 .. Len(s) : Len(s) - i + 1 \in 1 .. Len(s)
    BY <1>2
  <2>2. r = [i \in 1 .. Len(s) |-> s[(Len(s) - i) + 1]]
    BY DEF Reverse
  <2>3. \A i \in 1 .. Len(s) : s[(Len(s) - i) + 1] \in Threads
    BY <1>0, <1>2, <2>1
  <2>4. QED BY <1>2, <2>2, <2>3
<1> HIDE DEF r
<1>4. IsInjective(r)
  <2> SUFFICES ASSUME NEW i \in DOMAIN r, NEW j \in DOMAIN r, r[i] = r[j]
               PROVE  i = j
    BY DEF IsInjective
  <2>1. Len(s) - i + 1 \in DOMAIN s /\ Len(s) - j + 1 \in DOMAIN s
    BY <1>2, <1>3
  <2>2. Len(s) - i + 1 = Len(s) - j + 1
    BY <1>0, <1>3, <2>1 DEF IsInjective
  <2>3. QED BY <1>2, <1>3, <2>2
<1>5. ASSUME NEW i \in DOMAIN r PROVE m.previous[r[i]] = At(r, i + 1)
  <2>1. r[i] = s[Len(s) - i + 1] /\ Len(s) - i + 1 \in DOMAIN s
    BY <1>2, <1>3
  <2>2. m.previous[r[i]] = At(s, Len(s) - i + 1 - 1)
    <3>1. \A k \in DOMAIN s : m.previous[s[k]] = At(s, k - 1)
      BY <1>0 DEF Holds
    <3>2. PICK k \in DOMAIN s : k = Len(s) - i + 1
      BY <2>1
    <3>3. m.previous[s[k]] = At(s, k - 1)
      BY <3>1
    <3>4. r[i] = s[k]
      BY <2>1, <3>2
    <3>5. QED BY <3>2, <3>3, <3>4
  <2>3. CASE i = Len(s)
    <3>1. i + 1 \notin DOMAIN r /\ Len(s) - i + 1 - 1 \notin DOMAIN s
      BY <1>2, <1>3, <2>3
    <3>2. QED BY <2>2, <3>1 DEF At
  <2>4. CASE i # Len(s)
    <3>1. /\ i + 1 \in DOMAIN r /\ Len(s) - i + 1 - 1 \in DOMAIN s
          /\ Len(s) - (i + 1) + 1 = Len(s) - i + 1 - 1
      BY <1>2, <1>3, <2>4
    <3>2. r[i + 1] = s[Len(s) - (i + 1) + 1]
      BY <1>3, <3>1
    <3>3. QED BY <2>2, <3>1, <3>2 DEF At
  <2>5. QED BY <2>3, <2>4
<1>6. At(r, 1) = At(s, Len(s))
  <2>1. CASE Len(s) = 0
    BY <1>2, <1>3, <2>1 DEF At
  <2>2. CASE Len(s) # 0
    <3>1. 1 \in DOMAIN r /\ Len(s) \in DOMAIN s /\ Len(s) - 1 + 1 = Len(s)
      BY <1>2, <1>3, <2>2
    <3>2. r[1] = s[Len(s)]
      BY <1>3, <3>1
    <3>3. QED BY <3>1, <3>2 DEF At
  <2>3. QED BY <2>1, <2>2
<1>7. Follow(m.previous, m.bottom[q]) = r
  BY <1>0, <1>3, <1>4, <1>5, <1>6, FollowIsList DEF Holds
<1>8. QED BY <1>1, <1>7 DEF s, r

\* What holds a list in one memory holds it in another that differs elsewhere.
LEMMA HoldsElsewhere ==
  ASSUME NEW m, NEW n, NEW q \in Queues, NEW s \in Seq(Threads), Holds(m, q, s),
         n.top[q] = m.top[q], n.bottom[q] = m.bottom[q],
         \A e \in ToSet(s) : n.next[e] = m.next[e] /\ n.previous[e] = m.previous[e]
  PROVE  Holds(n, q, s)
<1>1. \A i \in DOMAIN s : s[i] \in ToSet(s)
  BY DEF ToSet
<1>2. QED BY <1>1 DEF Holds

\* The stores of linking at the bottom, as one change of the memory.
LEMMA LinkStores ==
  ASSUME NEW m \in Memory, NEW q \in Queues, NEW t \in Threads,
         m.top[q] = Null <=> m.bottom[q] = Null
  PROVE  LET n == LinkBottom(m, q, t) IN
         /\ n \in Memory /\ n.fault = m.fault /\ n.ready = m.ready
         /\ \A o \in Queues :
              /\ n.top[o] = IF o = q /\ m.top[q] = Null THEN t ELSE m.top[o]
              /\ n.bottom[o] = IF o = q THEN t ELSE m.bottom[o]
         /\ \A e \in Threads :
              /\ n.next[e] = IF e = m.bottom[q] THEN t ELSE m.next[e]
              /\ n.previous[e] = IF e = t /\ m.top[q] # Null THEN m.bottom[q] ELSE m.previous[e]
<1> DEFINE n == LinkBottom(m, q, t)
<1>0. t # Null /\ m.top \in Ends /\ m.bottom \in Ends
  BY ThreadQueueAssumption DEF Memory
<1>1. CASE m.top[q] = Null
  <2>1. n = [m EXCEPT !.top[q] = t, !.bottom[q] = t]
    BY <1>1 DEF LinkBottom
  <2> HIDE DEF n
  <2>2. /\ n \in Memory /\ n.fault = m.fault /\ n.ready = m.ready
        /\ n.top = [m.top EXCEPT ![q] = t] /\ n.bottom = [m.bottom EXCEPT ![q] = t]
        /\ n.next = m.next /\ n.previous = m.previous
    BY <2>1 DEF Memory, Ends
  <2>3. QED BY <1>0, <1>1, <2>2, ThreadQueueAssumption DEF Ends, n
<1>2. CASE m.top[q] # Null
  <2>1. m.bottom[q] \in Threads /\ m.bottom[q] # Null
    BY <1>0, <1>2 DEF Ends
  <2>2. n = [[[m EXCEPT !.next[m.bottom[q]] = t] EXCEPT !.previous[t] = m.bottom[q]]
               EXCEPT !.bottom[q] = t]
    BY <1>0, <1>2, <2>1 DEF LinkBottom, StoreNext, StorePrevious
  <2> HIDE DEF n
  <2>3. /\ n \in Memory /\ n.fault = m.fault /\ n.ready = m.ready
        /\ n.top = m.top /\ n.bottom = [m.bottom EXCEPT ![q] = t]
        /\ n.next = [m.next EXCEPT ![m.bottom[q]] = t]
        /\ n.previous = [m.previous EXCEPT ![t] = m.bottom[q]]
    BY <2>1, <2>2 DEF Memory, Ends, Links
  <2>4. QED BY <1>0, <1>2, <2>3 DEF Memory, Ends, Links, n
<1>3. QED BY <1>1, <1>2

\* The stores of unlinking, in all four cases one change of the memory: the
\* neighbours of the entry become neighbours and the entry has none.
LEMMA UnlinkStores ==
  ASSUME NEW m \in Memory, NEW q \in Queues, NEW t \in Threads,
         m.next[t] # t, m.previous[t] # t,
         m.top[q] = t <=> m.previous[t] = Null,
         m.bottom[q] = t <=> m.next[t] = Null
  PROVE  LET n == ClearEntry(Unhook(m, q, t), t) IN
         /\ n \in Memory /\ n.fault = m.fault /\ n.ready = m.ready
         /\ \A o \in Queues :
              /\ n.top[o] = IF o = q /\ m.top[q] = t THEN m.next[t] ELSE m.top[o]
              /\ n.bottom[o] = IF o = q /\ m.bottom[q] = t THEN m.previous[t] ELSE m.bottom[o]
         /\ \A e \in Threads :
              /\ n.next[e] = IF e = t THEN Null
                             ELSE IF e = m.previous[t] THEN m.next[t] ELSE m.next[e]
              /\ n.previous[e] = IF e = t THEN Null
                                 ELSE IF e = m.next[t] THEN m.previous[t] ELSE m.previous[e]
<1> DEFINE n == ClearEntry(Unhook(m, q, t), t)
           x == m.next[t]
           p == m.previous[t]
<1>0. /\ t # Null /\ m.top \in Ends /\ m.bottom \in Ends
      /\ m.next \in Links /\ m.previous \in Links
      /\ x \in Threads \cup {Null} /\ p \in Threads \cup {Null} /\ Null \notin Threads
  BY ThreadQueueAssumption DEF Memory, Links
<1>1. CASE m.top[q] = t /\ m.bottom[q] = t
  <2>1. Unhook(m, q, t) = [m EXCEPT !.top[q] = Null, !.bottom[q] = Null]
    BY <1>1 DEF Unhook
  <2>2. n = [[m EXCEPT !.top[q] = Null, !.bottom[q] = Null]
               EXCEPT !.previous[t] = Null, !.next[t] = Null]
    BY <2>1 DEF ClearEntry
  <2> HIDE DEF n
  <2>3. /\ n \in Memory /\ n.fault = m.fault /\ n.ready = m.ready
        /\ n.top = [m.top EXCEPT ![q] = Null] /\ n.bottom = [m.bottom EXCEPT ![q] = Null]
        /\ n.next = [m.next EXCEPT ![t] = Null]
        /\ n.previous = [m.previous EXCEPT ![t] = Null]
    BY <2>2 DEF Memory, Ends, Links
  <2>4. QED BY <1>0, <1>1, <2>3 DEF Links, Ends, n
<1>2. CASE m.top[q] = t /\ m.bottom[q] # t
  <2>1. x \in Threads /\ x # t /\ p = Null
    BY <1>0, <1>2
  <2>2. Unhook(m, q, t) = [[m EXCEPT !.top[q] = x] EXCEPT !.previous[x] = Null]
    BY <1>0, <1>2, <2>1 DEF Unhook, StorePrevious
  <2>3. n = [[[m EXCEPT !.top[q] = x] EXCEPT !.previous[x] = Null]
               EXCEPT !.previous[t] = Null, !.next[t] = Null]
    BY <2>2 DEF ClearEntry
  <2> HIDE DEF n
  <2>4. /\ n \in Memory /\ n.fault = m.fault /\ n.ready = m.ready
        /\ n.top = [m.top EXCEPT ![q] = x] /\ n.bottom = m.bottom
        /\ n.next = [m.next EXCEPT ![t] = Null]
        /\ n.previous = [[m.previous EXCEPT ![x] = Null] EXCEPT ![t] = Null]
    BY <2>1, <2>3 DEF Memory, Ends, Links
  <2>5. QED BY <1>0, <1>2, <2>1, <2>4 DEF Links, Ends, n
<1>3. CASE m.top[q] # t /\ m.bottom[q] = t
  <2>1. p \in Threads /\ p # t /\ x = Null
    BY <1>0, <1>3
  <2>2. Unhook(m, q, t) = [[m EXCEPT !.bottom[q] = p] EXCEPT !.next[p] = Null]
    BY <1>0, <1>3, <2>1 DEF Unhook, StoreNext
  <2>3. n = [[[m EXCEPT !.bottom[q] = p] EXCEPT !.next[p] = Null]
               EXCEPT !.previous[t] = Null, !.next[t] = Null]
    BY <2>2 DEF ClearEntry
  <2> HIDE DEF n
  <2>4. /\ n \in Memory /\ n.fault = m.fault /\ n.ready = m.ready
        /\ n.top = m.top /\ n.bottom = [m.bottom EXCEPT ![q] = p]
        /\ n.next = [[m.next EXCEPT ![p] = Null] EXCEPT ![t] = Null]
        /\ n.previous = [m.previous EXCEPT ![t] = Null]
    BY <2>1, <2>3 DEF Memory, Ends, Links
  <2>5. QED BY <1>0, <1>3, <2>1, <2>4 DEF Links, Ends, n
<1>4. CASE m.top[q] # t /\ m.bottom[q] # t
  <2>1. p \in Threads /\ p # t /\ x \in Threads /\ x # t
    BY <1>0, <1>4
  <2>2. Unhook(m, q, t) = StorePrevious(StoreNext(m, p, x), x, p)
    BY <1>4 DEF Unhook
  <2>3. Unhook(m, q, t) = [[m EXCEPT !.next[p] = x] EXCEPT !.previous[x] = p]
    BY <1>0, <2>1, <2>2 DEF StoreNext, StorePrevious
  <2>4. n = [[[m EXCEPT !.next[p] = x] EXCEPT !.previous[x] = p]
               EXCEPT !.previous[t] = Null, !.next[t] = Null]
    BY <2>3 DEF ClearEntry
  <2> HIDE DEF n
  <2>5. /\ n \in Memory /\ n.fault = m.fault /\ n.ready = m.ready
        /\ n.top = m.top /\ n.bottom = m.bottom
        /\ n.next = [[m.next EXCEPT ![p] = x] EXCEPT ![t] = Null]
        /\ n.previous = [[m.previous EXCEPT ![x] = p] EXCEPT ![t] = Null]
    BY <2>1, <2>4 DEF Memory, Ends, Links
  <2>6. QED BY <1>0, <1>4, <2>1, <2>5 DEF Links, Ends, n
<1>5. QED BY <1>1, <1>2, <1>3, <1>4

\* What At is inside a list and outside of it.
LEMMA AtOfList ==
  ASSUME NEW s \in Seq(Threads), NEW i \in Int
  PROVE  /\ i \in 1 .. Len(s) => At(s, i) = s[i] /\ s[i] \in Threads /\ At(s, i) # Null
         /\ i \notin 1 .. Len(s) => At(s, i) = Null
BY ThreadQueueAssumption DEF At

\* A list with an entry put behind its last one is held after linking it.
LEMMA LinkHolds ==
  ASSUME NEW m \in Memory, NEW q \in Queues, NEW s \in Seq(Threads), IsInjective(s),
         Holds(m, q, s), NEW t \in Threads, t \notin ToSet(s),
         m.next[t] = Null, m.previous[t] = Null
  PROVE  LET n == LinkBottom(m, q, t) IN
         /\ Holds(n, q, Append(s, t))
         /\ n \in Memory /\ n.fault = m.fault /\ n.ready = m.ready
         /\ \A o \in Queues \ {q} : n.top[o] = m.top[o] /\ n.bottom[o] = m.bottom[o]
         /\ \A e \in Threads \ (ToSet(s) \cup {t}) :
              n.next[e] = m.next[e] /\ n.previous[e] = m.previous[e]
<1> DEFINE n == LinkBottom(m, q, t)
           a == Append(s, t)
<1>1. DOMAIN s = 1 .. Len(s) /\ Len(s) \in Nat
  OBVIOUS
<1>2. /\ a \in Seq(Threads) /\ Len(a) = Len(s) + 1 /\ a[Len(s) + 1] = t
      /\ \A i \in 1 .. Len(s) : a[i] = s[i]
  OBVIOUS
<1>3. \A i \in 1 .. Len(s) : s[i] \in ToSet(s) /\ s[i] # t
  BY <1>1 DEF ToSet
<1>4. /\ m.top \in Ends /\ m.bottom \in Ends /\ m.next \in Links /\ m.previous \in Links
      /\ t # Null
  BY ThreadQueueAssumption DEF Memory
<1>5. /\ Len(s) = 0 => m.top[q] = Null /\ m.bottom[q] = Null
      /\ Len(s) # 0 => /\ m.top[q] = s[1] /\ m.bottom[q] = s[Len(s)]
                       /\ m.top[q] # Null /\ m.bottom[q] # Null
  <2>1. m.top[q] = At(s, 1) /\ m.bottom[q] = At(s, Len(s))
    BY DEF Holds
  <2>2. CASE Len(s) = 0
    <3>1. 1 \notin 1 .. Len(s) /\ Len(s) \notin 1 .. Len(s)
      BY <2>2
    <3>2. At(s, 1) = Null /\ At(s, Len(s)) = Null
      BY <1>1, <3>1, AtOfList
    <3>3. QED BY <2>1, <2>2, <3>2
  <2>3. CASE Len(s) # 0
    <3>1. 1 \in 1 .. Len(s) /\ Len(s) \in 1 .. Len(s)
      BY <1>1, <2>3
    <3>2. QED BY <1>1, <2>1, <2>3, <3>1, AtOfList
  <2>4. QED BY <2>2, <2>3
<1>6. /\ n \in Memory /\ n.fault = m.fault /\ n.ready = m.ready
      /\ \A o \in Queues :
           /\ n.top[o] = IF o = q /\ m.top[q] = Null THEN t ELSE m.top[o]
           /\ n.bottom[o] = IF o = q THEN t ELSE m.bottom[o]
      /\ \A e \in Threads :
           /\ n.next[e] = IF e = m.bottom[q] THEN t ELSE m.next[e]
           /\ n.previous[e] = IF e = t /\ m.top[q] # Null THEN m.bottom[q] ELSE m.previous[e]
  <2>1. m.top[q] = Null <=> m.bottom[q] = Null
    BY <1>1, <1>5
  <2> HIDE DEF n
  <2>2. QED BY <2>1, LinkStores DEF n
<1> HIDE DEF n, a
<1>7. n.top[q] = At(a, 1) /\ n.bottom[q] = At(a, Len(a))
  <2>1. At(a, 1) = a[1] /\ At(a, Len(a)) = a[Len(a)]
    <3>1. 1 \in 1 .. Len(a) /\ Len(a) \in 1 .. Len(a)
      BY <1>1, <1>2
    <3>2. QED BY <1>2, <3>1, AtOfList
  <2>2. n.bottom[q] = t
    BY <1>6
  <2>3. n.top[q] = IF m.top[q] = Null THEN t ELSE m.top[q]
    BY <1>6
  <2>4. CASE Len(s) = 0
    BY <1>2, <1>5, <2>1, <2>2, <2>3, <2>4
  <2>5. CASE Len(s) # 0
    <3>1. a[1] = s[1]
      BY <1>1, <1>2, <2>5
    <3>2. QED BY <1>2, <1>5, <2>1, <2>2, <2>3, <2>5, <3>1
  <2>6. QED BY <2>4, <2>5
<1>8. /\ \A e \in Threads : n.next[e] = IF e = m.bottom[q] THEN t ELSE m.next[e]
      /\ \A e \in Threads : n.previous[e] = IF e = t THEN m.bottom[q] ELSE m.previous[e]
  <2>1. CASE m.top[q] = Null
    <3>1. m.bottom[q] = Null
      BY <1>5, <2>1
    <3>2. QED BY <1>6, <2>1, <3>1, ThreadQueueAssumption
  <2>2. CASE m.top[q] # Null
    BY <1>6, <2>2
  <2>3. QED BY <2>1, <2>2
<1>9. ASSUME NEW i \in 1 .. Len(s)
      PROVE  n.next[a[i]] = At(a, i + 1) /\ n.previous[a[i]] = At(a, i - 1)
  <2>1. a[i] = s[i] /\ s[i] # t /\ s[i] \in Threads
    BY <1>2, <1>3
  <2>2. m.next[s[i]] = At(s, i + 1) /\ m.previous[s[i]] = At(s, i - 1)
    BY <1>1 DEF Holds
  <2>3. n.previous[a[i]] = At(a, i - 1)
    <3>1. At(a, i - 1) = At(s, i - 1)
      <4>1. CASE i = 1
        <5>1. i - 1 \notin 1 .. Len(s) /\ i - 1 \notin 1 .. Len(a) /\ i - 1 \in Int
          BY <1>1, <1>2, <4>1
        <5>2. QED BY <1>2, <5>1, AtOfList
      <4>2. CASE i # 1
        <5>1. i - 1 \in 1 .. Len(s) /\ i - 1 \in 1 .. Len(a) /\ i - 1 \in Int
          BY <1>1, <1>2, <4>2
        <5>2. a[i - 1] = s[i - 1]
          BY <1>2, <5>1
        <5>3. QED BY <1>2, <5>1, <5>2, AtOfList
      <4>3. QED BY <4>1, <4>2
    <3>2. QED BY <1>8, <2>1, <2>2, <3>1
  <2>4. At(a, i + 1) = a[i + 1]
    <3>1. i + 1 \in 1 .. Len(a) /\ i + 1 \in Int
      BY <1>1, <1>2
    <3>2. QED BY <1>2, <3>1, AtOfList
  <2>5. CASE i = Len(s)
    <3>1. m.bottom[q] = s[i] /\ a[i + 1] = t
      BY <1>1, <1>2, <1>5, <2>5
    <3>2. QED BY <1>8, <2>1, <2>3, <2>4, <3>1
  <2>6. CASE i # Len(s)
    <3>1. i + 1 \in 1 .. Len(s) /\ Len(s) \in 1 .. Len(s) /\ Len(s) # 0
      <4>1. PICK k \in Nat : k = Len(s)
        BY <1>1
      <4>2. i \in 1 .. k /\ i # k
        BY <2>6, <4>1
      <4>3. i + 1 \in 1 .. k /\ k \in 1 .. k /\ k # 0
        BY <4>2
      <4>4. QED BY SMTT(30), <4>1, <4>3
    <3>2. s[i] # m.bottom[q]
      BY <1>1, <1>5, <2>6, <3>1 DEF IsInjective
    <3>3. At(s, i + 1) = s[i + 1] /\ a[i + 1] = s[i + 1]
      BY <1>2, <3>1, AtOfList
    <3>4. QED BY <1>8, <2>1, <2>2, <2>3, <2>4, <3>2, <3>3
  <2>7. QED BY <2>5, <2>6
<1>10. n.next[t] = At(a, Len(a) + 1) /\ n.previous[t] = At(a, Len(a) - 1)
  <2>1. At(a, Len(a) + 1) = Null
    <3>1. Len(a) + 1 \notin 1 .. Len(a) /\ Len(a) + 1 \in Int
      BY <1>1, <1>2
    <3>2. QED BY <1>2, <3>1, AtOfList
  <2>2. Len(a) - 1 = Len(s)
    BY <1>1, <1>2
  <2>3. CASE Len(s) = 0
    <3>1. Len(s) \notin 1 .. Len(a)
      BY <2>3
    <3>2. At(a, Len(a) - 1) = Null
      BY <1>1, <1>2, <2>2, <3>1, AtOfList
    <3>3. QED BY <1>5, <1>8, <1>4, <2>1, <2>3, <3>2
  <2>4. CASE Len(s) # 0
    <3>1. Len(s) \in 1 .. Len(a) /\ Len(s) \in 1 .. Len(s)
      BY <1>1, <1>2, <2>4
    <3>2. At(a, Len(a) - 1) = s[Len(s)]
      BY <1>1, <1>2, <2>2, <3>1, AtOfList
    <3>3. m.bottom[q] = s[Len(s)] /\ m.bottom[q] # t
      BY <1>3, <1>5, <2>4, <3>1
    <3>4. QED BY <1>8, <2>1, <3>2, <3>3
  <2>5. QED BY <2>3, <2>4
<1>11. Holds(n, q, a)
  <2>1. DOMAIN a = 1 .. Len(s) + 1
    BY <1>2
  <2>2. ASSUME NEW i \in DOMAIN a
        PROVE  n.next[a[i]] = At(a, i + 1) /\ n.previous[a[i]] = At(a, i - 1)
    <3>1. CASE i \in 1 .. Len(s)
      BY <1>9, <3>1
    <3>2. CASE i = Len(a)
      BY <1>2, <1>10, <3>2
    <3>3. QED BY <1>1, <1>2, <2>1, <3>1, <3>2
  <2>3. QED BY <1>7, <2>2 DEF Holds
<1>12. ASSUME NEW e \in Threads \ (ToSet(s) \cup {t})
       PROVE  n.next[e] = m.next[e] /\ n.previous[e] = m.previous[e]
  <2>1. e # m.bottom[q]
    <3>1. CASE Len(s) = 0
      BY <1>5, <3>1, ThreadQueueAssumption
    <3>2. CASE Len(s) # 0
      BY <1>1, <1>3, <1>5, <3>2
    <3>3. QED BY <3>1, <3>2
  <2>2. QED BY <1>8, <2>1
<1>13. \A o \in Queues \ {q} : n.top[o] = m.top[o] /\ n.bottom[o] = m.bottom[o]
  BY <1>6
<1>14. QED BY <1>6, <1>11, <1>12, <1>13 DEF n, a

\* A list with one entry taken out, wherever it stood, is held after unlinking it.
LEMMA UnlinkHolds ==
  ASSUME NEW m \in Memory, NEW q \in Queues, NEW s \in Seq(Threads), IsInjective(s),
         Holds(m, q, s), NEW i \in DOMAIN s
  PROVE  LET n == ClearEntry(Unhook(m, q, s[i]), s[i]) IN
         /\ Holds(n, q, RemoveAt(s, i))
         /\ n \in Memory /\ n.fault = m.fault /\ n.ready = m.ready
         /\ n.next[s[i]] = Null /\ n.previous[s[i]] = Null
         /\ \A o \in Queues \ {q} : n.top[o] = m.top[o] /\ n.bottom[o] = m.bottom[o]
         /\ \A e \in Threads \ ToSet(s) :
              n.next[e] = m.next[e] /\ n.previous[e] = m.previous[e]
<1> DEFINE t == s[i]
           n == ClearEntry(Unhook(m, q, t), t)
           r == RemoveAt(s, i)
           p == m.previous[t]
           x == m.next[t]
<1>1. PICK k \in Nat : k = Len(s)
  OBVIOUS
<1>2. DOMAIN s = 1 .. k /\ i \in 1 .. k /\ t \in Threads
  BY <1>1
<1>3. /\ r \in Seq(Threads) /\ Len(r) = k - 1
      /\ \A j \in 1 .. k - 1 : r[j] = IF j < i THEN s[j] ELSE s[j + 1]
  BY <1>1, RemoveShifts
<1>4. \A j, l \in 1 .. k : s[j] = s[l] => j = l
  BY <1>2 DEF IsInjective
<1>5. /\ m.top[q] = At(s, 1) /\ m.bottom[q] = At(s, k)
      /\ \A j \in 1 .. k : m.next[s[j]] = At(s, j + 1) /\ m.previous[s[j]] = At(s, j - 1)
  BY <1>1, <1>2 DEF Holds
<1>6. \A j \in Int : /\ j \in 1 .. k => At(s, j) = s[j] /\ s[j] \in Threads /\ At(s, j) # Null
                     /\ j \notin 1 .. k => At(s, j) = Null
  BY <1>1, AtOfList
<1>7. \A j \in Int : /\ j \in 1 .. k - 1 => At(r, j) = r[j]
                     /\ j \notin 1 .. k - 1 => At(r, j) = Null
  BY <1>3, AtOfList
<1> HIDE DEF r
<1>8. p = At(s, i - 1) /\ x = At(s, i + 1)
  BY <1>2, <1>5
<1>9. /\ x # t /\ p # t
      /\ (m.top[q] = t <=> i = 1) /\ (p = Null <=> i = 1)
      /\ (m.bottom[q] = t <=> i = k) /\ (x = Null <=> i = k)
  <2>1. x # t
    <3>1. CASE i + 1 \in 1 .. k
      BY <1>2, <1>4, <1>6, <1>8, <3>1
    <3>2. CASE i + 1 \notin 1 .. k
      BY <1>2, <1>6, <1>8, <3>2, ThreadQueueAssumption
    <3>3. QED BY <3>1, <3>2
  <2>2. p # t
    <3>1. CASE i - 1 \in 1 .. k
      BY <1>2, <1>4, <1>6, <1>8, <3>1
    <3>2. CASE i - 1 \notin 1 .. k
      BY <1>2, <1>6, <1>8, <3>2, ThreadQueueAssumption
    <3>3. QED BY <3>1, <3>2
  <2>3. m.top[q] = t <=> i = 1
    BY <1>2, <1>4, <1>5, <1>6
  <2>4. m.bottom[q] = t <=> i = k
    BY <1>2, <1>4, <1>5, <1>6
  <2>5. p = Null <=> i = 1
    BY <1>2, <1>6, <1>8
  <2>6. x = Null <=> i = k
    BY <1>2, <1>6, <1>8
  <2>7. QED BY <2>1, <2>2, <2>3, <2>4, <2>5, <2>6
<1>10. /\ n \in Memory /\ n.fault = m.fault /\ n.ready = m.ready
       /\ \A o \in Queues :
            /\ n.top[o] = IF o = q /\ m.top[q] = t THEN x ELSE m.top[o]
            /\ n.bottom[o] = IF o = q /\ m.bottom[q] = t THEN p ELSE m.bottom[o]
       /\ \A e \in Threads :
            /\ n.next[e] = IF e = t THEN Null ELSE IF e = p THEN x ELSE m.next[e]
            /\ n.previous[e] = IF e = t THEN Null ELSE IF e = x THEN p ELSE m.previous[e]
  BY <1>2, <1>9, UnlinkStores
<1> HIDE DEF n
<1>11. n.top[q] = At(r, 1)
  <2>1. CASE i = 1
    <3>1. n.top[q] = At(s, 2)
      BY <1>8, <1>9, <1>10, <2>1
    <3>2. CASE k = 1
      BY <1>6, <1>7, <3>1, <3>2
    <3>3. CASE k # 1
      <4>1. At(s, 2) = s[2] /\ At(r, 1) = r[1] /\ r[1] = s[1 + 1]
        BY <1>2, <1>3, <1>6, <1>7, <2>1, <3>3
      <4>2. QED BY <3>1, <4>1
    <3>4. QED BY <3>2, <3>3
  <2>2. CASE i # 1
    <3>1. n.top[q] = At(s, 1)
      BY <1>5, <1>9, <1>10, <2>2
    <3>2. At(s, 1) = s[1] /\ At(r, 1) = r[1] /\ r[1] = s[1]
      BY <1>2, <1>3, <1>6, <1>7, <2>2
    <3>3. QED BY <3>1, <3>2
  <2>3. QED BY <2>1, <2>2
<1>12. n.bottom[q] = At(r, k - 1)
  <2>1. CASE i = k
    <3>1. n.bottom[q] = At(s, k - 1)
      BY <1>8, <1>9, <1>10, <2>1
    <3>2. CASE k = 1
      BY <1>6, <1>7, <3>1, <3>2
    <3>3. CASE k # 1
      <4>1. k - 1 \in 1 .. k - 1 /\ k - 1 \in 1 .. k /\ k - 1 < i
        BY <1>2, <2>1, <3>3
      <4>2. At(s, k - 1) = s[k - 1] /\ At(r, k - 1) = r[k - 1] /\ r[k - 1] = s[k - 1]
        BY <1>3, <1>6, <1>7, <4>1
      <4>3. QED BY <3>1, <4>2
    <3>4. QED BY <3>2, <3>3
  <2>2. CASE i # k
    <3>1. n.bottom[q] = At(s, k)
      BY <1>5, <1>9, <1>10, <2>2
    <3>2. k - 1 \in 1 .. k - 1 /\ ~(k - 1 < i) /\ k - 1 + 1 = k /\ k \in 1 .. k
      BY <1>2, <2>2
    <3>3. At(s, k) = s[k] /\ At(r, k - 1) = r[k - 1] /\ r[k - 1] = s[k]
      BY <1>3, <1>6, <1>7, <3>2
    <3>4. QED BY <3>1, <3>3
  <2>3. QED BY <2>1, <2>2
<1> DEFINE at(j) == IF j < i THEN j ELSE j + 1
<1>13. \A j \in Int : At(r, j) = IF j \in 1 .. k - 1 THEN s[at(j)] ELSE Null
  BY <1>2, <1>3, <1>7
<1>14. ASSUME NEW j \in 1 .. k - 1
       PROVE  n.next[r[j]] = At(r, j + 1)
  <2>1. r[j] = s[at(j)] /\ at(j) \in 1 .. k /\ at(j) # i
    BY <1>2, <1>3
  <2>2. s[at(j)] \in Threads /\ s[at(j)] # t
    BY <1>2, <1>4, <1>6, <2>1
  <2>3. m.next[s[at(j)]] = At(s, at(j) + 1)
    BY <1>5, <2>1
  <2>4. CASE at(j) = i - 1
    <3>1. s[at(j)] = p
      BY <1>6, <1>8, <2>1, <2>4
    <3>2. n.next[r[j]] = At(s, i + 1)
      BY <1>8, <1>10, <2>1, <2>2, <3>1
    <3>3. j = i - 1 /\ j + 1 = i
      BY <1>2, <2>4
    <3>4. CASE i = k
      BY <1>2, <1>6, <1>7, <3>2, <3>3, <3>4
    <3>5. CASE i # k
      <4>1. i \in 1 .. k - 1 /\ i + 1 \in 1 .. k
        BY <1>2, <3>5
      <4>2. At(r, i) = s[i + 1] /\ At(s, i + 1) = s[i + 1]
        BY <1>6, <1>13, <4>1
      <4>3. QED BY <3>2, <3>3, <4>2
    <3>6. QED BY <3>4, <3>5
  <2>5. CASE at(j) # i - 1
    <3>1. s[at(j)] # p
      <4>1. CASE i = 1
        BY <1>9, <2>2, <4>1, ThreadQueueAssumption
      <4>2. CASE i # 1
        BY <1>2, <1>4, <1>6, <1>8, <2>1, <2>5, <4>2
      <4>3. QED BY <4>1, <4>2
    <3>2. n.next[r[j]] = At(s, at(j) + 1)
      BY <1>10, <2>1, <2>2, <2>3, <3>1
    <3>3. CASE j + 1 \in 1 .. k - 1
      <4>1. at(j + 1) = at(j) + 1 /\ at(j) + 1 \in 1 .. k
        BY <1>2, <2>5, <3>3
      <4>2. QED BY <1>6, <1>13, <3>2, <3>3, <4>1
    <3>4. CASE j + 1 \notin 1 .. k - 1
      <4>1. j = k - 1 /\ at(j) + 1 \notin 1 .. k
        BY <1>2, <2>5, <3>4
      <4>2. QED BY <1>2, <1>6, <1>13, <2>1, <3>2, <3>4, <4>1
    <3>5. QED BY <3>3, <3>4
  <2>6. QED BY <2>4, <2>5
<1>15. ASSUME NEW j \in 1 .. k - 1
       PROVE  n.previous[r[j]] = At(r, j - 1)
  <2>1. r[j] = s[at(j)] /\ at(j) \in 1 .. k /\ at(j) # i
    BY <1>2, <1>3
  <2>2. s[at(j)] \in Threads /\ s[at(j)] # t
    BY <1>2, <1>4, <1>6, <2>1
  <2>3. m.previous[s[at(j)]] = At(s, at(j) - 1)
    BY <1>5, <2>1
  <2>4. CASE at(j) = i + 1
    <3>1. s[at(j)] = x
      BY <1>6, <1>8, <2>1, <2>4
    <3>2. n.previous[r[j]] = At(s, i - 1)
      BY <1>8, <1>10, <2>1, <2>2, <3>1
    <3>3. j = i
      BY <1>2, <2>4
    <3>4. CASE i = 1
      BY <1>2, <1>6, <1>7, <3>2, <3>3, <3>4
    <3>5. CASE i # 1
      <4>1. i - 1 \in 1 .. k - 1 /\ i - 1 \in 1 .. k /\ at(i - 1) = i - 1
        BY <1>2, <3>5
      <4>2. At(r, i - 1) = s[i - 1] /\ At(s, i - 1) = s[i - 1]
        BY <1>6, <1>13, <4>1
      <4>3. QED BY <3>2, <3>3, <4>2
    <3>6. QED BY <3>4, <3>5
  <2>5. CASE at(j) # i + 1
    <3>1. s[at(j)] # x
      <4>1. CASE i = k
        BY <1>9, <2>2, <4>1, ThreadQueueAssumption
      <4>2. CASE i # k
        BY <1>2, <1>4, <1>6, <1>8, <2>1, <2>5, <4>2
      <4>3. QED BY <4>1, <4>2
    <3>2. n.previous[r[j]] = At(s, at(j) - 1)
      BY <1>10, <2>1, <2>2, <2>3, <3>1
    <3>3. CASE j - 1 \in 1 .. k - 1
      <4>1. at(j - 1) = at(j) - 1 /\ at(j) - 1 \in 1 .. k
        BY <1>2, <2>5, <3>3
      <4>2. QED BY <1>6, <1>13, <3>2, <3>3, <4>1
    <3>4. CASE j - 1 \notin 1 .. k - 1
      <4>1. j = 1 /\ at(j) - 1 \notin 1 .. k
        BY <1>2, <2>5, <3>4
      <4>2. QED BY <1>2, <1>6, <1>13, <2>1, <3>2, <3>4, <4>1
    <3>5. QED BY <3>3, <3>4
  <2>6. QED BY <2>4, <2>5
<1>16. Holds(n, q, r)
  <2>1. DOMAIN r = 1 .. k - 1
    BY <1>3
  <2>2. QED BY <1>3, <1>11, <1>12, <1>14, <1>15, <2>1 DEF Holds
<1>17. ASSUME NEW e \in Threads \ ToSet(s)
       PROVE  n.next[e] = m.next[e] /\ n.previous[e] = m.previous[e]
  <2>1. \A j \in 1 .. k : s[j] # e
    BY <1>2 DEF ToSet
  <2>2. e # t
    BY <1>2, <2>1
  <2>3. e # p
    <3>1. CASE i = 1
      BY <1>9, <3>1, ThreadQueueAssumption
    <3>2. CASE i # 1
      BY <1>2, <1>6, <1>8, <2>1, <3>2
    <3>3. QED BY <3>1, <3>2
  <2>4. e # x
    <3>1. CASE i = k
      BY <1>9, <3>1, ThreadQueueAssumption
    <3>2. CASE i # k
      BY <1>2, <1>6, <1>8, <2>1, <3>2
    <3>3. QED BY <3>1, <3>2
  <2>5. QED BY <1>10, <2>2, <2>3, <2>4
<1>18. n.next[t] = Null /\ n.previous[t] = Null
  BY <1>2, <1>10
<1>19. \A o \in Queues \ {q} : n.top[o] = m.top[o] /\ n.bottom[o] = m.bottom[o]
  BY <1>10
<1>20. QED BY <1>10, <1>16, <1>17, <1>18, <1>19 DEF n, r
------------------------------------------------------------------------------
\* Linking a thread of neither queue at the bottom of q keeps the lists and makes it
\* a member of q alone.
LEMMA LinkKeeps ==
  ASSUME NEW m, NEW L, Kept(m, L), NEW q \in Queues, NEW t \in Threads,
         \A o \in Queues : t \notin ToSet(L[o])
  PROVE  LET n == LinkBottom(m, q, t)
             K == [L EXCEPT ![q] = Append(@, t)]
         IN  /\ Kept(n, K) /\ n.ready = m.ready
             /\ \A o \in Queues : \A e : e \in ToSet(K[o]) <=> e \in ToSet(L[o]) \/ (o = q /\ e = t)
<1> DEFINE n == LinkBottom(m, q, t)
           K == [L EXCEPT ![q] = Append(@, t)]
           s == L[q]
<1>0. /\ m \in Memory /\ ~m.fault
      /\ L \in [Queues -> Seq(Threads)]
      /\ \A o \in Queues : IsInjective(L[o]) /\ Holds(m, o, L[o])
      /\ \A o, w \in Queues : o # w => ToSet(L[o]) \cap ToSet(L[w]) = {}
      /\ \A u \in Threads :
           (\A o \in Queues : u \notin ToSet(L[o])) => m.next[u] = Null /\ m.previous[u] = Null
  BY DEF Kept
<1>1. s \in Seq(Threads) /\ IsInjective(s) /\ Holds(m, q, s) /\ t \notin ToSet(s)
  BY <1>0
<1>2. m.next[t] = Null /\ m.previous[t] = Null
  BY <1>0
<1>3. /\ K \in [Queues -> Seq(Threads)] /\ K[q] = Append(s, t)
      /\ \A o \in Queues \ {q} : K[o] = L[o]
  BY <1>0
<1> HIDE DEF s
<1>4. /\ Holds(n, q, Append(s, t))
      /\ n \in Memory /\ n.fault = m.fault /\ n.ready = m.ready
      /\ \A o \in Queues \ {q} : n.top[o] = m.top[o] /\ n.bottom[o] = m.bottom[o]
      /\ \A e \in Threads \ (ToSet(s) \cup {t}) :
           n.next[e] = m.next[e] /\ n.previous[e] = m.previous[e]
  BY <1>0, <1>1, <1>2, LinkHolds
<1> HIDE DEF n, K
<1>5. ToSet(Append(s, t)) = ToSet(s) \cup {t} /\ IsInjective(Append(s, t))
  BY <1>1, AppendToQueue
<1>6. ASSUME NEW o \in Queues \ {q} PROVE Holds(n, o, K[o]) /\ IsInjective(K[o])
  <2>1. L[o] \in Seq(Threads) /\ Holds(m, o, L[o]) /\ IsInjective(L[o]) /\ K[o] = L[o]
    BY <1>0, <1>3
  <2>2. ASSUME NEW e \in ToSet(L[o])
        PROVE  n.next[e] = m.next[e] /\ n.previous[e] = m.previous[e]
    <3>1. ToSet(L[o]) \cap ToSet(s) = {}
      BY <1>0 DEF s
    <3>2. e \in Threads /\ e \notin ToSet(s) /\ e # t
      BY <2>1, <3>1, QueueMembers
    <3>3. QED BY <1>4, <3>2
  <2>3. Holds(n, o, L[o])
    BY <1>4, <2>1, <2>2, HoldsElsewhere
  <2>4. QED BY <2>1, <2>3
<1>7. \A o \in Queues : ToSet(K[o]) = IF o = q THEN ToSet(L[o]) \cup {t} ELSE ToSet(L[o])
  BY <1>3, <1>5 DEF s
<1>8. \A o \in Queues : IsInjective(K[o]) /\ Holds(n, o, K[o])
  BY <1>3, <1>4, <1>5, <1>6
<1>9. \A o, w \in Queues : o # w => ToSet(K[o]) \cap ToSet(K[w]) = {}
  BY ZenonT(60), <1>0, <1>7
<1>10. ASSUME NEW u \in Threads, \A o \in Queues : u \notin ToSet(K[o])
       PROVE  n.next[u] = Null /\ n.previous[u] = Null
  <2>1. \A o \in Queues : u \notin ToSet(L[o])
    BY <1>7, <1>10
  <2>2. u # t /\ u \notin ToSet(s)
    BY <1>7, <1>10 DEF s
  <2>3. QED BY <1>0, <1>4, <2>1, <2>2
<1>11. Kept(n, K) /\ n.ready = m.ready
  BY <1>0, <1>3, <1>4, <1>8, <1>9, <1>10 DEF Kept
<1>12. \A o \in Queues : \A e : e \in ToSet(K[o]) <=> e \in ToSet(L[o]) \/ (o = q /\ e = t)
  BY <1>7
<1>13. QED BY <1>11, <1>12 DEF n, K

\* Unlinking the entry at i of q keeps the lists and leaves its thread in neither.
LEMMA UnlinkKeeps ==
  ASSUME NEW m, NEW L, Kept(m, L), NEW q \in Queues, NEW i \in DOMAIN L[q]
  PROVE  LET n == ClearEntry(Unhook(m, q, L[q][i]), L[q][i])
             K == [L EXCEPT ![q] = RemoveAt(@, i)]
         IN  /\ Kept(n, K) /\ n.ready = m.ready
             /\ \A o \in Queues : ToSet(K[o]) = ToSet(L[o]) \ {L[q][i]}
<1> DEFINE s == L[q]
           t == s[i]
           n == ClearEntry(Unhook(m, q, t), t)
           K == [L EXCEPT ![q] = RemoveAt(@, i)]
<1>0. /\ m \in Memory /\ ~m.fault
      /\ L \in [Queues -> Seq(Threads)]
      /\ \A o \in Queues : IsInjective(L[o]) /\ Holds(m, o, L[o])
      /\ \A o, w \in Queues : o # w => ToSet(L[o]) \cap ToSet(L[w]) = {}
      /\ \A u \in Threads :
           (\A o \in Queues : u \notin ToSet(L[o])) => m.next[u] = Null /\ m.previous[u] = Null
  BY DEF Kept
<1>1. /\ s \in Seq(Threads) /\ IsInjective(s) /\ Holds(m, q, s) /\ i \in DOMAIN s
  BY <1>0
<1>2. /\ K[q] = RemoveAt(s, i)
      /\ \A o \in Queues \ {q} : K[o] = L[o]
      /\ K = [o \in Queues |-> K[o]]
  BY <1>0
<1> HIDE DEF s
<1>3. t \in ToSet(s) /\ t \in Threads
  BY <1>1 DEF ToSet
<1>4. /\ Holds(n, q, RemoveAt(s, i))
      /\ n \in Memory /\ n.fault = m.fault /\ n.ready = m.ready
      /\ n.next[t] = Null /\ n.previous[t] = Null
      /\ \A o \in Queues \ {q} : n.top[o] = m.top[o] /\ n.bottom[o] = m.bottom[o]
      /\ \A e \in Threads \ ToSet(s) :
           n.next[e] = m.next[e] /\ n.previous[e] = m.previous[e]
  BY <1>0, <1>1, UnlinkHolds
<1>5. /\ RemoveAt(s, i) \in Seq(Threads) /\ ToSet(RemoveAt(s, i)) = ToSet(s) \ {t}
      /\ IsInjective(RemoveAt(s, i))
  BY <1>1, RemoveFromQueue
<1> HIDE DEF n, K, t
<1>6. K \in [Queues -> Seq(Threads)]
  BY <1>0, <1>2, <1>5
<1>7. ASSUME NEW o \in Queues \ {q}
      PROVE  Holds(n, o, K[o]) /\ IsInjective(K[o]) /\ t \notin ToSet(L[o])
  <2>1. L[o] \in Seq(Threads) /\ Holds(m, o, L[o]) /\ IsInjective(L[o]) /\ K[o] = L[o]
    BY <1>0, <1>2
  <2>2. ToSet(L[o]) \cap ToSet(s) = {}
    BY <1>0 DEF s
  <2>3. ASSUME NEW e \in ToSet(L[o])
        PROVE  n.next[e] = m.next[e] /\ n.previous[e] = m.previous[e]
    <3>1. e \in Threads /\ e \notin ToSet(s)
      BY <2>1, <2>2, QueueMembers
    <3>2. QED BY <1>4, <3>1
  <2>4. Holds(n, o, L[o])
    BY <1>4, <2>1, <2>3, HoldsElsewhere
  <2>5. QED BY <1>3, <2>1, <2>2, <2>4
<1>8. \A o \in Queues : ToSet(K[o]) = ToSet(L[o]) \ {t}
  BY <1>2, <1>5, <1>7 DEF s
<1>9. \A o \in Queues : IsInjective(K[o]) /\ Holds(n, o, K[o])
  BY <1>2, <1>4, <1>5, <1>7
<1>10. \A o, w \in Queues : o # w => ToSet(K[o]) \cap ToSet(K[w]) = {}
  BY <1>0, <1>8
<1>11. ASSUME NEW u \in Threads, \A o \in Queues : u \notin ToSet(K[o])
       PROVE  n.next[u] = Null /\ n.previous[u] = Null
  <2>1. CASE u = t
    BY <1>4, <2>1
  <2>2. CASE u # t
    <3>1. \A o \in Queues : u \notin ToSet(L[o])
      BY <1>8, <1>11, <2>2
    <3>2. u \notin ToSet(s)
      BY <3>1 DEF s
    <3>3. QED BY <1>0, <1>4, <3>1, <3>2
  <2>3. QED BY <2>1, <2>2
<1>12. QED BY <1>0, <1>4, <1>6, <1>8, <1>9, <1>10, <1>11 DEF Kept, n, K, t, s

\* The ready bit is no part of the lists.
LEMMA ReadyKeeps ==
  ASSUME NEW m, NEW L, Kept(m, L), NEW t \in Threads, NEW b \in BOOLEAN
  PROVE  LET n == [m EXCEPT !.ready[t] = b] IN
         Kept(n, L) /\ n.ready = [m.ready EXCEPT ![t] = b]
<1> DEFINE n == [m EXCEPT !.ready[t] = b]
<1>1. /\ n \in Memory /\ n.fault = m.fault /\ n.ready = [m.ready EXCEPT ![t] = b]
      /\ n.top = m.top /\ n.bottom = m.bottom /\ n.next = m.next /\ n.previous = m.previous
  BY DEF Kept, Memory
<1> HIDE DEF n
<1>2. Kept(n, L)
  BY <1>1 DEF Kept, Holds
<1>3. QED BY <1>1, <1>2 DEF n
------------------------------------------------------------------------------
\* A thread in no list is linked behind the ready ones.
LEMMA ReadyLinked ==
  ASSUME NEW m, NEW L, Kept(m, L), ReadyAreIn(m, L), NEW t \in Threads,
         \A q \in Queues : t \notin ToSet(L[q])
  PROVE  LET n == ScLinkReadyThreadBottom(m, t)
             K == [L EXCEPT !["ThreadQueue"] = Append(@, t)]
         IN  Kept(n, K) /\ ReadyAreIn(n, K)
<1>0. PICK q \in Queues : q = "ThreadQueue"
  BY DEF Queues
<1> DEFINE l == LinkBottom(m, q, t)
           n == ScLinkReadyThreadBottom(m, t)
           K == [L EXCEPT ![q] = Append(@, t)]
<1>1. "ThreadQueue" \in Queues /\ m.ready \in [Threads -> BOOLEAN]
  BY DEF Queues, Kept, Memory
<1>2. ~m.ready[t]
  BY <1>1 DEF ReadyAreIn
<1>3. n = [l EXCEPT !.ready[t] = TRUE]
  BY <1>0, <1>2 DEF ScLinkReadyThreadBottom
<1>4. /\ Kept(l, K) /\ l.ready = m.ready
      /\ \A o \in Queues : \A e : e \in ToSet(K[o]) <=> e \in ToSet(L[o]) \/ (o = q /\ e = t)
  BY LinkKeeps
<1> HIDE DEF l, n, K
<1>5. Kept(n, K) /\ n.ready = [m.ready EXCEPT ![t] = TRUE]
  <2>1. Kept(l, K)
    BY <1>4
  <2>2. Kept([l EXCEPT !.ready[t] = TRUE], K)
    BY <2>1, ReadyKeeps
  <2>3. [l EXCEPT !.ready[t] = TRUE].ready = [l.ready EXCEPT ![t] = TRUE]
    BY <2>1, ReadyKeeps
  <2>4. QED BY <1>3, <1>4, <2>2, <2>3
<1>6. ReadyAreIn(n, K)
  BY <1>0, <1>1, <1>4, <1>5 DEF ReadyAreIn
<1>7. QED BY <1>0, <1>5, <1>6 DEF n, K

\* A ready thread is unlinked, and is then in no list.
LEMMA ReadyUnlinked ==
  ASSUME NEW m, NEW L, Kept(m, L), ReadyAreIn(m, L), NEW i \in DOMAIN L["ThreadQueue"]
  PROVE  LET t == L["ThreadQueue"][i]
             n == ScUnlinkReadyThread(m, t)
             K == [L EXCEPT !["ThreadQueue"] = RemoveAt(@, i)]
         IN  /\ Kept(n, K) /\ ReadyAreIn(n, K) /\ t \in Threads
             /\ \A q \in Queues : t \notin ToSet(K[q])
<1>0. PICK q \in Queues : q = "ThreadQueue"
  BY DEF Queues
<1> DEFINE t == L[q][i]
           l == ClearEntry(Unhook(m, q, t), t)
           n == ScUnlinkReadyThread(m, t)
           K == [L EXCEPT ![q] = RemoveAt(@, i)]
<1>1. /\ "ThreadQueue" \in Queues /\ m.ready \in [Threads -> BOOLEAN]
      /\ L["ThreadQueue"] \in Seq(Threads)
  BY DEF Queues, Kept, Memory
<1>2. t \in ToSet(L["ThreadQueue"]) /\ t \in Threads
  BY <1>0, <1>1 DEF ToSet
<1>3. m.ready[t]
  BY <1>2 DEF ReadyAreIn
<1>4. n = [l EXCEPT !.ready[t] = FALSE]
  BY <1>0, <1>3 DEF ScUnlinkReadyThread
<1>5. /\ Kept(l, K) /\ l.ready = m.ready
      /\ \A o \in Queues : ToSet(K[o]) = ToSet(L[o]) \ {t}
  BY <1>0, UnlinkKeeps
<1> HIDE DEF l, n, K, t
<1>6. Kept(n, K) /\ n.ready = [m.ready EXCEPT ![t] = FALSE]
  BY ZenonT(60), <1>2, <1>4, <1>5, ReadyKeeps
<1>7. ReadyAreIn(n, K)
  BY <1>1, <1>5, <1>6 DEF ReadyAreIn
<1>8. QED BY <1>0, <1>2, <1>5, <1>6, <1>7 DEF n, K, t

\* A thread in no list is linked behind the sleeping ones.
LEMMA SleeperLinked ==
  ASSUME NEW m, NEW L, Kept(m, L), ReadyAreIn(m, L), NEW t \in Threads,
         \A q \in Queues : t \notin ToSet(L[q])
  PROVE  LET n == ScLinkSleepThreadBottom(m, t)
             K == [L EXCEPT !["SleepQueue"] = Append(@, t)]
         IN  Kept(n, K) /\ ReadyAreIn(n, K)
<1>0. PICK q \in Queues : q = "SleepQueue"
  BY DEF Queues
<1> DEFINE l == LinkBottom(m, q, t)
           K == [L EXCEPT ![q] = Append(@, t)]
<1>1. "ThreadQueue" \in Queues /\ "SleepQueue" \in Queues
  BY DEF Queues
<1>2. ~m.ready[t]
  BY <1>1 DEF ReadyAreIn
<1>3. ScLinkSleepThreadBottom(m, t) = l
  BY <1>0, <1>2 DEF ScLinkSleepThreadBottom
<1>4. /\ Kept(l, K) /\ l.ready = m.ready
      /\ \A o \in Queues : \A e : e \in ToSet(K[o]) <=> e \in ToSet(L[o]) \/ (o = q /\ e = t)
  BY LinkKeeps
<1> HIDE DEF l, K
<1>5. ReadyAreIn(l, K)
  BY <1>0, <1>1, <1>4 DEF ReadyAreIn
<1>6. QED BY <1>0, <1>3, <1>4, <1>5 DEF K

\* A sleeping thread is unlinked, and is then in no list.
LEMMA SleeperUnlinked ==
  ASSUME NEW m, NEW L, Kept(m, L), ReadyAreIn(m, L), NEW i \in DOMAIN L["SleepQueue"]
  PROVE  LET t == L["SleepQueue"][i]
             n == ScUnlinkSleepThread(m, t)
             K == [L EXCEPT !["SleepQueue"] = RemoveAt(@, i)]
         IN  /\ Kept(n, K) /\ ReadyAreIn(n, K) /\ t \in Threads
             /\ \A q \in Queues : t \notin ToSet(K[q])
<1>0. PICK q \in Queues : q = "SleepQueue"
  BY DEF Queues
<1> DEFINE t == L[q][i]
           l == ClearEntry(Unhook(m, q, t), t)
           n == ScUnlinkSleepThread(m, t)
           K == [L EXCEPT ![q] = RemoveAt(@, i)]
<1>1. /\ "ThreadQueue" \in Queues /\ "SleepQueue" \in Queues
      /\ "ThreadQueue" # "SleepQueue"
      /\ L["SleepQueue"] \in Seq(Threads)
      /\ \A w, o \in Queues : w # o => ToSet(L[w]) \cap ToSet(L[o]) = {}
  BY DEF Queues, Kept
<1>2. t \in ToSet(L["SleepQueue"]) /\ t \in Threads
  BY <1>0, <1>1 DEF ToSet
<1>3. t \notin ToSet(L["ThreadQueue"])
  BY <1>1, <1>2
<1>4. ~m.ready[t]
  BY <1>2, <1>3 DEF ReadyAreIn
<1>5. n = l
  BY <1>0, <1>4 DEF ScUnlinkSleepThread
<1>6. /\ Kept(l, K) /\ l.ready = m.ready
      /\ \A o \in Queues : ToSet(K[o]) = ToSet(L[o]) \ {t}
  BY <1>0, UnlinkKeeps
<1> HIDE DEF l, n, K, t
<1>7. ReadyAreIn(n, K)
  BY <1>1, <1>3, <1>5, <1>6 DEF ReadyAreIn
<1>8. QED BY <1>0, <1>2, <1>5, <1>6, <1>7 DEF n, K, t
------------------------------------------------------------------------------
\* Lists that a memory holds are the ones followed in it.
LEMMA HeldAreFollowed ==
  ASSUME NEW K, Kept(memory, K)
  PROVE  FollowedLists = K
<1>1. K \in [Queues -> Seq(Threads)]
  BY DEF Kept
<1>2. \A q \in Queues : Forward(q) = K[q]
  BY ListsAreFollowed DEF Forward
<1>3. QED BY <1>1, <1>2 DEF FollowedLists

\* The moves of ThreadLists between two families of lists.
Moved(L, K) ==
  \/ \E t \in Threads : /\ \A q \in Queues : t \notin ToSet(L[q])
                        /\ K = [L EXCEPT !["ThreadQueue"] = Append(@, t)]
  \/ \E i \in DOMAIN L["ThreadQueue"] : K = [L EXCEPT !["ThreadQueue"] = RemoveAt(@, i)]
  \/ \E i \in DOMAIN L["ThreadQueue"] :
       K = [L EXCEPT !["ThreadQueue"] = RemoveAt(@, i),
                     !["SleepQueue"] = Append(@, L["ThreadQueue"][i])]
  \/ \E i \in DOMAIN L["SleepQueue"] :
       K = [L EXCEPT !["SleepQueue"] = RemoveAt(@, i),
                     !["ThreadQueue"] = Append(@, L["SleepQueue"][i])]

\* Every operation moves the lists as ThreadLists promises and keeps the
\* invariant.
LEMMA StepMoves ==
  ASSUME ListInv, Next
  PROVE  ListInv' /\ Moved(FollowedLists, FollowedLists')
<1> DEFINE L == FollowedLists
<1>1. /\ Kept(memory, L) /\ ReadyAreIn(memory, L)
      /\ L \in [Queues -> Seq(Threads)] /\ \A q \in Queues : L[q] = Forward(q)
  BY DEF ListInv, Kept, FollowedLists
<1>2. "ThreadQueue" \in Queues /\ "SleepQueue" \in Queues
  BY DEF Queues
<1> HIDE DEF L
<1>3. ASSUME NEW K, Kept(memory', K), ReadyAreIn(memory', K), Moved(L, K)
      PROVE  ListInv' /\ Moved(FollowedLists, FollowedLists')
  <2>1. K \in [Queues -> Seq(Threads)]
    BY <1>3 DEF Kept
  <2>2. \A q \in Queues : Forward(q)' = K[q]
    BY <1>3, ListsAreFollowed DEF Forward
  <2>3. FollowedLists' = K
    BY <2>1, <2>2 DEF FollowedLists
  <2>4. QED BY <1>3, <2>3 DEF ListInv, L
<1>4. PICK t \in Threads : Link(t) \/ Unlink(t) \/ FallAsleep(t) \/ Wake(t)
  BY DEF Next
<1>5. CASE Link(t)
  <2> DEFINE K == [L EXCEPT !["ThreadQueue"] = Append(@, t)]
  <2>1. \A q \in Queues : t \notin ToSet(L[q])
    BY <1>1, <1>5 DEF Link, InQueue
  <2>2. Kept(memory', K) /\ ReadyAreIn(memory', K)
    BY <1>1, <1>5, <2>1, ReadyLinked DEF Link
  <2>3. Moved(L, K)
    BY <2>1 DEF Moved
  <2> HIDE DEF K
  <2>4. QED BY <1>3, <2>2, <2>3
<1>6. CASE Unlink(t)
  <2>1. PICK i \in DOMAIN L["ThreadQueue"] : L["ThreadQueue"][i] = t
    BY <1>1, <1>6 DEF Unlink, ReadyAreIn, ToSet
  <2> DEFINE K == [L EXCEPT !["ThreadQueue"] = RemoveAt(@, i)]
  <2>2. Kept(memory', K) /\ ReadyAreIn(memory', K)
    BY <1>1, <1>6, <2>1, ReadyUnlinked DEF Unlink
  <2>3. Moved(L, K)
    BY DEF Moved
  <2> HIDE DEF K
  <2>4. QED BY <1>3, <2>2, <2>3
<1>7. CASE FallAsleep(t)
  <2>1. PICK i \in DOMAIN L["ThreadQueue"] : L["ThreadQueue"][i] = t
    BY <1>1, <1>7 DEF FallAsleep, ReadyAreIn, ToSet
  <2> DEFINE m == ScUnlinkReadyThread(memory, t)
             M == [L EXCEPT !["ThreadQueue"] = RemoveAt(@, i)]
             K == [M EXCEPT !["SleepQueue"] = Append(@, t)]
  <2>2. Kept(m, M) /\ ReadyAreIn(m, M) /\ \A q \in Queues : t \notin ToSet(M[q])
    BY <1>1, <2>1, ReadyUnlinked
  <2>3. memory' = ScLinkSleepThreadBottom(m, t)
    BY <1>7 DEF FallAsleep
  <2>4. Moved(L, K)
    BY <1>1, <1>2, <2>1 DEF Moved
  <2> HIDE DEF m, M
  <2>5. Kept(memory', K) /\ ReadyAreIn(memory', K)
    BY <2>2, <2>3, SleeperLinked
  <2> HIDE DEF K
  <2>6. QED BY <1>3, <2>4, <2>5
<1>8. CASE Wake(t)
  <2>1. PICK i \in DOMAIN L["SleepQueue"] : L["SleepQueue"][i] = t
    BY <1>1, <1>2, <1>8 DEF Wake, InQueue, ToSet
  <2> DEFINE m == ScUnlinkSleepThread(memory, t)
             M == [L EXCEPT !["SleepQueue"] = RemoveAt(@, i)]
             K == [M EXCEPT !["ThreadQueue"] = Append(@, t)]
  <2>2. Kept(m, M) /\ ReadyAreIn(m, M) /\ \A q \in Queues : t \notin ToSet(M[q])
    BY <1>1, <2>1, SleeperUnlinked
  <2>3. memory' = ScLinkReadyThreadBottom(m, t)
    BY <1>8 DEF Wake
  <2>4. Moved(L, K)
    BY <1>1, <1>2, <2>1 DEF Moved
  <2> HIDE DEF m, M
  <2>5. Kept(memory', K) /\ ReadyAreIn(memory', K)
    BY <2>2, <2>3, ReadyLinked
  <2> HIDE DEF K
  <2>6. QED BY <1>3, <2>4, <2>5
<1>9. QED BY <1>4, <1>5, <1>6, <1>7, <1>8

\* Both queues are empty when the kernel starts.
LEMMA ListInit == Init => ListInv /\ FollowedLists = [q \in Queues |-> <<>>]
<1> SUFFICES ASSUME Init PROVE ListInv /\ FollowedLists = [q \in Queues |-> <<>>]
  OBVIOUS
<1> DEFINE E == [q \in Queues |-> <<>>]
<1>1. /\ memory \in Memory /\ ~memory.fault /\ memory.ready = [t \in Threads |-> FALSE]
      /\ \A q \in Queues : memory.top[q] = Null /\ memory.bottom[q] = Null
      /\ \A t \in Threads : memory.next[t] = Null /\ memory.previous[t] = Null
  BY DEF Init, Memory, Ends, Links
<1>2. /\ E \in [Queues -> Seq(Threads)]
      /\ \A q \in Queues : E[q] = <<>> /\ ToSet(E[q]) = {} /\ IsInjective(E[q])
  BY DEF ToSet, IsInjective
<1>3. \A q \in Queues : Holds(memory, q, E[q])
  BY <1>1, <1>2 DEF Holds, At
<1>4. "ThreadQueue" \in Queues
  BY DEF Queues
<1> HIDE DEF E
<1>5. Kept(memory, E) /\ ReadyAreIn(memory, E)
  BY <1>1, <1>2, <1>3, <1>4 DEF Kept, ReadyAreIn
<1>6. QED BY <1>5, HeldAreFollowed DEF ListInv, E

\* The lists that are followed are held, for any set of threads and any order
\* of linking, unlinking, sleeping and waking.
THEOREM ListInvariant == Spec => []ListInv
<1>1. ListInv /\ UNCHANGED vars => ListInv'
  BY DEF ListInv, FollowedLists, Forward, vars
<1>2. ListInv /\ [Next]_vars => ListInv'
  BY <1>1, StepMoves
<1>3. QED BY <1>2, ListInit, PTL DEF Spec

\* No operation stores through NULL or meets its SC_BUG0 check (schedule.c:212,
\* 247, 286), for any set of threads.
THEOREM NothingFaults == Spec => []NoFault
<1>1. ListInv => NoFault
  BY DEF ListInv, Kept, NoFault
<1>2. QED BY <1>1, ListInvariant, PTL

\* Read from its bottom, each queue is what it is from its top, in reverse.
THEOREM ListsGoBothWays == Spec => []BothWays
<1>1. ListInv => BothWays
  BY ListsAreFollowed DEF ListInv, BothWays, Backward, FollowedLists
<1>2. QED BY <1>1, ListInvariant, PTL

\* The doubly linked lists implement the sequences of ThreadLists.
THEOREM ThreadQueueImplementsLists == Spec => ListsPromise
<1> DEFINE rq == [p \in {0} |-> Forward("ThreadQueue")]
           sq == [p \in {0} |-> Forward("SleepQueue")]
<1>0. ASSUME NEW s
      PROVE  /\ Lists!ToSet(s) = ToSet(s) /\ (Lists!IsInjective(s) <=> IsInjective(s))
             /\ \A i : Lists!RemoveAt(s, i) = RemoveAt(s, i)
  BY DEF ToSet, Lists!ToSet, IsInjective, Lists!IsInjective, RemoveAt, Lists!RemoveAt
<1>1. Init => Lists!Init
  <2> SUFFICES ASSUME Init PROVE Lists!Init
    OBVIOUS
  <2>1. Forward("ThreadQueue") = <<>> /\ Forward("SleepQueue") = <<>>
    BY ListInit DEF FollowedLists, Queues
  <2>2. IsInjective(<<>>)
    BY DEF IsInjective
  <2>3. Lists!IsInjective(<<>>)
    BY <1>0, <2>2
  <2>4. rq = [p \in {0} |-> <<>>] /\ sq = [p \in {0} |-> <<>>]
    BY <2>1
  <2>5. rq \in [{0} -> Seq(Threads)]
    <3>1. <<>> \in Seq(Threads)
      OBVIOUS
    <3>2. Forward("ThreadQueue") \in Seq(Threads)
      BY <2>1, <3>1, Zenon
    <3>3. QED BY <3>2
  <2>6. \A p \in {0} : Lists!IsInjective(rq[p])
    BY <2>3, <2>4
  <2>7. \A p, q \in {0} : p # q => Lists!ToSet(rq[p]) \cap Lists!ToSet(rq[q]) = {}
    OBVIOUS
  <2> HIDE DEF rq, sq
  <2>8. Lists!Init <=>
          /\ rq \in [{0} -> Seq(Threads)]
          /\ \A p \in {0} : Lists!IsInjective(rq[p])
          /\ \A p, q \in {0} : p # q => Lists!ToSet(rq[p]) \cap Lists!ToSet(rq[q]) = {}
          /\ sq = [p \in {0} |-> <<>>]
    BY Zenon DEF Lists!Init, rq, sq
  <2>9. QED BY <2>4, <2>5, <2>6, <2>7, <2>8
<1>2. ListInv /\ Next => Lists!Next
  <2> SUFFICES ASSUME ListInv, Next PROVE Lists!Next
    OBVIOUS
  <2> DEFINE L == FollowedLists
             K == FollowedLists'
  <2>1. /\ L \in [Queues -> Seq(Threads)]
        /\ Forward("ThreadQueue") = L["ThreadQueue"] /\ Forward("SleepQueue") = L["SleepQueue"]
        /\ Forward("ThreadQueue")' = K["ThreadQueue"] /\ Forward("SleepQueue")' = K["SleepQueue"]
    BY DEF ListInv, Kept, FollowedLists, Queues
  <2>2. Moved(L, K)
    BY StepMoves
  <2>3. /\ "ThreadQueue" \in Queues /\ "SleepQueue" \in Queues /\ Queues = {"ThreadQueue", "SleepQueue"}
        /\ \A q \in Queues : \A i \in DOMAIN L[q] : L[q][i] \in Threads
    BY <2>1 DEF Queues
  <2> HIDE DEF L, K
  <2>4. ASSUME NEW t \in Threads, \A q \in Queues : t \notin ToSet(L[q]),
               K = [L EXCEPT !["ThreadQueue"] = Append(@, t)]
        PROVE  Lists!Link(0, t)
    <3>1. K["ThreadQueue"] = Append(L["ThreadQueue"], t) /\ K["SleepQueue"] = L["SleepQueue"]
      BY <2>1, <2>3, <2>4
    <3>2. t \notin Lists!Queued
      BY <1>0, <2>1, <2>3, <2>4 DEF Lists!Queued
    <3>3. QED BY <2>1, <3>1, <3>2 DEF Lists!Link, Lists!With
  <2>5. ASSUME NEW i \in DOMAIN L["ThreadQueue"],
               K = [L EXCEPT !["ThreadQueue"] = RemoveAt(@, i)]
        PROVE  Lists!Unlink(0, L["ThreadQueue"][i])
    <3>1. K["ThreadQueue"] = RemoveAt(L["ThreadQueue"], i) /\ K["SleepQueue"] = L["SleepQueue"]
      BY <2>1, <2>3, <2>5
    <3>2. QED BY <1>0, <2>1, <3>1 DEF Lists!Unlink, Lists!Without
  <2>6. ASSUME NEW i \in DOMAIN L["ThreadQueue"],
               K = [L EXCEPT !["ThreadQueue"] = RemoveAt(@, i),
                             !["SleepQueue"] = Append(@, L["ThreadQueue"][i])]
        PROVE  Lists!FallAsleep(0, L["ThreadQueue"][i])
    <3>1. /\ K["ThreadQueue"] = RemoveAt(L["ThreadQueue"], i)
          /\ K["SleepQueue"] = Append(L["SleepQueue"], L["ThreadQueue"][i])
      BY <2>1, <2>3, <2>6
    <3>2. QED BY <1>0, <2>1, <3>1 DEF Lists!FallAsleep, Lists!Without, Lists!With
  <2>7. ASSUME NEW i \in DOMAIN L["SleepQueue"],
               K = [L EXCEPT !["SleepQueue"] = RemoveAt(@, i),
                             !["ThreadQueue"] = Append(@, L["SleepQueue"][i])]
        PROVE  Lists!Wake(0, L["SleepQueue"][i])
    <3>1. /\ K["SleepQueue"] = RemoveAt(L["SleepQueue"], i)
          /\ K["ThreadQueue"] = Append(L["ThreadQueue"], L["SleepQueue"][i])
      BY <2>1, <2>3, <2>7
    <3>2. QED BY <1>0, <2>1, <3>1 DEF Lists!Wake, Lists!Without, Lists!With
  <2>8. \E t \in Threads : Lists!Link(0, t) \/ Lists!Unlink(0, t)
                             \/ Lists!FallAsleep(0, t) \/ Lists!Wake(0, t)
    BY <2>2, <2>3, <2>4, <2>5, <2>6, <2>7 DEF Moved
  <2>9. QED BY <2>8 DEF Lists!Next
<1>3. UNCHANGED vars => UNCHANGED <<rq, sq>>
  BY DEF vars, Forward
<1>4. ListInv /\ [Next]_vars => [Lists!Next]_<<rq, sq>>
  BY <1>2, <1>3
<1>5. QED BY <1>1, <1>4, ListInvariant, PTL DEF Spec, ListsPromise, Lists!Spec
==============================================================================
