----------------------------- MODULE QueueLemmas -----------------------------
(* What appending to a queue and removing an entry from it do to the set of   *)
(* its members.  The kernel's doubly linked queues are modelled as sequences; *)
(* the proofs about them reason with the sets.                                *)
EXTENDS SequencesExt, SequenceTheorems, WellFoundedInduction, TLAPS

\* Linking an entry at the bottom of a list adds it and nothing else, and no
\* entry is there twice unless it was there already.
LEMMA AppendToQueue ==
  ASSUME NEW S, NEW q \in Seq(S), NEW e \in S
  PROVE  /\ Append(q, e) \in Seq(S)
         /\ ToSet(Append(q, e)) = ToSet(q) \cup {e}
         /\ IsInjective(q) /\ e \notin ToSet(q) => IsInjective(Append(q, e))
<1>1. Append(q, e) \in Seq(S)
  OBVIOUS
<1>2. /\ Len(Append(q, e)) = Len(q) + 1
      /\ \A i \in 1 .. Len(q) : Append(q, e)[i] = q[i]
      /\ Append(q, e)[Len(q) + 1] = e
  OBVIOUS
<1>3. DOMAIN q = 1 .. Len(q) /\ DOMAIN Append(q, e) = 1 .. Len(q) + 1 /\ Len(q) \in Nat
  BY <1>1, <1>2
<1>4. ToSet(Append(q, e)) = ToSet(q) \cup {e}
  BY <1>2, <1>3 DEF ToSet
<1>5. IsInjective(q) /\ e \notin ToSet(q) => IsInjective(Append(q, e))
  BY <1>2, <1>3 DEF ToSet, IsInjective
<1>6. QED BY <1>1, <1>4, <1>5

\* Unlinking the entry at i shifts the entries behind it, and only those.
LEMMA RemoveShifts ==
  ASSUME NEW S, NEW q \in Seq(S), NEW i \in DOMAIN q
  PROVE  /\ RemoveAt(q, i) \in Seq(S)
         /\ Len(RemoveAt(q, i)) = Len(q) - 1
         /\ \A j \in 1 .. Len(q) - 1 :
              RemoveAt(q, i)[j] = IF j < i THEN q[j] ELSE q[j + 1]
<1> DEFINE r == RemoveAt(q, i)
<1>0. DOMAIN q = 1 .. Len(q) /\ Len(q) \in Nat /\ i \in 1 .. Len(q)
  OBVIOUS
<1> DEFINE front == SubSeq(q, 1, i - 1)
           back  == SubSeq(q, i + 1, Len(q))
<1>1. /\ front \in Seq(S) /\ Len(front) = i - 1
      /\ \A j \in 1 .. i - 1 : front[j] = q[j]
  <2>1. \A j \in 1 .. i - 1 : q[j] \in S
    BY <1>0
  <2>2. /\ front \in Seq(S)
        /\ Len(front) = IF 1 <= i - 1 THEN i - 1 - 1 + 1 ELSE 0
        /\ \A j \in 1 .. i - 1 - 1 + 1 : front[j] = q[1 + j - 1]
    BY <1>0, <2>1, SubSeqProperties
  <2>3. QED BY <1>0, <2>2
<1>2. /\ back \in Seq(S) /\ Len(back) = Len(q) - i
      /\ \A j \in 1 .. Len(q) - i : back[j] = q[i + j]
  <2>1. \A j \in i + 1 .. Len(q) : q[j] \in S
    BY <1>0
  <2>2. /\ back \in Seq(S)
        /\ Len(back) = IF i + 1 <= Len(q) THEN Len(q) - (i + 1) + 1 ELSE 0
        /\ \A j \in 1 .. Len(q) - (i + 1) + 1 : back[j] = q[i + 1 + j - 1]
    BY <1>0, <2>1, SubSeqProperties
  <2>3. QED BY <1>0, <2>2
<1>3. r = front \o back
  BY DEF RemoveAt
<1> HIDE DEF front, back, r
<1>4. /\ r \in Seq(S)
      /\ Len(r) = Len(front) + Len(back)
      /\ \A j \in 1 .. Len(front) + Len(back) :
           r[j] = IF j <= Len(front) THEN front[j] ELSE back[j - Len(front)]
  BY <1>1, <1>2, <1>3, ConcatProperties
<1>5. Len(r) = Len(q) - 1
  BY <1>0, <1>1, <1>2, <1>4
<1>6. ASSUME NEW j \in 1 .. Len(q) - 1
      PROVE  r[j] = IF j < i THEN q[j] ELSE q[j + 1]
  <2>1. r[j] = IF j <= i - 1 THEN front[j] ELSE back[j - (i - 1)]
    BY SMTT(30), <1>0, <1>1, <1>2, <1>4
  <2>2. CASE j < i
    BY <1>0, <1>1, <2>1, <2>2
  <2>3. CASE j >= i
    <3>1. j - (i - 1) \in 1 .. Len(q) - i /\ i + (j - (i - 1)) = j + 1 /\ ~(j <= i - 1)
      BY <1>0, <2>3
    <3>2. QED BY SMTT(30), <1>0, <1>2, <2>1, <2>3, <3>1
  <2>4. QED BY <1>0, <2>2, <2>3
<1>7. QED BY <1>4, <1>5, <1>6 DEF r

\* Unlinking an entry of a list without duplicates removes it from the members.
LEMMA RemoveFromQueue ==
  ASSUME NEW S, NEW q \in Seq(S), NEW i \in DOMAIN q, IsInjective(q)
  PROVE  /\ RemoveAt(q, i) \in Seq(S)
         /\ ToSet(RemoveAt(q, i)) = ToSet(q) \ {q[i]}
         /\ IsInjective(RemoveAt(q, i))
<1> DEFINE r == RemoveAt(q, i)
<1>1. DOMAIN q = 1 .. Len(q) /\ Len(q) \in Nat /\ i \in 1 .. Len(q)
  OBVIOUS
<1>2. /\ r \in Seq(S)
      /\ Len(r) = Len(q) - 1
      /\ \A j \in 1 .. Len(q) - 1 : r[j] = IF j < i THEN q[j] ELSE q[j + 1]
  BY RemoveShifts
<1>3. DOMAIN r = 1 .. Len(q) - 1
  BY <1>2
<1> HIDE DEF r
<1>4. ToSet(r) = ToSet(q) \ {q[i]}
  <2>1. ASSUME NEW j \in DOMAIN r PROVE r[j] \in ToSet(q) \ {q[i]}
    <3>1. j \in 1 .. Len(q) - 1
      BY <1>3
    <3>2. PICK n \in DOMAIN q : n # i /\ r[j] = q[n]
      <4>1. CASE j < i
        BY <3>1, <4>1, <1>1, <1>2
      <4>2. CASE ~(j < i)
        <5>1. j + 1 \in DOMAIN q /\ j + 1 # i
          BY <3>1, <4>2, <1>1
        <5>2. r[j] = q[j + 1]
          BY <3>1, <4>2, <1>2
        <5>3. QED BY <5>1, <5>2
      <4>3. QED BY <4>1, <4>2
    <3>3. q[n] # q[i]
      BY <3>2 DEF IsInjective
    <3>4. QED BY <3>2, <3>3 DEF ToSet
  <2>2. ASSUME NEW k \in DOMAIN q, k # i PROVE q[k] \in ToSet(r)
    <3>1. CASE k < i
      BY <3>1, <2>2, <1>1, <1>2, <1>3 DEF ToSet
    <3>2. CASE k > i
      <4>1. k - 1 \in DOMAIN r /\ r[k - 1] = q[k]
        BY <3>2, <1>1, <1>2, <1>3
      <4>2. QED BY <4>1 DEF ToSet
    <3>3. QED BY <2>2, <1>1, <3>1, <3>2
  <2>3. QED BY <2>1, <2>2 DEF ToSet
<1>5. IsInjective(r)
  <2> SUFFICES ASSUME NEW j \in DOMAIN r, NEW k \in DOMAIN r, r[j] = r[k]
               PROVE  j = k
    BY DEF IsInjective
  <2> DEFINE at(n) == IF n < i THEN n ELSE n + 1
  <2>1. /\ j \in 1 .. Len(q) - 1 /\ k \in 1 .. Len(q) - 1
        /\ r[j] = q[at(j)] /\ r[k] = q[at(k)]
    BY <1>2, <1>3
  <2>2. at(j) \in DOMAIN q /\ at(k) \in DOMAIN q
    BY <1>1, <2>1
  <2>3. at(j) = at(k)
    BY <2>1, <2>2 DEF IsInjective
  <2>4. QED BY <1>1, <2>1, <2>3
<1>6. QED BY <1>2, <1>4, <1>5 DEF r

\* The members of a queue are of the type of its entries.
LEMMA QueueMembers ==
  ASSUME NEW S, NEW q \in Seq(S) PROVE ToSet(q) \subseteq S
BY DEF ToSet

\* A family of queues, one for every member of P, none with a duplicate.
Family(P, S, Q) == Q \in [P -> Seq(S)] /\ \A r \in P : IsInjective(Q[r])

\* R is the family Q after e was linked at the bottom of the queue of p.
Linked(P, S, Q, R, p, e) ==
  /\ Family(P, S, Q) /\ p \in P /\ e \in S /\ e \notin ToSet(Q[p])
  /\ R = [Q EXCEPT ![p] = Append(@, e)]

\* R is Q after the entry at i, which no other queue holds, left that of p.
Unlinked(P, S, Q, R, p, i) ==
  /\ Family(P, S, Q) /\ p \in P /\ i \in DOMAIN Q[p]
  /\ \A r \in P \ {p} : Q[p][i] \notin ToSet(Q[r])
  /\ R = [Q EXCEPT ![p] = RemoveAt(@, i)]

\* Linking an entry in the queue of p disturbs only that one.
LEMMA AppendToFamily ==
  ASSUME NEW P, NEW S, NEW Q, NEW R, NEW p, NEW e, Linked(P, S, Q, R, p, e)
  PROVE  \A r \in P :
           /\ IsInjective(R[r]) /\ ToSet(R[r]) \subseteq S
           /\ \A x \in S : x \in ToSet(R[r]) <=> x \in ToSet(Q[r]) \/ (x = e /\ r = p)
<1> SUFFICES ASSUME NEW r \in P
             PROVE  /\ IsInjective(R[r]) /\ ToSet(R[r]) \subseteq S
                    /\ \A x \in S : x \in ToSet(R[r]) <=> x \in ToSet(Q[r]) \/ (x = e /\ r = p)
  OBVIOUS
<1>0. /\ Q \in [P -> Seq(S)] /\ p \in P /\ e \in S /\ e \notin ToSet(Q[p])
      /\ IsInjective(Q[r]) /\ IsInjective(Q[p]) /\ R = [Q EXCEPT ![p] = Append(@, e)]
  BY DEF Linked, Family
<1>1. CASE r = p
  <2> DEFINE q == Q[p]
  <2>1. R[r] = Append(q, e) /\ q \in Seq(S) /\ IsInjective(q) /\ e \notin ToSet(q)
    BY <1>0, <1>1
  <2> HIDE DEF q
  <2>2. /\ Append(q, e) \in Seq(S) /\ ToSet(Append(q, e)) = ToSet(q) \cup {e}
        /\ IsInjective(Append(q, e))
    BY <1>0, <2>1, AppendToQueue
  <2>3. R[r] \in Seq(S) /\ ToSet(R[r]) = ToSet(q) \cup {e} /\ IsInjective(R[r])
    BY <2>1, <2>2
  <2>4. QED BY <1>0, <1>1, <2>3, QueueMembers DEF q
<1>2. CASE r # p
  <2>1. R[r] = Q[r]
    BY <1>0, <1>2
  <2>2. QED BY <1>0, <1>2, <2>1, QueueMembers
<1>3. QED BY <1>0, <1>1, <1>2

\* Unlinking an entry that no other queue of the family holds.
LEMMA RemoveFromFamily ==
  ASSUME NEW P, NEW S, NEW Q, NEW R, NEW p, NEW i, Unlinked(P, S, Q, R, p, i)
  PROVE  \A r \in P :
           /\ IsInjective(R[r]) /\ ToSet(R[r]) \subseteq S
           /\ \A x \in S : x \in ToSet(R[r]) <=> x \in ToSet(Q[r]) /\ x # Q[p][i]
<1> SUFFICES ASSUME NEW r \in P
             PROVE  /\ IsInjective(R[r]) /\ ToSet(R[r]) \subseteq S
                    /\ \A x \in S : x \in ToSet(R[r]) <=> x \in ToSet(Q[r]) /\ x # Q[p][i]
  OBVIOUS
<1>0. /\ Q \in [P -> Seq(S)] /\ p \in P /\ i \in DOMAIN Q[p]
      /\ IsInjective(Q[r]) /\ IsInjective(Q[p]) /\ Q[p] \in Seq(S)
      /\ r # p => Q[p][i] \notin ToSet(Q[r])
      /\ R = [Q EXCEPT ![p] = RemoveAt(@, i)]
  BY DEF Unlinked, Family
<1>1. CASE r = p
  <2>1. R[r] = RemoveAt(Q[p], i)
    BY <1>0, <1>1
  <2>2. R[r] \in Seq(S) /\ ToSet(R[r]) = ToSet(Q[p]) \ {Q[p][i]} /\ IsInjective(R[r])
    BY <1>0, <2>1, RemoveFromQueue
  <2>3. QED BY <1>0, <1>1, <2>2, QueueMembers
<1>2. CASE r # p
  <2>1. R[r] = Q[r] /\ Q[p][i] \notin ToSet(Q[r])
    BY <1>0, <1>2
  <2>2. QED BY <1>0, <2>1, QueueMembers
<1>3. QED BY <1>1, <1>2
------------------------------------------------------------------------------
\* The order of the natural numbers.
Below == {ss \in Nat \X Nat : ss[1] < ss[2]}

\* A set of natural numbers that is not empty has a least one.
LEMMA Least ==
  ASSUME NEW S \in SUBSET Nat, S # {}
  PROVE  \E m \in S : \A n \in S : m <= n
<1>1. IsWellFoundedOn(Below, Nat)
  BY NatLessThanWellFounded, Zenon DEF OpToRel, Below
<1>2. PICK c \in S : \A d \in S : ~(<<d, c>> \in Below)
  BY <1>1, WFMin
<1>3. \A n, m \in Nat : n < m => <<n, m>> \in Below
  BY DEF Below
<1>4. ASSUME NEW d \in S PROVE c <= d
  <2>1. c \in Nat /\ d \in Nat /\ ~(d < c)
    BY <1>2, <1>3
  <2>2. QED BY <2>1
<1>5. QED BY <1>4
===============================================================================
