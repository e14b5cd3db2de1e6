--------------------------- MODULE SchedulerAging ---------------------------
(* Aging is bounded by the number of threads, for any number of processors,  *)
(* threads and priorities, whoever uses the services.                        *)
EXTENDS SchedulerProofs

-----------------------------------------------------------------------------
(* The order of the entries.                                                 *)

\* Linking another entry at the bottom puts nothing in front of t.
LEMMA AppendKeepsOrder ==
  ASSUME NEW S, NEW q \in Seq(S), NEW e \in S, NEW t, t # e, NEW u, Before(Append(q, e), u, t)
  PROVE  Before(q, u, t)
<1>1. /\ Len(Append(q, e)) = Len(q) + 1 /\ Append(q, e) \in Seq(S)
      /\ \A i \in 1 .. Len(q) : Append(q, e)[i] = q[i]
      /\ Append(q, e)[Len(q) + 1] = e
  OBVIOUS
<1>2. DOMAIN q = 1 .. Len(q) /\ DOMAIN Append(q, e) = 1 .. Len(q) + 1 /\ Len(q) \in Nat
  BY <1>1
<1>3. PICK i, j \in 1 .. Len(q) + 1 : i < j /\ Append(q, e)[i] = u /\ Append(q, e)[j] = t
  BY <1>2 DEF Before
<1>4. i \in 1 .. Len(q) /\ j \in 1 .. Len(q)
  BY <1>1, <1>2, <1>3
<1>5. q[i] = u /\ q[j] = t
  BY <1>1, <1>3, <1>4
<1>6. QED BY <1>2, <1>3, <1>4, <1>5 DEF Before

\* Nor does unlinking an entry.
LEMMA RemoveKeepsOrder ==
  ASSUME NEW S, NEW q \in Seq(S), NEW i \in DOMAIN q, NEW t, NEW u, Before(RemoveAt(q, i), u, t)
  PROVE  Before(q, u, t)
<1> DEFINE r == RemoveAt(q, i)
<1>1. /\ r \in Seq(S) /\ Len(r) = Len(q) - 1
      /\ \A j \in 1 .. Len(q) - 1 : r[j] = IF j < i THEN q[j] ELSE q[j + 1]
  BY RemoveShifts
<1>2. Before(r, u, t)
  OBVIOUS
<1> HIDE DEF r
<1>3. DOMAIN q = 1 .. Len(q) /\ Len(q) \in Nat /\ DOMAIN r = 1 .. Len(q) - 1 /\ i \in 1 .. Len(q)
  BY <1>1
<1>4. PICK j, k \in 1 .. Len(q) - 1 : j < k /\ r[j] = u /\ r[k] = t
  BY <1>2, <1>3 DEF Before
<1> DEFINE at(n) == IF n < i THEN n ELSE n + 1
<1>5. q[at(j)] = u /\ q[at(k)] = t
  BY <1>1, <1>4
<1>6. at(j) \in DOMAIN q /\ at(k) \in DOMAIN q /\ at(j) < at(k)
  BY <1>3, <1>4
<1>7. QED BY <1>5, <1>6 DEF Before
-----------------------------------------------------------------------------
(* The scan of the ready queue.                                              *)

\* Max chooses the greatest of some of the first numbers.
LEMMA MaxOfSome ==
  ASSUME NEW n \in Nat, NEW s \in SUBSET (1 .. n), s # {}
  PROVE  Max(s) \in s /\ \A i \in s : i <= Max(s)
<1>1. {n - i : i \in s} \in SUBSET Nat /\ {n - i : i \in s} # {}
  <2>1. \A i \in s : n - i \in Nat
    OBVIOUS
  <2>2. QED BY <2>1
<1>2. PICK m \in s : \A i \in s : n - m <= n - i
  <2>1. PICK k \in {n - i : i \in s} : \A l \in {n - i : i \in s} : k <= l
    BY <1>1, Least
  <2>2. PICK m \in s : k = n - m
    BY <2>1
  <2>3. QED BY <2>1, <2>2
<1>3. \A i \in s : m >= i
  <2> TAKE i \in s
  <2>1. m \in Int /\ i \in Int /\ n - m <= n - i
    BY <1>2
  <2>2. QED BY <2>1
<1>4. Max(s) \in s /\ \A i \in s : Max(s) >= i
  <2>1. \E x \in s : \A y \in s : x >= y
    BY <1>3
  <2>2. QED BY <2>1, Zenon DEF Max
<1>5. \A i \in s : i \in Int
  OBVIOUS
<1>6. \A i, k \in Int : i >= k => k <= i
  OBVIOUS
<1>7. QED BY <1>4, <1>5, <1>6

\* The scan of a queue, the best of the first entries from those of fewer.
Better(d, cur, b, t) == IF d[t] > d[b] + (IF b = cur THEN 0 ELSE 1) THEN t ELSE b
IsScan(g, n, c, d, cur, q) ==
  g = [s \in SUBSET (1 .. n) |->
         IF s = {} THEN c ELSE Better(d, cur, g[s \ {Max(s)}], q[Max(s)])]

\* There is such a scan, for a queue of any length.
LEMMA ScanExists ==
  ASSUME NEW c, NEW d, NEW cur, NEW q, NEW n \in Nat
  PROVE  \E g : IsScan(g, n, c, d, cur, q)
<1> DEFINE Bad == {m \in Nat : ~\E g : IsScan(g, m, c, d, cur, q)}
<1> SUFFICES ASSUME Bad # {} PROVE FALSE
  OBVIOUS
<1>1. PICK m \in Bad : \A k \in Bad : m <= k
  BY Least, Bad \in SUBSET Nat
<1>2. CASE m = 0
  <2> DEFINE g == [s \in SUBSET (1 .. 0) |-> c]
  <2>1. \A s \in SUBSET (1 .. 0) : s = {}
    OBVIOUS
  <2>2. g = [s \in SUBSET (1 .. 0) |->
               IF s = {} THEN c ELSE Better(d, cur, g[s \ {Max(s)}], q[Max(s)])]
    BY <2>1
  <2>3. IsScan(g, 0, c, d, cur, q)
    BY <2>2 DEF IsScan
  <2>4. QED BY <1>1, <1>2, <2>3
<1>3. CASE m # 0
  <2>1. m - 1 \in Nat /\ m - 1 < m
    BY <1>1, <1>3
  <2>2. m - 1 \notin Bad
    BY <1>1, <2>1
  <2>3. PICK h : IsScan(h, m - 1, c, d, cur, q)
    BY <2>1, <2>2
  <2> DEFINE g == [s \in SUBSET (1 .. m) |->
                     IF s \in SUBSET (1 .. m - 1) THEN h[s]
                     ELSE Better(d, cur, h[s \ {Max(s)}], q[Max(s)])]
  <2>4. ASSUME NEW s \in SUBSET (1 .. m)
        PROVE  g[s] = IF s = {} THEN c ELSE Better(d, cur, g[s \ {Max(s)}], q[Max(s)])
    <3>1. CASE s = {}
      <4>1. s \in SUBSET (1 .. m - 1)
        BY <3>1
      <4>2. g[s] = h[s]
        BY <4>1
      <4>3. h[s] = c
        BY <2>3, <3>1, <4>1 DEF IsScan
      <4>4. QED BY <3>1, <4>2, <4>3
    <3>2. CASE s # {}
      <4>1. Max(s) \in s /\ \A i \in s : i <= Max(s)
        BY <3>2, MaxOfSome, m \in Nat
      <4>2. s \ {Max(s)} \in SUBSET (1 .. m - 1)
        <5>1. ASSUME NEW i \in s \ {Max(s)} PROVE i \in 1 .. m - 1
          <6>1. i \in 1 .. m /\ Max(s) \in 1 .. m /\ i <= Max(s) /\ i # Max(s)
            BY <4>1
          <6>2. QED BY <6>1
        <5>2. QED BY <5>1
      <4>3. s \ {Max(s)} \in SUBSET (1 .. m)
        OBVIOUS
      <4>4. g[s \ {Max(s)}] = h[s \ {Max(s)}]
        BY <4>2, <4>3
      <4>5. CASE s \in SUBSET (1 .. m - 1)
        <5>1. g[s] = h[s]
          BY <4>5
        <5>2. h[s] = Better(d, cur, h[s \ {Max(s)}], q[Max(s)])
          BY <2>3, <3>2, <4>5 DEF IsScan
        <5>3. QED BY <3>2, <4>4, <5>1, <5>2
      <4>6. CASE s \notin SUBSET (1 .. m - 1)
        <5>1. g[s] = Better(d, cur, h[s \ {Max(s)}], q[Max(s)])
          BY <4>6
        <5>2. QED BY <3>2, <4>4, <5>1
      <4>7. QED BY <4>5, <4>6
    <3>3. QED BY <3>1, <3>2
  <2>5. IsScan(g, m, c, d, cur, q)
    <3>1. g = [s \in SUBSET (1 .. m) |-> g[s]]
      OBVIOUS
    <3> HIDE DEF g
    <3>2. QED BY <2>4, <3>1 DEF IsScan
  <2>6. QED BY <1>1, <2>5
<1>4. QED BY <1>2, <1>3

\* What the scan finds: an entry whose priority nobody exceeds by more than he has
\* just aged; it is the current thread, or nobody in front of it is as high.
Found(q, d, cur, b) ==
  /\ \A j \in 1 .. Len(q) : d[q[j]] <= d[b] + (IF b = cur THEN 0 ELSE 1)
  /\ b = cur \/ \E m \in 1 .. Len(q) : b = q[m] /\ \A j \in 1 .. m - 1 : d[q[j]] < d[b]

\* That is so for a queue of any length.
LEMMA ScanFinds ==
  ASSUME NEW S, NEW q \in Seq(S), q # <<>>, NEW c \in S, NEW d \in [S -> Nat], NEW cur,
         c = cur \/ (cur \notin ToSet(q) /\ c = q[1]),
         NEW g, IsScan(g, Len(q), c, d, cur, q), NEW b, b = g[1 .. Len(q)]
  PROVE  Found(q, d, cur, b)
<1> DEFINE n == Len(q)
           J(e, i) ==
             /\ e \in S
             /\ \A j \in 1 .. i : d[q[j]] <= d[e] + (IF e = cur THEN 0 ELSE 1)
             /\ e = cur \/ \E m \in 1 .. n : e = q[m] /\ \A j \in 1 .. m - 1 : d[q[j]] < d[e]
             /\ e # cur => cur \notin ToSet(q) \/ d[cur] < d[e]
           Bad == {i \in 0 .. n : ~J(g[1 .. i], i)}
<1>1. /\ n \in Nat /\ n > 0 /\ DOMAIN q = 1 .. n
      /\ \A j \in 1 .. n : q[j] \in S /\ q[j] \in ToSet(q) /\ d[q[j]] \in Nat
  BY DEF ToSet
<1>2. g[1 .. 0] = c
  <2>1. 1 .. 0 = {} /\ {} \in SUBSET (1 .. n)
    OBVIOUS
  <2>2. g[{}] = c
    BY <2>1 DEF IsScan
  <2>3. QED BY <2>1, <2>2
<1>3. J(c, 0)
  <2>1. 1 .. 0 = {} /\ 1 .. 1 - 1 = {}
    OBVIOUS
  <2>2. 1 \in 1 .. n
    BY <1>1
  <2>3. CASE c = cur
    BY <2>1, <2>3
  <2>4. CASE cur \notin ToSet(q) /\ c = q[1]
    <3>1. \A j \in 1 .. 1 - 1 : d[q[j]] < d[c]
      BY <2>1
    <3>2. QED BY <2>1, <2>2, <2>4, <3>1
  <2>5. QED BY <2>3, <2>4
<1>4. ASSUME NEW i \in 1 .. n, NEW e, J(e, i - 1) PROVE J(Better(d, cur, e, q[i]), i)
  <2>1. e \in S /\ d[e] \in Nat /\ q[i] \in S /\ d[q[i]] \in Nat /\ q[i] \in ToSet(q)
    BY <1>1, <1>4
  <2>2. \A j \in 1 .. i : j \in 1 .. i - 1 \/ j = i
    BY <1>1
  <2>3. \A j \in 1 .. i : j \in 1 .. n
    BY <1>1
  <2>4. CASE d[q[i]] > d[e] + (IF e = cur THEN 0 ELSE 1)
    <3>1. Better(d, cur, e, q[i]) = q[i]
      BY <2>4 DEF Better
    <3>2. q[i] # cur
      <4>1. d[q[i]] > d[e]
        BY <2>1, <2>4
      <4>2. CASE e = cur
        BY <2>1, <4>1, <4>2
      <4>3. CASE e # cur
        BY <1>4, <2>1, <4>1, <4>3
      <4>4. QED BY <4>2, <4>3
    <3>3. \A j \in 1 .. i - 1 : d[q[j]] < d[q[i]]
      BY <1>1, <1>4, <2>1, <2>3, <2>4
    <3>4. \A j \in 1 .. i : d[q[j]] <= d[q[i]] + 1
      BY SMTT(30), <1>1, <2>1, <2>2, <2>3, <3>3
    <3>5. cur \notin ToSet(q) \/ d[cur] < d[q[i]]
      <4>1. CASE e = cur
        BY <2>1, <2>4, <4>1
      <4>2. CASE e # cur /\ cur \in ToSet(q)
        <5>1. PICK j \in 1 .. n : cur = q[j]
          BY <1>1, <4>2 DEF ToSet
        <5>2. d[cur] < d[e] /\ d[cur] \in Nat
          BY <1>1, <1>4, <4>2, <5>1
        <5>3. QED BY <2>1, <2>4, <5>2
      <4>3. QED BY <4>1, <4>2
    <3>6. QED BY <2>1, <3>1, <3>2, <3>3, <3>4, <3>5
  <2>5. CASE ~(d[q[i]] > d[e] + (IF e = cur THEN 0 ELSE 1))
    <3>1. Better(d, cur, e, q[i]) = e
      BY <2>5 DEF Better
    <3>2. d[q[i]] <= d[e] + (IF e = cur THEN 0 ELSE 1)
      BY <2>1, <2>5
    <3>3. \A j \in 1 .. i : d[q[j]] <= d[e] + (IF e = cur THEN 0 ELSE 1)
      BY <1>4, <2>2, <3>2
    <3>4. QED BY <1>4, <3>1, <3>3
  <2>6. QED BY <2>4, <2>5
<1>5. ASSUME NEW i \in 1 .. n PROVE g[1 .. i] = Better(d, cur, g[1 .. i - 1], q[i])
  <2>1. i \in Nat /\ 1 .. i \in SUBSET (1 .. n) /\ i \in 1 .. i /\ \A j \in 1 .. i : j <= i
    BY <1>1
  <2>2. Max(1 .. i) \in 1 .. i /\ \A j \in 1 .. i : j <= Max(1 .. i)
    BY <2>1, MaxOfSome
  <2>3. Max(1 .. i) = i
    <3>1. Max(1 .. i) \in Nat /\ i <= Max(1 .. i) /\ Max(1 .. i) <= i
      BY <2>1, <2>2
    <3>2. QED BY <2>1, <3>1
  <2>4. (1 .. i) \ {i} = 1 .. i - 1
    BY <2>1
  <2>5. 1 .. i # {}
    BY <2>1
  <2>6. g[1 .. i] = Better(d, cur, g[(1 .. i) \ {Max(1 .. i)}], q[Max(1 .. i)])
    BY <2>1, <2>5 DEF IsScan
  <2>7. QED BY <2>3, <2>4, <2>6
<1>6. Bad = {}
  <2> SUFFICES ASSUME Bad # {} PROVE FALSE
    OBVIOUS
  <2>1. Bad \in SUBSET Nat
    BY <1>1
  <2>2. PICK i \in Bad : \A k \in Bad : i <= k
    <3> HIDE DEF Bad
    <3>1. QED BY <2>1, Least
  <2> HIDE DEF J
  <2>3. i # 0
    BY <1>2, <1>3, <2>2
  <2>4. i \in 1 .. n /\ i - 1 \in 0 .. n /\ i - 1 < i
    BY <1>1, <2>2, <2>3
  <2>5. i - 1 \notin Bad
    <3> HIDE DEF Bad
    <3>1. i \in Nat /\ i - 1 \in Nat /\ ~(i <= i - 1)
      BY <1>1, <2>4
    <3>2. QED BY <2>2, <3>1
  <2>6. J(g[1 .. i - 1], i - 1)
    BY <2>4, <2>5
  <2>7. J(g[1 .. i], i)
    BY <1>4, <1>5, <2>4, <2>6
  <2>8. QED BY <2>2, <2>7
<1>7. J(g[1 .. n], n)
  <2>1. n \in 0 .. n
    BY <1>1
  <2> HIDE DEF J
  <2>2. QED BY <1>6, <2>1
<1>8. QED BY <1>7 DEF Found
-----------------------------------------------------------------------------
(* What a step may do to the queues, the priorities and the current threads. *)

Kept == UNCHANGED <<threadQueue, ready>>

\* The current thread of p leaves the queue.
Retires(p, t) == cpu[p] = "Run" /\ currentThread[p] = t /\ ScUnlinkReadyThread(p, t)

\* A thread that has not aged is linked in the queue of its processor.
Enters(t) ==
  /\ ~ready[t] /\ life[t] # "free" /\ dynamicPriority'[t] <= Highest
  /\ threadQueue' = [threadQueue EXCEPT ![processor[t]] = Append(@, t)]
  /\ ready' = [ready EXCEPT ![t] = TRUE]

QueueStep ==
  \/ Kept
  \/ \E p \in Processors, t \in Threads : Retires(p, t)
  \/ \E t \in Threads : Enters(t)

\* Nobody ages.
Calm ==
  \A t \in Threads :
    /\ dynamicPriority'[t] = dynamicPriority[t] \/ dynamicPriority'[t] <= Highest
    /\ staticPriority'[t] <= Highest

\* The threads that become current ones are created and have not aged.
CurrentStays ==
  \A p \in Processors :
    \/ currentThread'[p] \in {currentThread[p], Idle}
    \/ /\ currentThread'[p] \in Threads /\ life[currentThread'[p]] # "free"
       /\ dynamicPriority'[currentThread'[p]] <= Highest

\* A chosen thread stays chosen until it is linked, and no other one is chosen.
ChosenStays ==
  \A p \in Processors :
    /\ cpu[p] = "Link" /\ ~LinkChosen(p) => cpu'[p] = "Link" /\ chosen'[p] = chosen[p]
    /\ cpu'[p] = "Link" => cpu[p] = "Link" /\ chosen'[p] = chosen[p]

CalmStep == QueueStep /\ Calm /\ CurrentStays /\ ChosenStays

\* There is a highest priority when finitely many are given.
LEMMA HighestPriority ==
  IsFiniteSet(StaticPriorities) =>
    Highest \in StaticPriorities /\ \A n \in StaticPriorities : n <= Highest
<1> SUFFICES ASSUME IsFiniteSet(StaticPriorities)
             PROVE  \E m \in StaticPriorities : \A n \in StaticPriorities : n <= m
  BY DEF Highest, MaxOf
<1> DEFINE Bad == {T \in SUBSET StaticPriorities : T # {} /\ ~\E m \in T : \A n \in T : n <= m}
<1> SUFFICES ASSUME Bad # {} PROVE FALSE
  BY PrioritiesAssumption
<1>1. PICK T \in Bad : \A U \in Bad : ~(<<U, T>> \in StrictSubsetOrdering(StaticPriorities))
  <2>1. Bad \subseteq FiniteSubsetsOf(StaticPriorities)
    BY FS_Subset DEF FiniteSubsetsOf
  <2>2. QED BY <2>1, FS_StrictSubsetOrderingWellFounded, WFMin
<1>2. PICK x \in T : TRUE
  BY <1>1
<1>3. T \ {x} \notin Bad
  BY <1>1, <1>2 DEF StrictSubsetOrdering
<1>4. QED
  BY <1>1, <1>2, <1>3, PrioritiesAssumption

\* Highest is a number, and the priorities given to threads are at most that.
LEMMA GivenPriorities ==
  ASSUME IsFiniteSet(StaticPriorities)
  PROVE  Highest \in Nat /\ \A s \in StaticPriorities : s \in Nat /\ s <= Highest
BY HighestPriority, PrioritiesAssumption

\* A thread that exists goes on existing, on its processor.
LEMMA CreatedStay ==
  ASSUME TypeInv, [Next]_vars, NEW t \in Threads, life[t] # "free"
  PROVE  life'[t] # "free" /\ processor'[t] = processor[t]
<1> USE DEF births, TypeInv, TypeOK
<1>1. CASE UNCHANGED vars
  BY <1>1 DEF vars
<1>2. ASSUME NEW p \in Processors,
             \/ TimerInterrupt(p) \/ ScheduleIdle(p) \/ ScheduleSleeper(p) \/ ScheduleReady(p)
             \/ LinkChosen(p) \/ SetSuspended(p) \/ IrqExit(p) \/ IrqResumeLocal(p)
             \/ IrqResumeRemote(p) \/ KiRemoteExecuteHandler(p)
             \/ \E u \in Threads : IrqComplete(p, u)
             \/ \E done \in SUBSET Threads : NosIrqHandler(p, done)
      PROVE  life'[t] # "free" /\ processor'[t] = processor[t]
  BY <1>2 DEF TimerInterrupt, ScheduleIdle, ScheduleSleeper, ScheduleReady, LinkChosen,
              SetSuspended, IrqExit, IrqResumeLocal, IrqResumeRemote, KiRemoteExecuteHandler,
              IrqComplete, NosIrqHandler
<1>3. ASSUME NEW p \in Processors, NEW u \in Threads, Pending(p, u)
      PROVE  life'[t] # "free" /\ processor'[t] = processor[t]
  BY <1>3 DEF Pending, ExecuteLocally, AcquireProcessorControl, KeRemoteExecute
<1>4. ASSUME NEW p \in Processors, NEW u \in Threads, Call(p, u)
      PROVE  life'[t] # "free" /\ processor'[t] = processor[t]
  <2>1. CASE Sleep(p, u) \/ KeSuspendThread(p, u)
    BY <2>1 DEF Sleep, KeSuspendThread
  <2>2. CASE KeExitThread(p, u)
    BY <2>2 DEF KeExitThread
  <2>3. CASE \E v \in Threads, s \in StaticPriorities : KeCreateThread(p, u, v, s)
    BY <2>3 DEF KeCreateThread
  <2>4. CASE \/ \E s \in StaticPriorities : KeSetOwnPriority(p, u, s)
             \/ \E v \in Threads, s \in StaticPriorities : KeSetPriority(p, u, v, s)
             \/ \E v \in Threads : KeResumeThread(p, u, v)
    BY <2>4 DEF KeSetOwnPriority, KeSetPriority, KeResumeThread
  <2>5. QED BY <1>4, <2>1, <2>2, <2>3, <2>4 DEF Call
<1>5. ASSUME NEW u \in Threads, KeTimerTick(u)
      PROVE  life'[t] # "free" /\ processor'[t] = processor[t]
  BY <1>5 DEF KeTimerTick
<1>6. QED
  BY <1>1, <1>2, <1>3, <1>4, <1>5 DEF Next, Kernel, Scheduling, Interrupt

\* A thread is not old while it runs or is in no queue, unless it was just chosen.
LEMMA NotOld ==
  ASSUME TypeInv, AgingInv, IsFiniteSet(StaticPriorities), NEW t \in Threads,
         ~ready[t] \/ currentThread[processor[t]] = t, cpu[processor[t]] # "Link"
  PROVE  dynamicPriority[t] <= Highest /\ staticPriority[t] <= Highest
<1>1. ~Linking(t)
  BY DEF Linking, AgingInv, HandledAreCreated
<1>2. Highest \in Nat /\ dynamicPriority[t] \in Nat
  BY GivenPriorities DEF TypeInv, TypeOK
<1>3. QED BY <1>1, <1>2 DEF AgingInv, OldAreWaiting

\* A routine links a thread that has not aged, or does nothing to the queues.
LEMMA RoutineEnters ==
  ASSUME TypeInv, AgingInv, IsFiniteSet(StaticPriorities),
         NEW p \in Processors, NEW r, NEW m, r.thread \in Threads, life[r.thread] # "free",
         processor[r.thread] = p, cpu[p] # "Link", RunRoutine(p, r, m), UNCHANGED dynamicPriority
  PROVE  QueueStep
<1>1. CASE ready[r.thread]
  BY <1>1 DEF RunRoutine, ScBug0, queues, flags, QueueStep, Kept
<1>2. CASE ~ready[r.thread]
  <2>1. dynamicPriority[r.thread] <= Highest
    BY <1>2, NotOld
  <2>2. Enters(r.thread)
    BY <1>2, <2>1 DEF RunRoutine, Enters
  <2>3. QED BY <2>2 DEF QueueStep
<1>3. QED BY <1>1, <1>2

\* When no priority but static ones are written and none of them is above the
\* highest, nobody ages.
LEMMA CalmWhenSame ==
  ASSUME AgingInv, UNCHANGED priorities
  PROVE  Calm
BY DEF AgingInv, OldAreWaiting, priorities, Calm

\* A processor that is not linking a thread does not disturb those that are.
LEMMA ChosenElsewhere ==
  ASSUME TypeInv, NEW p \in Processors, cpu[p] # "Link",
         NEW m, m # "Link", NEW x,
         cpu' = [cpu EXCEPT ![p] = m] \/ cpu' = [cpu EXCEPT ![p] = "SC_BUG0"] \/ cpu' = cpu,
         chosen' = [chosen EXCEPT ![p] = x] \/ chosen' = chosen
  PROVE  ChosenStays
<1>1. /\ cpu \in [Processors -> Modes] /\ chosen \in [Processors -> Threads \cup {None}]
  BY DEF TypeInv, TypeOK
<1>2. cpu'[p] # "Link"
  BY <1>1
<1>3. \A q \in Processors \ {p} : cpu'[q] = cpu[q] /\ chosen'[q] = chosen[q]
  BY <1>1
<1>4. QED BY <1>2, <1>3 DEF ChosenStays

\* Every step but the selection of a thread is calm.
LEMMA StepIsCalm ==
  ASSUME TypeInv, AgingInv, IsFiniteSet(StaticPriorities), [Next]_vars
  PROVE  CalmStep \/ \E p \in Processors : ScheduleReady(p)
<1>0. /\ Highest \in Nat /\ \A s \in StaticPriorities : s \in Nat /\ s <= Highest
      /\ \A t \in Threads : staticPriority[t] <= Highest /\ dynamicPriority[t] \in Nat
      /\ staticPriority \in [Threads -> Nat] /\ dynamicPriority \in [Threads -> Nat]
      /\ cpu \in [Processors -> Modes]
      /\ currentThread \in [Processors -> Threads \cup {Idle}]
      /\ chosen \in [Processors -> Threads \cup {None}]
      /\ processor \in [Threads -> Processors]
  BY GivenPriorities DEF TypeInv, TypeOK, AgingInv, OldAreWaiting
<1>1. CASE UNCHANGED vars
  BY <1>1, CalmWhenSame DEF vars, queues, flags, priorities, CalmStep, QueueStep, Kept,
                            CurrentStays, ChosenStays
<1>2. ASSUME NEW p \in Processors, ScheduleSleeper(p)
      PROVE  CalmStep
  <2>1. PICK i \in DOMAIN sleepQueue[p] : WakeSleeper(p, i)
    BY <1>2 DEF ScheduleSleeper
  <2> DEFINE t == sleepQueue[p][i]
  <2>2. /\ t \in Threads /\ t \in ToSet(sleepQueue[p]) /\ life[t] # "free" /\ processor[t] = p
    <3>1. t \in Threads /\ t \in ToSet(sleepQueue[p])
      BY DEF TypeInv, TypeOK, ToSet
    <3>2. QED BY <3>1 DEF AgingInv, HandledAreCreated
  <2>3. cpu[p] = "Schedule" /\ chosen' = chosen /\ staticPriority' = staticPriority
    BY <1>2 DEF ScheduleSleeper
  <2>4. CASE ready[t]
    <3>1. ScBug0(p) /\ UNCHANGED <<currentThread, dynamicPriority>>
      BY <2>1, <2>4 DEF WakeSleeper
    <3>2. ChosenStays
      BY <2>3, <3>1, ChosenElsewhere DEF ScBug0, Goto
    <3>3. QED
      BY <2>3, <3>1, <3>2, CalmWhenSame
      DEF CalmStep, QueueStep, Kept, ScBug0, queues, flags, priorities, CurrentStays
  <2>5. CASE ~ready[t]
    <3>1. /\ threadQueue' = [threadQueue EXCEPT ![p] = Append(@, t)]
          /\ ready' = [ready EXCEPT ![t] = TRUE]
          /\ dynamicPriority' = [dynamicPriority EXCEPT ![t] = staticPriority[t]]
          /\ currentThread' = [currentThread EXCEPT ![p] = t]
          /\ cpu' = [cpu EXCEPT ![p] = "Run"]
      BY <2>1, <2>5 DEF WakeSleeper, Goto
    <3> HIDE DEF t
    <3>2. ChosenStays
      BY <2>3, <3>1, ChosenElsewhere
    <3>3. dynamicPriority'[t] <= Highest /\ Enters(t)
      BY <1>0, <2>2, <2>5, <3>1 DEF Enters
    <3>4. Calm
      BY <1>0, <2>2, <2>3, <3>1 DEF Calm
    <3>5. CurrentStays
      BY <1>0, <2>2, <3>1, <3>3 DEF CurrentStays
    <3>6. QED BY <2>2, <3>2, <3>3, <3>4, <3>5 DEF CalmStep, QueueStep
  <2>6. QED BY <2>4, <2>5
<1>3. ASSUME NEW p \in Processors, LinkChosen(p)
      PROVE  CalmStep
  <2> DEFINE t == chosen[p]
  <2>1. /\ cpu[p] = "Link" /\ t \in Threads /\ life[t] # "free" /\ processor[t] = p
    BY <1>3 DEF LinkChosen, TypeInv, AgingInv, HandledAreCreated
  <2>2. /\ dynamicPriority' = [dynamicPriority EXCEPT ![t] = staticPriority[t]]
        /\ staticPriority' = staticPriority
        /\ currentThread' = [currentThread EXCEPT ![p] = t]
        /\ chosen' = [chosen EXCEPT ![p] = None]
        /\ ScLinkReadyThreadBottom(p, t, "Run")
    BY <1>3 DEF LinkChosen
  <2>3. cpu' = [cpu EXCEPT ![p] = "Run"] \/ cpu' = [cpu EXCEPT ![p] = "SC_BUG0"]
    BY <2>2 DEF ScLinkReadyThreadBottom, ScBug0, Goto
  <2> HIDE DEF t
  <2>4. dynamicPriority'[t] <= Highest
    BY <1>0, <2>1, <2>2
  <2>5. QueueStep
    <3>1. CASE ready[t]
      BY <2>2, <3>1 DEF ScLinkReadyThreadBottom, ScBug0, queues, flags, QueueStep, Kept
    <3>2. CASE ~ready[t]
      <4>1. Enters(t)
        BY <2>1, <2>2, <2>4, <3>2 DEF ScLinkReadyThreadBottom, Enters
      <4>2. QED BY <2>1, <4>1 DEF QueueStep
    <3>3. QED BY <3>1, <3>2
  <2>6. Calm
    BY <1>0, <2>1, <2>2 DEF Calm
  <2>7. CurrentStays
    BY <1>0, <2>1, <2>2, <2>4 DEF CurrentStays
  <2>8. ChosenStays
    <3>1. cpu'[p] # "Link"
      BY <1>0, <2>3
    <3>2. \A q \in Processors \ {p} : cpu'[q] = cpu[q] /\ chosen'[q] = chosen[q]
      BY <1>0, <2>2, <2>3
    <3>3. QED BY <1>3, <3>1, <3>2 DEF ChosenStays
  <2>9. QED BY <2>5, <2>6, <2>7, <2>8 DEF CalmStep
<1>4. ASSUME NEW p \in Processors,
             \/ TimerInterrupt(p) \/ ScheduleIdle(p) \/ SetSuspended(p)
             \/ IrqExit(p) \/ IrqResumeRemote(p)
             \/ \E t \in Threads : IrqComplete(p, t)
             \/ \E done \in SUBSET Threads : NosIrqHandler(p, done)
      PROVE  CalmStep
  <2> USE DEF TimerInterrupt, ScheduleIdle, SetSuspended, IrqExit, IrqResumeRemote, IrqComplete,
              NosIrqHandler
  <2>1. QueueStep
    BY <1>4 DEF queues, flags, QueueStep, Kept
  <2>2. Calm
    BY <1>4, CalmWhenSame
  <2>3. CurrentStays
    BY <1>0, <1>4 DEF CurrentStays
  <2>4. cpu[p] # "Link"
    BY <1>4
  <2>5. \E m : m # "Link" /\ cpu' = [cpu EXCEPT ![p] = m]
    BY <1>4 DEF Goto
  <2>6. chosen' = chosen \/ \E x : chosen' = [chosen EXCEPT ![p] = x]
    BY <1>4
  <2>7. ChosenStays
    BY <2>4, <2>5, <2>6, ChosenElsewhere
  <2>8. QED BY <2>1, <2>2, <2>3, <2>7 DEF CalmStep
<1>5. ASSUME NEW p \in Processors, NEW r, NEW m, NEW x,
             RunRoutine(p, r, m), m # "Link", cpu[p] # "Link",
             r.thread \in Threads, life[r.thread] # "free", processor[r.thread] = p,
             chosen' = chosen \/ chosen' = [chosen EXCEPT ![p] = x],
             UNCHANGED <<currentThread, priorities>>
      PROVE  CalmStep
  <2>1. QueueStep
    BY <1>5, RoutineEnters DEF priorities
  <2>2. Calm
    BY <1>5, CalmWhenSame
  <2>3. cpu' = [cpu EXCEPT ![p] = m] \/ cpu' = [cpu EXCEPT ![p] = "SC_BUG0"]
    BY <1>5 DEF RunRoutine, ScBug0, Goto
  <2>4. ChosenStays
    BY <1>5, <2>3, ChosenElsewhere
  <2>5. QED BY <1>5, <2>1, <2>2, <2>4 DEF CalmStep, CurrentStays
<1>6. ASSUME NEW p \in Processors, IrqResumeLocal(p)
      PROVE  CalmStep
  <2> DEFINE r == [routine |-> "KiThreadResumeRoutine", thread |-> chosen[p]]
  <2>1. /\ chosen[p] \in Threads /\ suspended[chosen[p]] /\ processor[chosen[p]] = p
        /\ cpu[p] = "Resume" /\ RunRoutine(p, r, "Irq")
        /\ chosen' = [chosen EXCEPT ![p] = None] /\ UNCHANGED <<currentThread, priorities>>
    BY <1>6 DEF IrqResumeLocal, TypeInv
  <2>2. life[chosen[p]] # "free"
    BY <2>1 DEF AgingInv, HandledAreCreated
  <2>3. r.thread = chosen[p]
    OBVIOUS
  <2> HIDE DEF r
  <2>4. QED BY <1>5, <2>1, <2>2, <2>3
<1>7. ASSUME NEW p \in Processors, KiRemoteExecuteHandler(p)
      PROVE  CalmStep
  <2>1. /\ remoteExecute[p] # None /\ cpu[p] = "Run" /\ RunRoutine(p, remoteExecute[p], "Schedule")
        /\ chosen' = chosen /\ UNCHANGED <<currentThread, priorities>>
    BY <1>7 DEF KiRemoteExecuteHandler
  <2>2. remoteExecute[p].thread \in Threads
    BY <2>1 DEF TypeInv, TypeOK, Requests
  <2>3. life[remoteExecute[p].thread] # "free" /\ processor[remoteExecute[p].thread] = p
    BY <2>1 DEF AgingInv, HandledAreCreated
  <2>4. QED BY <1>5, <2>1, <2>2, <2>3
<1>8. ASSUME NEW p \in Processors, NEW t \in Threads, Pending(p, t)
      PROVE  CalmStep
  <2>1. CASE ExecuteLocally(p, t)
    <3>1. /\ cpu[p] = "Run" /\ pc[t] # "Body" /\ processor[request[t].thread] = p
          /\ RunRoutine(p, request[t], "Run")
          /\ chosen' = chosen /\ UNCHANGED <<currentThread, priorities>>
      BY <2>1 DEF ExecuteLocally, Running
    <3>2. request[t].thread \in Threads
      BY <3>1 DEF TypeInv, TypeOK, Requests
    <3>3. life[request[t].thread] # "free"
      BY <3>1 DEF AgingInv, HandledAreCreated
    <3>4. QED BY <1>5, <3>1, <3>2, <3>3
  <2>2. CASE AcquireProcessorControl(p, t) \/ KeRemoteExecute(p, t)
    BY <2>2, CalmWhenSame DEF AcquireProcessorControl, KeRemoteExecute, CalmStep, QueueStep, Kept,
                              queues, flags, CurrentStays, ChosenStays
  <2>3. QED BY <1>8, <2>1, <2>2 DEF Pending
<1>9. ASSUME NEW p \in Processors, NEW t \in Threads, Call(p, t)
      PROVE  CalmStep
  <2>1. CASE Sleep(p, t) \/ KeSuspendThread(p, t) \/ KeExitThread(p, t)
    <3> USE DEF Sleep, KeSuspendThread, KeExitThread
    <3>1. Retires(p, t)
      BY <2>1 DEF Calling, Running, Retires
    <3>2. UNCHANGED <<priorities, currentThread, chosen>>
      BY <2>1
    <3>3. \E m : m # "Link" /\ cpu' = [cpu EXCEPT ![p] = m]
      BY <2>1 DEF Goto
    <3>4. ChosenStays
      BY <3>1, <3>2, <3>3, ChosenElsewhere DEF Retires
    <3>5. QED BY <3>1, <3>2, <3>4, CalmWhenSame DEF CalmStep, QueueStep, CurrentStays
  <2>2. ASSUME NEW u \in Threads, NEW s \in StaticPriorities, KeSetStaticPriority(t, u, s),
               UNCHANGED <<queues, currentThread, cpu, chosen, flags>>
        PROVE  CalmStep
    <3>1. Calm
      BY <1>0, <2>2 DEF KeSetStaticPriority, Calm
    <3>2. QED BY <2>2, <3>1 DEF CalmStep, QueueStep, Kept, queues, flags, CurrentStays, ChosenStays
  <2>3. CASE \/ \E s \in StaticPriorities : KeSetOwnPriority(p, t, s)
             \/ \E u \in Threads, s \in StaticPriorities : KeCreateThread(p, t, u, s)
             \/ \E u \in Threads, s \in StaticPriorities : KeSetPriority(p, t, u, s)
    BY <2>2, <2>3 DEF KeSetOwnPriority, KeCreateThread, KeSetPriority
  <2>4. CASE \E u \in Threads : KeResumeThread(p, t, u)
    BY <2>4, CalmWhenSame DEF KeResumeThread, CalmStep, QueueStep, Kept, queues, flags,
                              CurrentStays, ChosenStays
  <2>5. QED BY <1>9, <2>1, <2>3, <2>4 DEF Call
<1>10. ASSUME NEW t \in Threads, KeTimerTick(t)
       PROVE  CalmStep
  BY <1>10, CalmWhenSame DEF KeTimerTick, CalmStep, QueueStep, Kept, queues, flags, CurrentStays,
                             ChosenStays
<1>11. QED
  BY <1>1, <1>2, <1>3, <1>4, <1>6, <1>7, <1>8, <1>9, <1>10
  DEF Next, Kernel, Scheduling, Interrupt
-----------------------------------------------------------------------------
(* The queues.                                                               *)

\* Unlinking the thread t of the queue of p leaves the order of the others.
LEMMA UnlinkOwn ==
  ASSUME TypeInv, QueuesAreOwn, NEW p \in Processors, NEW t \in Threads,
         ScUnlinkReadyThread(p, t)
  PROVE  /\ processor[t] = p /\ ready[t] /\ ready' = [ready EXCEPT ![t] = FALSE]
         /\ \A q \in Processors :
              /\ IsInjective(threadQueue'[q]) /\ ToSet(threadQueue'[q]) \subseteq Threads
              /\ \A u \in Threads :
                   u \in ToSet(threadQueue'[q]) <=> u \in ToSet(threadQueue[q]) /\ u # t
              /\ \A u, v \in Threads :
                   Before(threadQueue'[q], u, v) => Before(threadQueue[q], u, v)
<1>1. PICK i \in DOMAIN threadQueue[p] :
        threadQueue[p][i] = t /\ threadQueue' = [threadQueue EXCEPT ![p] = RemoveAt(@, i)]
  BY DEF ScUnlinkReadyThread
<1>2. t \in ToSet(threadQueue[p])
  BY <1>1 DEF ToSet
<1>3. processor[t] = p /\ ready[t]
  BY <1>2 DEF QueuesAreOwn
<1>4. /\ threadQueue \in [Processors -> Seq(Threads)]
      /\ \A q \in Processors : IsInjective(threadQueue[q])
      /\ \A q \in Processors \ {p} : threadQueue[p][i] \notin ToSet(threadQueue[q])
  BY <1>1, <1>3 DEF TypeInv, TypeOK, QueuesAreOwn
<1>5. \A q \in Processors :
        /\ IsInjective(threadQueue'[q]) /\ ToSet(threadQueue'[q]) \subseteq Threads
        /\ \A u \in Threads :
             u \in ToSet(threadQueue'[q]) <=> u \in ToSet(threadQueue[q]) /\ u # threadQueue[p][i]
  <2>1. Unlinked(Processors, Threads, threadQueue, threadQueue', p, i)
    BY <1>1, <1>4 DEF Unlinked, Family
  <2>2. QED BY <2>1, RemoveFromFamily
<1>6. ASSUME NEW q \in Processors, NEW u \in Threads, NEW v \in Threads,
             Before(threadQueue'[q], u, v)
      PROVE  Before(threadQueue[q], u, v)
  <2>1. CASE q = p
    <3>1. Before(RemoveAt(threadQueue[p], i), u, v) /\ threadQueue[p] \in Seq(Threads)
      BY <1>1, <1>4, <1>6, <2>1
    <3>2. QED BY <2>1, <3>1, RemoveKeepsOrder
  <2>2. CASE q # p
    BY <1>1, <1>4, <1>6, <2>2
  <2>3. QED BY <2>1, <2>2
<1>7. QED BY <1>1, <1>3, <1>5, <1>6 DEF ScUnlinkReadyThread

\* So does linking the thread t.
LEMMA LinkOwn ==
  ASSUME TypeInv, QueuesAreOwn, NEW t \in Threads, Enters(t)
  PROVE  /\ ~ready[t] /\ ready' = [ready EXCEPT ![t] = TRUE]
         /\ \A q \in Processors :
              /\ IsInjective(threadQueue'[q]) /\ ToSet(threadQueue'[q]) \subseteq Threads
              /\ \A u \in Threads :
                   u \in ToSet(threadQueue'[q])
                     <=> u \in ToSet(threadQueue[q]) \/ (u = t /\ q = processor[t])
              /\ \A u, v \in Threads :
                   v # t /\ Before(threadQueue'[q], u, v) => Before(threadQueue[q], u, v)
<1>1. /\ threadQueue \in [Processors -> Seq(Threads)] /\ processor[t] \in Processors
      /\ \A q \in Processors : IsInjective(threadQueue[q])
      /\ ~ready[t] /\ t \notin ToSet(threadQueue[processor[t]])
      /\ threadQueue' = [threadQueue EXCEPT ![processor[t]] = Append(@, t)]
      /\ ready' = [ready EXCEPT ![t] = TRUE]
  BY DEF TypeInv, TypeOK, QueuesAreOwn, Enters
<1>2. Linked(Processors, Threads, threadQueue, threadQueue', processor[t], t)
  BY <1>1 DEF Linked, Family
<1>3. ASSUME NEW q \in Processors, NEW u \in Threads, NEW v \in Threads, v # t,
             Before(threadQueue'[q], u, v)
      PROVE  Before(threadQueue[q], u, v)
  <2>1. CASE q = processor[t]
    <3>1. Before(Append(threadQueue[q], t), u, v) /\ threadQueue[q] \in Seq(Threads)
      BY <1>1, <1>3, <2>1
    <3>2. QED BY <1>3, <3>1, AppendKeepsOrder
  <2>2. CASE q # processor[t]
    BY <1>1, <1>3, <2>2
  <2>3. QED BY <2>1, <2>2
<1>4. \A q \in Processors :
        /\ IsInjective(threadQueue'[q]) /\ ToSet(threadQueue'[q]) \subseteq Threads
        /\ \A u \in Threads :
             u \in ToSet(threadQueue'[q])
               <=> u \in ToSet(threadQueue[q]) \/ (u = t /\ q = processor[t])
  BY <1>2, AppendToFamily
<1>5. QED BY <1>1, <1>3, <1>4

\* Every step keeps the threads of a processor in its queue.
LEMMA OwnNext ==
  ASSUME TypeInv, AgingInv, IsFiniteSet(StaticPriorities), [Next]_vars
  PROVE  QueuesAreOwn'
<1>0. /\ QueuesAreOwn
      /\ \A t \in Threads : ready[t] => life[t] # "free"
      /\ \A t \in Threads : life[t] # "free" => processor'[t] = processor[t]
      /\ processor \in [Threads -> Processors]
      /\ ready \in [Threads -> BOOLEAN]
      /\ \A p \in Processors : ToSet(threadQueue[p]) \subseteq Threads
  BY ZenonT(60), CreatedStay, QueueMembers DEF AgingInv, HandledAreCreated, TypeInv, TypeOK
<1>1. CASE Kept
  BY <1>0, <1>1 DEF Kept, QueuesAreOwn
<1>2. ASSUME NEW p \in Processors, NEW t \in Threads, ScUnlinkReadyThread(p, t)
      PROVE  QueuesAreOwn'
  <2>1. /\ processor[t] = p /\ ready[t] /\ ready' = [ready EXCEPT ![t] = FALSE]
        /\ \A q \in Processors :
             /\ IsInjective(threadQueue'[q]) /\ ToSet(threadQueue'[q]) \subseteq Threads
             /\ \A u \in Threads :
                  u \in ToSet(threadQueue'[q]) <=> u \in ToSet(threadQueue[q]) /\ u # t
    BY <1>0, <1>2, UnlinkOwn
  <2>2. QED BY <1>0, <2>1 DEF QueuesAreOwn
<1>3. ASSUME NEW t \in Threads, Enters(t)
      PROVE  QueuesAreOwn'
  <2>1. /\ ~ready[t] /\ ready' = [ready EXCEPT ![t] = TRUE] /\ life[t] # "free"
        /\ \A q \in Processors :
             /\ IsInjective(threadQueue'[q]) /\ ToSet(threadQueue'[q]) \subseteq Threads
             /\ \A u \in Threads :
                  u \in ToSet(threadQueue'[q])
                    <=> u \in ToSet(threadQueue[q]) \/ (u = t /\ q = processor[t])
    BY <1>0, <1>3, LinkOwn DEF Enters
  <2>2. \A u \in Threads : ready'[u] => processor'[u] = processor[u]
    BY <1>0, <2>1
  <2>3. QED BY <1>0, <2>1, <2>2 DEF QueuesAreOwn
<1>4. ASSUME NEW p \in Processors, ScheduleReady(p)
      PROVE  QueuesAreOwn'
  BY <1>0, <1>2, <1>4 DEF ScheduleReady
<1>5. QED
  BY <1>1, <1>2, <1>3, <1>4, StepIsCalm DEF CalmStep, QueueStep, Retires
-----------------------------------------------------------------------------
(* Who is handled.                                                           *)

\* A thread that is put to sleep was ready, one that is flagged as suspended was
\* running, and requests are made for threads that exist.
HandledStep ==
  /\ \A t \in Threads : suspended'[t] => suspended[t] \/ \E p \in Processors : currentThread[p] = t
  /\ \A p \in Processors : \A t \in ToSet(sleepQueue'[p]) :
       t \in ToSet(sleepQueue[p]) \/ t \in ToSet(threadQueue[p])
  /\ \A p \in Processors : remoteExecute'[p] # None =>
       \/ remoteExecute'[p] = remoteExecute[p]
       \/ LET t == remoteExecute'[p].thread IN
          t \in Threads /\ life[t] # "free" /\ processor[t] = p
  /\ \A u \in Threads : pc'[u] # "Body" =>
       \/ pc[u] # "Body" /\ request'[u] = request[u]
       \/ LET t == request'[u].thread IN t \in Threads /\ life'[t] # "free"

\* Nothing of this is touched.
NothingHandled == UNCHANGED <<suspended, sleepQueue, remoteExecute, calls>>

\* A step that touches none of it handles nobody new.
LEMMA NothingHandledStep == ASSUME NothingHandled PROVE HandledStep
BY DEF NothingHandled, HandledStep, calls

\* A routine may only reset the SUSPENDED bit.
LEMMA RoutineHandles ==
  ASSUME TypeInv, NEW p \in Processors, NEW r, NEW m, r.thread \in Threads, RunRoutine(p, r, m)
  PROVE  sleepQueue' = sleepQueue /\ \A t \in Threads : suspended'[t] => suspended[t]
<1>1. suspended \in [Threads -> BOOLEAN]
  BY DEF TypeInv, TypeOK
<1>2. CASE ready[r.thread]
  BY <1>2 DEF RunRoutine, ScBug0, queues, flags
<1>3. CASE ~ready[r.thread]
  BY <1>1, <1>3 DEF RunRoutine
<1>4. QED BY <1>2, <1>3

\* KeSetStaticPriority asks for a thread that exists after it.
LEMMA PriorityHandles ==
  ASSUME TypeInv, NEW t \in Threads, NEW u \in Threads, NEW s, KeSetStaticPriority(t, u, s),
         life'[u] # "free"
  PROVE  \A v \in Threads : pc'[v] # "Body" =>
           \/ pc[v] # "Body" /\ request'[v] = request[v]
           \/ LET x == request'[v].thread IN x \in Threads /\ life'[x] # "free"
<1>1. pc \in [Threads -> {"Body", "Execute", "Post"}] /\ request \in [Threads -> Requests \cup {None}]
  BY DEF TypeInv, TypeOK
<1>2. QED BY <1>1 DEF KeSetStaticPriority, Execute, calls

\* Every step handles threads that exist.
LEMMA StepHandles ==
  ASSUME TypeInv, AgingInv, [Next]_vars
  PROVE  HandledStep
<1>0. /\ sleepQueue \in [Processors -> Seq(Threads)] /\ threadQueue \in [Processors -> Seq(Threads)]
      /\ suspended \in [Threads -> BOOLEAN]
      /\ processor \in [Threads -> Processors]
      /\ pc \in [Threads -> {"Body", "Execute", "Post"}]
      /\ request \in [Threads -> Requests \cup {None}]
      /\ remoteExecute \in [Processors -> Requests \cup {None}]
      /\ \A u \in Threads : pc[u] # "Body" =>
           request[u].thread \in Threads /\ life[request[u].thread] # "free"
  BY DEF TypeInv, TypeOK, Requests, AgingInv, HandledAreCreated
<1>1. CASE UNCHANGED vars
  BY <1>1, NothingHandledStep DEF vars, queues, flags, calls, remote, NothingHandled
<1>2. ASSUME NEW p \in Processors,
             \/ TimerInterrupt(p) \/ ScheduleIdle(p) \/ ScheduleReady(p) \/ IrqExit(p)
             \/ \E t \in Threads : IrqComplete(p, t)
             \/ \E done \in SUBSET Threads : NosIrqHandler(p, done)
      PROVE  HandledStep
  BY <1>2, NothingHandledStep
  DEF TimerInterrupt, ScheduleIdle, ScheduleReady, IrqExit, IrqComplete, NosIrqHandler,
      queues, flags, calls, remote, NothingHandled
<1>3. ASSUME NEW p \in Processors, LinkChosen(p)
      PROVE  HandledStep
  BY <1>3, NothingHandledStep
  DEF LinkChosen, ScLinkReadyThreadBottom, ScBug0, queues, flags, calls, remote, NothingHandled
<1>4. ASSUME NEW p \in Processors, ScheduleSleeper(p)
      PROVE  HandledStep
  <2>1. PICK i \in DOMAIN sleepQueue[p] : WakeSleeper(p, i)
    BY <1>4 DEF ScheduleSleeper
  <2>2. UNCHANGED <<suspended, remoteExecute, calls>>
    BY <1>4, <2>1 DEF ScheduleSleeper, WakeSleeper, ScBug0, flags, calls, remote
  <2>3. CASE sleepQueue' = sleepQueue
    BY <2>2, <2>3, NothingHandledStep DEF NothingHandled
  <2>4. CASE sleepQueue' = [sleepQueue EXCEPT ![p] = RemoveAt(@, i)]
    <3>1. ToSet(RemoveAt(sleepQueue[p], i)) \subseteq ToSet(sleepQueue[p])
      <4> DEFINE q == sleepQueue[p]
                 r == RemoveAt(q, i)
      <4>1. q \in Seq(Threads) /\ i \in DOMAIN q
        BY <1>0
      <4> HIDE DEF q
      <4>2. /\ r \in Seq(Threads) /\ Len(r) = Len(q) - 1
            /\ \A j \in 1 .. Len(q) - 1 : r[j] = IF j < i THEN q[j] ELSE q[j + 1]
        BY <4>1, RemoveShifts
      <4> HIDE DEF r
      <4>3. Len(q) \in Nat /\ DOMAIN q = 1 .. Len(q) /\ DOMAIN r = 1 .. Len(q) - 1
        BY <4>1, <4>2
      <4>4. \A j \in DOMAIN r : r[j] \in ToSet(q)
        <5> TAKE j \in DOMAIN r
        <5>1. j \in DOMAIN q /\ j + 1 \in DOMAIN q
          BY <4>3
        <5>2. r[j] = q[j] \/ r[j] = q[j + 1]
          BY <4>2, <4>3
        <5>3. QED BY <5>1, <5>2 DEF ToSet
      <4>5. QED BY <4>4 DEF ToSet, q, r
    <3>2. \A q \in Processors : ToSet(sleepQueue'[q]) \subseteq ToSet(sleepQueue[q])
      BY <1>0, <2>4, <3>1
    <3>3. QED BY <2>2, <3>2 DEF HandledStep, calls
  <2>5. QED BY <2>1, <2>3, <2>4 DEF WakeSleeper, ScBug0, queues
<1>5. ASSUME NEW p \in Processors, SetSuspended(p)
      PROVE  HandledStep
  <2>1. /\ UNCHANGED <<sleepQueue, remoteExecute, calls>>
        /\ suspended' = [suspended EXCEPT ![currentThread[p]] = TRUE]
    BY <1>5 DEF SetSuspended, queues, calls, remote
  <2>2. \A t \in Threads : suspended'[t] => suspended[t] \/ currentThread[p] = t
    BY <1>0, <2>1
  <2>3. QED BY <2>1, <2>2 DEF HandledStep, calls
<1>6. ASSUME NEW p \in Processors, IrqResumeLocal(p)
      PROVE  HandledStep
  <2> DEFINE r == [routine |-> "KiThreadResumeRoutine", thread |-> chosen[p]]
  <2>1. r.thread \in Threads /\ RunRoutine(p, r, "Irq") /\ UNCHANGED <<remoteExecute, calls>>
    BY <1>6 DEF IrqResumeLocal, TypeInv, calls, remote
  <2> HIDE DEF r
  <2>2. QED BY <2>1, RoutineHandles DEF HandledStep, calls
<1>7. ASSUME NEW p \in Processors, IrqResumeRemote(p)
      PROVE  HandledStep
  <2> DEFINE t == chosen[p]
             r == [routine |-> "KiThreadResumeRoutine", thread |-> t]
  <2>1. /\ t \in Threads /\ suspended[t]
        /\ remoteExecute' = [remoteExecute EXCEPT ![processor[t]] = r]
        /\ UNCHANGED <<suspended, sleepQueue, calls>>
    BY <1>7 DEF IrqResumeRemote, TypeInv, queues, flags, calls
  <2>2. life[t] # "free" /\ r.thread = t
    BY <2>1 DEF AgingInv, HandledAreCreated
  <2> HIDE DEF t, r
  <2>3. \A q \in Processors : remoteExecute'[q] = remoteExecute[q]
                              \/ (q = processor[t] /\ remoteExecute'[q] = r)
    BY <1>0, <2>1
  <2>4. QED BY <2>1, <2>2, <2>3 DEF HandledStep, calls
<1>8. ASSUME NEW p \in Processors, KiRemoteExecuteHandler(p)
      PROVE  HandledStep
  <2>1. /\ remoteExecute[p] # None /\ RunRoutine(p, remoteExecute[p], "Schedule")
        /\ remoteExecute' = [remoteExecute EXCEPT ![p] = None] /\ UNCHANGED calls
    BY <1>8 DEF KiRemoteExecuteHandler
  <2>2. remoteExecute[p].thread \in Threads
    BY <1>0, <2>1 DEF Requests
  <2>3. \A q \in Processors : remoteExecute'[q] # None => remoteExecute'[q] = remoteExecute[q]
    BY <1>0, <2>1
  <2>4. QED BY <2>1, <2>2, <2>3, RoutineHandles DEF HandledStep, calls
<1>9. ASSUME NEW p \in Processors, NEW t \in Threads, Pending(p, t)
      PROVE  HandledStep
  <2>1. CASE ExecuteLocally(p, t)
    <3>1. /\ pc[t] # "Body" /\ RunRoutine(p, request[t], "Run")
          /\ pc' = [pc EXCEPT ![t] = "Body"] /\ request' = [request EXCEPT ![t] = None]
          /\ UNCHANGED remoteExecute
      BY <2>1 DEF ExecuteLocally, remote
    <3>2. request[t].thread \in Threads
      BY <1>0, <3>1
    <3>3. \A u \in Threads : pc'[u] # "Body" => pc[u] # "Body" /\ request'[u] = request[u]
      BY <1>0, <3>1
    <3>4. QED BY <3>1, <3>2, <3>3, RoutineHandles DEF HandledStep
  <2>2. CASE AcquireProcessorControl(p, t)
    <3>1. /\ pc[t] = "Execute" /\ pc' = [pc EXCEPT ![t] = "Post"]
          /\ UNCHANGED <<suspended, sleepQueue, remoteExecute, request>>
      BY <2>2 DEF AcquireProcessorControl, queues, flags
    <3>2. \A u \in Threads : pc'[u] # "Body" => pc[u] # "Body"
      BY <1>0, <3>1
    <3>3. QED BY <3>1, <3>2 DEF HandledStep
  <2>3. CASE KeRemoteExecute(p, t)
    <3>1. /\ pc[t] = "Post" /\ pc' = [pc EXCEPT ![t] = "Body"]
          /\ request' = [request EXCEPT ![t] = None]
          /\ remoteExecute' = [remoteExecute EXCEPT ![processor[request[t].thread]] = request[t]]
          /\ UNCHANGED <<suspended, sleepQueue>>
      BY <2>3 DEF KeRemoteExecute, queues, flags
    <3>2. \A u \in Threads : pc'[u] # "Body" => pc[u] # "Body" /\ request'[u] = request[u]
      BY <1>0, <3>1
    <3>3. \A q \in Processors : remoteExecute'[q] = remoteExecute[q]
            \/ (q = processor[request[t].thread] /\ remoteExecute'[q] = request[t])
      BY <1>0, <3>1
    <3>4. request[t].thread \in Threads /\ life[request[t].thread] # "free"
      BY <1>0, <3>1
    <3>5. QED BY <3>1, <3>2, <3>3, <3>4 DEF HandledStep
  <2>4. QED BY <1>9, <2>1, <2>2, <2>3 DEF Pending
<1>10. ASSUME NEW p \in Processors, NEW t \in Threads, Call(p, t)
       PROVE  HandledStep
  <2>1. CASE Sleep(p, t)
    <3>1. /\ ScUnlinkReadyThread(p, t) /\ sleepQueue' = [sleepQueue EXCEPT ![p] = Append(@, t)]
          /\ UNCHANGED <<suspended, remoteExecute, calls>>
      BY <2>1 DEF Sleep, calls, remote
    <3>2. t \in ToSet(threadQueue[p])
      BY <3>1 DEF ScUnlinkReadyThread, ToSet
    <3>3. ToSet(Append(sleepQueue[p], t)) = ToSet(sleepQueue[p]) \cup {t}
      <4>1. sleepQueue[p] \in Seq(Threads)
        BY <1>0
      <4>2. QED BY <4>1, AppendToQueue
    <3>4. \A q \in Processors : \A u \in ToSet(sleepQueue'[q]) :
            u \in ToSet(sleepQueue[q]) \/ (u = t /\ q = p)
      BY <1>0, <3>1, <3>3
    <3>5. QED BY <3>1, <3>2, <3>4 DEF HandledStep, calls
  <2>2. CASE KeSuspendThread(p, t) \/ KeExitThread(p, t)
    BY <2>2, NothingHandledStep DEF KeSuspendThread, KeExitThread, calls, remote, NothingHandled
  <2>3. ASSUME NEW u \in Threads, NEW s \in StaticPriorities, KeSetStaticPriority(t, u, s),
               life'[u] # "free", UNCHANGED <<queues, flags, remote>>
        PROVE  HandledStep
    BY <2>3, PriorityHandles DEF HandledStep, queues, flags, remote
  <2>4. CASE \E s \in StaticPriorities : KeSetOwnPriority(p, t, s)
    <3>1. PICK s \in StaticPriorities : KeSetOwnPriority(p, t, s)
      BY <2>4
    <3>2. currentThread[p] = t /\ t # Idle
      BY <3>1, ThreadsAssumption DEF KeSetOwnPriority, Calling, Running
    <3>3. life[t] # "free"
      BY <3>2 DEF AgingInv, HandledAreCreated
    <3>4. QED BY <2>3, <3>1, <3>3 DEF KeSetOwnPriority, births
  <2>5. CASE \E u \in Threads, s \in StaticPriorities : KeCreateThread(p, t, u, s)
    <3>1. PICK u \in Threads, s \in StaticPriorities : KeCreateThread(p, t, u, s)
      BY <2>5
    <3>2. life'[u] # "free"
      BY <3>1 DEF KeCreateThread, TypeInv, TypeOK
    <3>3. QED BY <2>3, <3>1, <3>2 DEF KeCreateThread
  <2>6. CASE \E u \in Threads, s \in StaticPriorities : KeSetPriority(p, t, u, s)
    <3>1. PICK u \in Threads, s \in StaticPriorities : KeSetPriority(p, t, u, s)
      BY <2>6
    <3>2. life'[u] # "free"
      BY <3>1 DEF KeSetPriority, Live, births
    <3>3. QED BY <2>3, <3>1, <3>2 DEF KeSetPriority
  <2>7. CASE \E u \in Threads : KeResumeThread(p, t, u)
    <3>1. PICK u \in Threads : KeResumeThread(p, t, u)
      BY <2>7
    <3>2. /\ pc' = [pc EXCEPT ![t] = "Execute"] /\ life'[u] # "free"
          /\ request' = [request EXCEPT ![t] = [routine |-> "KiThreadResumeRoutine", thread |-> u]]
          /\ UNCHANGED <<suspended, sleepQueue, remoteExecute>>
      BY <3>1 DEF KeResumeThread, Execute, Live, births, queues, flags, remote
    <3>3. \A v \in Threads : pc'[v] # "Body" =>
            (pc[v] # "Body" /\ request'[v] = request[v]) \/ request'[v].thread = u
      BY <1>0, <3>2
    <3>4. QED BY <3>2, <3>3 DEF HandledStep
  <2>8. QED BY <1>10, <2>1, <2>2, <2>4, <2>5, <2>6, <2>7 DEF Call
<1>11. ASSUME NEW t \in Threads, KeTimerTick(t)
       PROVE  HandledStep
  BY <1>11, NothingHandledStep DEF KeTimerTick, queues, flags, calls, remote, NothingHandled
<1>12. QED
  BY <1>1, <1>2, <1>3, <1>4, <1>5, <1>6, <1>7, <1>8, <1>9, <1>10, <1>11
  DEF Next, Kernel, Scheduling, Interrupt

\* No thread is handled before it exists.
LEMMA HandledNext ==
  ASSUME TypeInv, TypeInv', AgingInv, IsFiniteSet(StaticPriorities), [Next]_vars
  PROVE  HandledAreCreated'
<1>0. /\ HandledStep
      /\ \A t \in Threads : life[t] # "free" => life'[t] # "free" /\ processor'[t] = processor[t]
      /\ \A p \in Processors : /\ ToSet(threadQueue[p]) \subseteq Threads
                               /\ ToSet(sleepQueue[p]) \subseteq Threads
                               /\ currentThread[p] \in Threads \cup {Idle}
                               /\ cpu[p] = "Link" => chosen[p] \in Threads
                               /\ remoteExecute[p] # None => remoteExecute[p].thread \in Threads
      /\ \A t \in Threads : pc[t] # "Body" => request[t].thread \in Threads
  BY ZenonT(60), StepHandles, CreatedStay, QueueMembers DEF TypeInv, TypeOK, Requests
<1>1. \A p \in Processors : \A t \in ToSet(threadQueue[p]) :
        t \in Threads /\ life[t] # "free" /\ processor[t] = p
  BY <1>0 DEF AgingInv, QueuesAreOwn, HandledAreCreated
<1>2. ASSUME NEW p \in Processors, ScheduleReady(p)
      PROVE  /\ currentThread' = currentThread
             /\ \A q \in Processors : cpu'[q] = "Link" =>
                  \/ cpu[q] = "Link" /\ chosen'[q] = chosen[q]
                  \/ chosen'[q] \in ToSet(threadQueue[q])
             /\ \A t \in Threads : ready'[t] => ready[t]
  <2>1. PICK t \in ToSet(threadQueue[p]) :
          ScUnlinkReadyThread(p, t) /\ chosen' = [chosen EXCEPT ![p] = t]
    BY <1>2 DEF ScheduleReady
  <2>2. cpu' = [cpu EXCEPT ![p] = "Link"] /\ currentThread' = currentThread
    BY <1>2 DEF ScheduleReady, Goto
  <2>3. chosen \in [Processors -> Threads \cup {None}] /\ cpu \in [Processors -> Modes]
        /\ ready \in [Threads -> BOOLEAN]
    BY DEF TypeInv, TypeOK
  <2>4. ready' = [ready EXCEPT ![t] = FALSE]
    BY <2>1 DEF ScUnlinkReadyThread
  <2>5. QED BY <2>1, <2>2, <2>3, <2>4
<1>3. ASSUME CalmStep
      PROVE  \A t \in Threads : ready'[t] => life[t] # "free"
  <2>1. ready \in [Threads -> BOOLEAN] /\ \A t \in Threads : ready[t] => life[t] # "free"
    BY DEF TypeInv, TypeOK, AgingInv, HandledAreCreated
  <2>2. CASE Kept
    BY <2>1, <2>2 DEF Kept
  <2>3. ASSUME NEW p \in Processors, NEW t \in Threads, Retires(p, t)
        PROVE  \A u \in Threads : ready'[u] => life[u] # "free"
    BY <2>1, <2>3 DEF Retires, ScUnlinkReadyThread
  <2>4. ASSUME NEW t \in Threads, Enters(t)
        PROVE  \A u \in Threads : ready'[u] => life[u] # "free"
    BY <2>1, <2>4 DEF Enters
  <2>5. QED BY <1>3, <2>2, <2>3, <2>4 DEF CalmStep, QueueStep
<1>4. \A t \in Threads : ready'[t] \/ suspended'[t] => life'[t] # "free"
  <2> TAKE t \in Threads
  <2>1. suspended'[t] => life[t] # "free"
    BY <1>0, ThreadsAssumption DEF HandledStep, AgingInv, HandledAreCreated
  <2>2. ready'[t] => life[t] # "free"
    BY <1>2, <1>3, StepIsCalm DEF AgingInv, HandledAreCreated
  <2>3. QED BY <1>0, <2>1, <2>2
<1>5. ASSUME NEW p \in Processors, currentThread'[p] # Idle PROVE life'[currentThread'[p]] # "free"
  <2>1. currentThread'[p] \in Threads /\ life[currentThread'[p]] # "free"
    BY <1>0, <1>2, <1>5, StepIsCalm DEF CalmStep, CurrentStays, AgingInv, HandledAreCreated
  <2>2. QED BY <1>0, <2>1
<1>6. ASSUME NEW p \in Processors, NEW t \in ToSet(sleepQueue'[p])
      PROVE  life'[t] # "free" /\ processor'[t] = p
  <2>1. t \in Threads /\ life[t] # "free" /\ processor[t] = p
    BY ZenonT(60), <1>0, <1>1, <1>6 DEF HandledStep, AgingInv, HandledAreCreated
  <2>2. QED BY <1>0, <2>1
<1>7. ASSUME NEW p \in Processors, cpu'[p] = "Link"
      PROVE  life'[chosen'[p]] # "free" /\ processor'[chosen'[p]] = p
  <2>1. chosen'[p] \in Threads /\ life[chosen'[p]] # "free" /\ processor[chosen'[p]] = p
    BY <1>0, <1>1, <1>2, <1>7, StepIsCalm
    DEF CalmStep, ChosenStays, AgingInv, HandledAreCreated
  <2>2. QED BY <1>0, <2>1
<1>8. ASSUME NEW p \in Processors, remoteExecute'[p] # None
      PROVE  life'[remoteExecute'[p].thread] # "free" /\ processor'[remoteExecute'[p].thread] = p
  <2> DEFINE t == remoteExecute'[p].thread
  <2>1. t \in Threads /\ life[t] # "free" /\ processor[t] = p
    BY <1>0, <1>8 DEF HandledStep, AgingInv, HandledAreCreated
  <2> HIDE DEF t
  <2>2. life'[t] # "free" /\ processor'[t] = p
    BY <1>0, <2>1
  <2>3. QED BY <2>2 DEF t
<1>9. ASSUME NEW u \in Threads, pc'[u] # "Body" PROVE life'[request'[u].thread] # "free"
  BY <1>0, <1>9 DEF HandledStep, AgingInv, HandledAreCreated
<1>10. QED BY <1>4, <1>5, <1>6, <1>7, <1>8, <1>9 DEF HandledAreCreated
-----------------------------------------------------------------------------
(* Who has aged.                                                             *)

\* In a calm step only those that go on waiting keep a raised priority.
LEMMA CalmOld ==
  ASSUME TypeInv, AgingInv, IsFiniteSet(StaticPriorities), [Next]_vars, CalmStep
  PROVE  OldAreWaiting' /\ ChosenAreBounded'
<1>0. /\ Highest \in Nat /\ Cardinality(Threads) \in Nat
      /\ dynamicPriority \in [Threads -> Nat] /\ staticPriority \in [Threads -> Nat]
      /\ ready \in [Threads -> BOOLEAN]
      /\ currentThread \in [Processors -> Threads \cup {Idle}]
      /\ processor \in [Threads -> Processors]
      /\ \A t \in Threads : staticPriority[t] <= Highest
      /\ \A p \in Processors : cpu[p] = "Link" => chosen[p] \in Threads
  BY GivenPriorities, FS_CardinalityType, ThreadsAssumption
  DEF TypeInv, TypeOK, AgingInv, OldAreWaiting
<1>typed. dynamicPriority' \in [Threads -> Nat]
  BY TypeNext DEF TypeInv, TypeOK
<1>1. ASSUME NEW t \in Threads, NEW p \in Processors, cpu[p] = "Link", chosen[p] = t,
             LinkChosen(p)
      PROVE  dynamicPriority'[t] <= Highest
  BY <1>0, <1>1 DEF LinkChosen
<1>2. ASSUME NEW t \in Threads, Linking(t)
      PROVE  dynamicPriority'[t] <= Highest \/ Linking(t)'
  <2>1. PICK p \in Processors : cpu[p] = "Link" /\ chosen[p] = t
    BY <1>2 DEF Linking
  <2>2. CASE LinkChosen(p)
    BY <1>1, <2>1, <2>2
  <2>3. CASE ~LinkChosen(p)
    <3>1. cpu'[p] = "Link" /\ chosen'[p] = t
      BY <2>1, <2>3 DEF CalmStep, ChosenStays
    <3>2. QED BY <3>1 DEF Linking
  <2>4. QED BY <2>2, <2>3
<1>3. ASSUME NEW t \in Threads, dynamicPriority'[t] > Highest,
             ready[t], currentThread[processor[t]] # t
      PROVE  ready'[t] /\ currentThread'[processor'[t]] # t
  <2>1. life[t] # "free" /\ processor'[t] = processor[t] /\ processor[t] \in Processors
    BY <1>0, <1>3, CreatedStay DEF AgingInv, HandledAreCreated
  <2>2. ready'[t]
    <3>1. CASE Kept
      BY <1>3, <3>1 DEF Kept
    <3>2. ASSUME NEW p \in Processors, NEW u \in Threads, Retires(p, u)
          PROVE  ready'[t]
      <4>1. processor[u] = p /\ currentThread[p] = u /\ ready' = [ready EXCEPT ![u] = FALSE]
        BY <3>2, UnlinkOwn DEF Retires, AgingInv
      <4>2. QED BY <1>0, <1>3, <4>1
    <3>3. ASSUME NEW u \in Threads, Enters(u)
          PROVE  ready'[t]
      BY <1>0, <1>3, <3>3 DEF Enters
    <3>4. QED BY <3>1, <3>2, <3>3 DEF CalmStep, QueueStep
  <2>3. currentThread'[processor[t]] # t
    <3>1. t # Idle /\ ~(dynamicPriority'[t] <= Highest)
      <4>1. dynamicPriority'[t] = dynamicPriority[t] \/ dynamicPriority'[t] <= Highest
        BY DEF CalmStep, Calm
      <4>2. CASE dynamicPriority'[t] <= Highest
        BY <1>0, <1>typed, <1>3, <4>2, ThreadsAssumption
      <4>3. CASE dynamicPriority'[t] = dynamicPriority[t]
        BY <1>0, <1>typed, <1>3, <4>3, ThreadsAssumption
      <4>4. QED BY <4>1, <4>2, <4>3
    <3>2. QED BY <1>3, <2>1, <3>1 DEF CalmStep, CurrentStays
  <2>4. QED BY <2>1, <2>2, <2>3
<1>4. OldAreWaiting'
  <2>1. ASSUME NEW t \in Threads, dynamicPriority'[t] > Highest
        PROVE  (ready'[t] /\ currentThread'[processor'[t]] # t) \/ Linking(t)'
    <3>1. dynamicPriority'[t] = dynamicPriority[t] \/ dynamicPriority'[t] <= Highest
      BY DEF CalmStep, Calm
    <3>2. dynamicPriority[t] > Highest /\ ~(dynamicPriority'[t] <= Highest)
      BY <1>0, <1>typed, <2>1, <3>1
    <3>3. (ready[t] /\ currentThread[processor[t]] # t) \/ Linking(t)
      BY <3>2 DEF AgingInv, OldAreWaiting
    <3>4. QED BY <1>2, <1>3, <2>1, <3>2, <3>3
  <2>2. QED BY <2>1 DEF OldAreWaiting, CalmStep, Calm
<1>5. ChosenAreBounded'
  <2> SUFFICES ASSUME NEW p \in Processors, cpu'[p] = "Link"
               PROVE  dynamicPriority'[chosen'[p]] <= Highest + Cardinality(Threads)
    BY DEF ChosenAreBounded
  <2>1. cpu[p] = "Link" /\ chosen'[p] = chosen[p] /\ chosen[p] \in Threads
    BY <1>0 DEF CalmStep, ChosenStays
  <2>2. dynamicPriority[chosen[p]] <= Highest + Cardinality(Threads)
    BY <2>1 DEF AgingInv, ChosenAreBounded
  <2>3. \/ dynamicPriority'[chosen[p]] = dynamicPriority[chosen[p]]
        \/ dynamicPriority'[chosen[p]] <= Highest
    BY <2>1 DEF CalmStep, Calm
  <2>4. CASE dynamicPriority'[chosen[p]] = dynamicPriority[chosen[p]]
    BY <2>1, <2>2, <2>4
  <2>5. CASE dynamicPriority'[chosen[p]] <= Highest
    <3>1. dynamicPriority'[chosen[p]] \in Nat
      BY <1>typed, <2>1
    <3>2. QED BY <1>0, <2>1, <2>5, <3>1
  <2>6. QED BY <2>3, <2>4, <2>5
<1>6. QED BY <1>4, <1>5

\* The numbers of settled threads: at most all but t, and never fewer when more
\* are settled.
LEMMA SettledNumbers ==
  ASSUME NEW t \in Threads
  PROVE  /\ IsFiniteSet(Settled(t)) /\ IsFiniteSet(Settled(t)')
         /\ Cardinality(Settled(t)) \in Nat /\ Cardinality(Settled(t)') \in Nat
         /\ Cardinality(Threads) \in Nat
         /\ Cardinality(Settled(t)) + 1 <= Cardinality(Threads)
         /\ Settled(t) \subseteq Settled(t)' => Cardinality(Settled(t)) <= Cardinality(Settled(t)')
<1>0. IsFiniteSet(Threads)
  BY ThreadsAssumption
<1>1. Settled(t) \subseteq Threads \ {t} /\ Settled(t)' \subseteq Threads \ {t}
  BY DEF Settled
<1>2. /\ IsFiniteSet(Threads \ {t})
      /\ Cardinality(Threads \ {t}) = Cardinality(Threads) - 1
      /\ Cardinality(Threads) \in Nat
  BY <1>0, FS_RemoveElement, FS_CardinalityType
<1>3. /\ IsFiniteSet(Settled(t)) /\ IsFiniteSet(Settled(t)')
      /\ Cardinality(Settled(t)) <= Cardinality(Threads \ {t})
  BY <1>1, <1>2, FS_Subset
<1>4. Settled(t) \subseteq Settled(t)' => Cardinality(Settled(t)) <= Cardinality(Settled(t)')
  BY <1>3, FS_Subset
<1>5. Cardinality(Settled(t)) \in Nat /\ Cardinality(Settled(t)') \in Nat
  BY <1>3, FS_CardinalityType
<1>6. QED BY <1>2, <1>3, <1>4, <1>5

\* In a calm step no thread comes before one that has aged.
LEMMA CalmAged ==
  ASSUME TypeInv, AgingInv, IsFiniteSet(StaticPriorities), [Next]_vars, CalmStep
  PROVE  AgedAreNext'
<1>0. /\ Highest \in Nat
      /\ dynamicPriority \in [Threads -> Nat] /\ dynamicPriority' \in [Threads -> Nat]
      /\ ready \in [Threads -> BOOLEAN]
      /\ processor \in [Threads -> Processors]
      /\ \A t \in Threads : dynamicPriority'[t] = dynamicPriority[t]
                            \/ dynamicPriority'[t] <= Highest
  BY GivenPriorities, TypeNext DEF TypeInv, TypeOK, CalmStep, Calm
<1> SUFFICES ASSUME NEW t \in Threads, ready'[t], dynamicPriority'[t] > Highest
             PROVE  Cardinality(Settled(t)') >= dynamicPriority'[t] - Highest
  BY DEF AgedAreNext
<1>1. dynamicPriority'[t] = dynamicPriority[t] /\ ~(dynamicPriority'[t] <= Highest)
  BY <1>0
<1> DEFINE p == processor[t]
<1>2. p \in Processors
  BY <1>0
<1> DEFINE Passed ==
             /\ ready[t]
             /\ \A u \in Threads : u \in ToSet(threadQueue'[p]) =>
                  u \in ToSet(threadQueue[p]) \/ dynamicPriority'[u] <= Highest
             /\ \A u \in Threads : Before(threadQueue'[p], u, t) => Before(threadQueue[p], u, t)
<1>3. Passed
  <2>1. CASE Kept
    BY <2>1 DEF Kept
  <2>2. ASSUME NEW q \in Processors, NEW u \in Threads, Retires(q, u)
        PROVE  Passed
    <3>1. /\ ready' = [ready EXCEPT ![u] = FALSE]
          /\ \A v \in Threads : v \in ToSet(threadQueue'[p]) => v \in ToSet(threadQueue[p])
          /\ \A v \in Threads : Before(threadQueue'[p], v, t) => Before(threadQueue[p], v, t)
      BY <1>2, <2>2, UnlinkOwn DEF Retires, AgingInv
    <3>2. QED BY <1>0, <3>1
  <2>3. ASSUME NEW u \in Threads, Enters(u)
        PROVE  Passed
    <3>1. t # u
      BY <1>1, <2>3 DEF Enters
    <3>2. /\ ready' = [ready EXCEPT ![u] = TRUE] /\ dynamicPriority'[u] <= Highest
          /\ \A v \in Threads : v \in ToSet(threadQueue'[p]) => v \in ToSet(threadQueue[p]) \/ v = u
          /\ \A v \in Threads : Before(threadQueue'[p], v, t) => Before(threadQueue[p], v, t)
      <4>1. ready' = [ready EXCEPT ![u] = TRUE] /\ dynamicPriority'[u] <= Highest
        BY <2>3 DEF Enters
      <4>2. \A q \in Processors : \A v, w \in Threads :
              /\ v \in ToSet(threadQueue'[q])
                   => v \in ToSet(threadQueue[q]) \/ (v = u /\ q = processor[u])
              /\ w # u /\ Before(threadQueue'[q], v, w) => Before(threadQueue[q], v, w)
        BY <2>3, LinkOwn DEF AgingInv
      <4>3. QED BY <1>2, <3>1, <4>1, <4>2
    <3>3. QED BY <1>0, <3>1, <3>2
  <2>4. QED BY <2>1, <2>2, <2>3 DEF CalmStep, QueueStep
<1>4. processor'[t] = p
  BY <1>3, CreatedStay DEF AgingInv, HandledAreCreated
<1> HIDE DEF p
<1>5. Settled(t) \subseteq Settled(t)'
  <2> SUFFICES ASSUME NEW u \in Threads, MayPrecede(u, t)' PROVE MayPrecede(u, t)
    BY DEF Settled
  <2>1. CASE Before(threadQueue'[p], u, t)
    BY <1>3, <2>1 DEF MayPrecede, p
  <2>2. CASE u \in ToSet(threadQueue'[p]) /\ dynamicPriority'[u] > dynamicPriority'[t]
    <3>1. ~(dynamicPriority'[u] <= Highest)
      BY <1>0, <2>2
    <3>2. u \in ToSet(threadQueue[p]) /\ dynamicPriority[u] > dynamicPriority[t]
      BY <1>0, <1>1, <1>3, <2>2, <3>1
    <3>3. QED BY <3>2 DEF MayPrecede, p
  <2>3. QED BY <1>4, <2>1, <2>2 DEF MayPrecede
<1>6. Cardinality(Settled(t)) <= Cardinality(Settled(t)')
  BY <1>5, SettledNumbers
<1>7. Cardinality(Settled(t)) >= dynamicPriority[t] - Highest
  BY <1>1, <1>3 DEF AgingInv, AgedAreNext
<1>8. QED BY <1>0, <1>1, <1>6, <1>7, SettledNumbers

\* The selected thread is the current one, and nobody has a higher priority, or it
\* may precede every other thread of the queue.
LEMMA SelectedPrecedes ==
  ASSUME TypeInv, QueuesAreOwn, NEW p \in Processors, Selected(p) \in ToSet(threadQueue[p])
  PROVE  \A t \in ToSet(threadQueue[p]) \ {Selected(p)} :
           IF Selected(p) = currentThread[p]
           THEN dynamicPriority[t] <= dynamicPriority[Selected(p)]
           ELSE MayPrecede(Selected(p), t)
<1> DEFINE q == threadQueue[p]
           cur == currentThread[p]
           d == dynamicPriority
           c == Candidate(p)
           s == Selected(p)
<1>1. /\ q \in Seq(Threads) /\ d \in [Threads -> Nat] /\ cur \in Threads \cup {Idle}
      /\ \A t \in ToSet(q) : ready[t] /\ processor[t] = p /\ t \in Threads
      /\ s \in ToSet(q)
  BY QueueMembers DEF TypeInv, TypeOK, QueuesAreOwn
<1>2. DOMAIN q = 1 .. Len(q) /\ Len(q) \in Nat
  BY <1>1
<1>3. PICK g : IsScan(g, Len(q), c, d, cur, q) /\ s = g[1 .. Len(q)]
  <2>1. PICK g : IsScan(g, Len(q), c, d, cur, q)
    BY <1>2, ScanExists
  <2> DEFINE G == CHOOSE h : h = [r \in SUBSET DOMAIN q |->
                    IF r = {} THEN c ELSE Preferred(p, h[r \ {Max(r)}], q[Max(r)])]
  <2>2. s = G[DOMAIN q]
    BY Zenon DEF Selected, FoldLeft, MapThenFoldSet
  <2>3. \A b, t : Preferred(p, b, t) = Better(d, cur, b, t)
    BY DEF Preferred, Better
  <2>4. G = [r \in SUBSET DOMAIN q |->
               IF r = {} THEN c ELSE Preferred(p, G[r \ {Max(r)}], q[Max(r)])]
    <3>1. g = [r \in SUBSET DOMAIN q |->
                 IF r = {} THEN c ELSE Preferred(p, g[r \ {Max(r)}], q[Max(r)])]
      BY ZenonT(60), <1>2, <2>1, <2>3 DEF IsScan
    <3>2. QED BY <3>1, Zenon
  <2>5. IsScan(G, Len(q), c, d, cur, q)
    BY ZenonT(60), <1>2, <2>3, <2>4 DEF IsScan
  <2>6. QED BY <1>2, <2>2, <2>5
<1>4. q # <<>>
  BY <1>1, <1>2 DEF ToSet
<1>5. c \in Threads /\ (c = cur \/ (cur \notin ToSet(q) /\ c = q[1]))
  <2>1. q[1] \in Threads /\ Head(q) = q[1]
    BY <1>1, <1>2, <1>4
  <2>2. QED BY <1>1, <2>1 DEF Candidate
<1> HIDE DEF c, s, q, d, cur
<1>6. Found(q, d, cur, s)
  <2>1. q \in Seq(Threads) /\ d \in [Threads -> Nat] /\ c \in Threads
    BY <1>1, <1>5
  <2>2. IsScan(g, Len(q), c, d, cur, q) /\ s = g[1 .. Len(q)]
    BY <1>3
  <2>3. c = cur \/ (cur \notin ToSet(q) /\ c = q[1])
    BY <1>5
  <2>4. QED BY <1>4, <2>1, <2>2, <2>3, ScanFinds
<1>7. ASSUME NEW t \in ToSet(q) \ {s}
      PROVE  IF s = cur THEN d[t] <= d[s] ELSE Before(q, s, t) \/ d[s] > d[t]
  <2>1. PICK k \in 1 .. Len(q) : q[k] = t
    BY <1>2 DEF ToSet
  <2>2. d[t] \in Nat /\ d[s] \in Nat
    BY <1>1
  <2>3. CASE s = cur
    BY <1>6, <2>1, <2>2, <2>3 DEF Found
  <2>4. CASE s # cur
    <3>1. PICK m \in 1 .. Len(q) : s = q[m] /\ \A j \in 1 .. m - 1 : d[q[j]] < d[s]
      BY <1>6, <2>4 DEF Found
    <3>2. CASE m < k
      BY <1>2, <2>1, <2>4, <3>1, <3>2 DEF Before
    <3>3. CASE k < m
      <4>1. k \in 1 .. m - 1
        BY <1>2, <3>3
      <4>2. QED BY <2>1, <2>2, <2>4, <3>1, <4>1
    <3>4. m # k
      BY <2>1, <3>1
    <3>5. QED BY <1>2, <3>2, <3>3, <3>4
  <2>5. QED BY <2>3, <2>4
<1>8. QED BY <1>1, <1>7 DEF MayPrecede, q, d, s, cur

\* When a thread is selected the others of its queue age, and each of them that has
\* aged beyond the highest priority has one more thread settled: the selected one.
LEMMA SelectionKeeps ==
  ASSUME TypeInv, TypeInv', AgingInv, IsFiniteSet(StaticPriorities),
         NEW p \in Processors, ScheduleReady(p)
  PROVE  OldAreWaiting' /\ ChosenAreBounded' /\ AgedAreNext'
<1> DEFINE s == Selected(p)
           cur == currentThread[p]
<1>1. /\ s \in ToSet(threadQueue[p]) /\ ScUnlinkReadyThread(p, s)
      /\ chosen' = [chosen EXCEPT ![p] = s] /\ cpu' = [cpu EXCEPT ![p] = "Link"]
      /\ cpu[p] = "Schedule"
      /\ dynamicPriority' = Aged(p)
      /\ UNCHANGED <<currentThread, staticPriority, processor>>
  BY DEF ScheduleReady, Goto, births
<1>2. /\ Highest \in Nat /\ Cardinality(Threads) \in Nat
      /\ dynamicPriority \in [Threads -> Nat] /\ dynamicPriority' \in [Threads -> Nat]
      /\ ready \in [Threads -> BOOLEAN]
      /\ processor \in [Threads -> Processors]
      /\ chosen \in [Processors -> Threads \cup {None}] /\ cpu \in [Processors -> Modes]
      /\ ToSet(threadQueue[p]) \subseteq Threads
      /\ \A q \in Processors : cpu[q] = "Link" => chosen[q] \in Threads
  BY GivenPriorities, FS_CardinalityType, ThreadsAssumption, QueueMembers DEF TypeInv, TypeOK
<1>3. s \in Threads
  BY <1>1, <1>2
<1> HIDE DEF s
<1>4. /\ processor[s] = p /\ ready[s] /\ ready' = [ready EXCEPT ![s] = FALSE]
      /\ \A q \in Processors :
           /\ \A u \in Threads :
                u \in ToSet(threadQueue'[q]) <=> u \in ToSet(threadQueue[q]) /\ u # s
           /\ \A u, v \in Threads :
                Before(threadQueue'[q], u, v) => Before(threadQueue[q], u, v)
  BY <1>1, <1>3, UnlinkOwn DEF AgingInv
<1>5. \A t \in Threads : dynamicPriority'[t] =
        dynamicPriority[t] + (IF t \in ToSet(threadQueue[p]) \ {cur} THEN 1 ELSE 0)
  BY <1>1 DEF Aged
<1>6. \A t \in Threads :
        /\ t \in ToSet(threadQueue[p]) => ready[t] /\ processor[t] = p
        /\ ready[t] /\ processor[t] = p => t \in ToSet(threadQueue[p])
  BY DEF AgingInv, QueuesAreOwn
<1>7. cpu'[p] = "Link" /\ chosen'[p] = s
      /\ \A q \in Processors \ {p} : cpu'[q] = cpu[q] /\ chosen'[q] = chosen[q]
  BY <1>1, <1>2
<1>8. cur \in Threads /\ processor[cur] = p => dynamicPriority[cur] <= Highest
  BY <1>1, NotOld
<1>9. OldAreWaiting'
  <2>1. ASSUME NEW t \in Threads, dynamicPriority'[t] > Highest
        PROVE  (ready'[t] /\ currentThread'[processor'[t]] # t) \/ Linking(t)'
    <3>1. CASE t = s
      BY <1>7, <3>1 DEF Linking
    <3>2. CASE t # s /\ t \in ToSet(threadQueue[p]) \ {cur}
      BY <1>1, <1>2, <1>4, <1>6, <3>2
    <3>3. CASE t # s /\ t \notin ToSet(threadQueue[p]) \ {cur}
      <4>1. dynamicPriority[t] > Highest
        BY <1>2, <1>5, <2>1, <3>3
      <4>2. CASE Linking(t)
        <5>1. PICK q \in Processors : cpu[q] = "Link" /\ chosen[q] = t
          BY <4>2 DEF Linking
        <5>2. cpu'[q] = "Link" /\ chosen'[q] = t
          BY <1>1, <1>7, <5>1
        <5>3. QED BY <5>2 DEF Linking
      <4>3. CASE ready[t] /\ currentThread[processor[t]] # t
        BY <1>1, <1>2, <1>4, <3>3, <4>3
      <4>4. QED BY <4>1, <4>2, <4>3 DEF AgingInv, OldAreWaiting
    <3>4. QED BY <3>1, <3>2, <3>3
  <2>2. QED BY <1>1, <2>1 DEF OldAreWaiting, AgingInv
<1>10. ChosenAreBounded'
  <2>1. dynamicPriority'[s] <= Highest + Cardinality(Threads)
    <3>1. dynamicPriority'[s] <= dynamicPriority[s] + 1 /\ dynamicPriority[s] \in Nat
      BY <1>2, <1>3, <1>5
    <3>2. Cardinality(Settled(s)) \in Nat /\ Cardinality(Settled(s)) + 1 <= Cardinality(Threads)
      BY <1>3, SettledNumbers
    <3>3. dynamicPriority[s] > Highest => Cardinality(Settled(s)) >= dynamicPriority[s] - Highest
      BY <1>3, <1>4 DEF AgingInv, AgedAreNext
    <3>4. dynamicPriority'[s] \in Nat
      BY <1>2, <1>3
    <3>5. QED BY <1>2, <3>1, <3>2, <3>3, <3>4
  <2>2. ASSUME NEW q \in Processors \ {p}, cpu[q] = "Link"
        PROVE  dynamicPriority'[chosen[q]] <= Highest + Cardinality(Threads)
    <3>1. chosen[q] \in Threads /\ chosen[q] \notin ToSet(threadQueue[p])
      BY <1>2, <1>6, <2>2 DEF AgingInv, HandledAreCreated
    <3>2. dynamicPriority'[chosen[q]] = dynamicPriority[chosen[q]]
      BY <1>2, <1>5, <3>1
    <3>3. QED BY <2>2, <3>2 DEF AgingInv, ChosenAreBounded
  <2>3. QED BY <1>7, <2>1, <2>2 DEF ChosenAreBounded
<1>11. ASSUME NEW t \in Threads, ready'[t], dynamicPriority'[t] > Highest
       PROVE  Cardinality(Settled(t)') >= dynamicPriority'[t] - Highest
  <2>1. t # s /\ ready[t] /\ processor'[t] = processor[t] /\ processor[t] \in Processors
    BY <1>1, <1>2, <1>4, <1>11
  <2>2. /\ Cardinality(Settled(t)) \in Nat /\ Cardinality(Settled(t)') \in Nat
        /\ IsFiniteSet(Settled(t)) /\ IsFiniteSet(Settled(t)')
        /\ Settled(t) \subseteq Settled(t)' => Cardinality(Settled(t)) <= Cardinality(Settled(t)')
    BY SettledNumbers
  <2>3. dynamicPriority[t] > Highest =>
          Cardinality(Settled(t)) >= dynamicPriority[t] - Highest
    BY <2>1 DEF AgingInv, AgedAreNext
  <2>4. Settled(t) \subseteq Settled(t)'
    <3> SUFFICES ASSUME NEW u \in Threads, MayPrecede(u, t)' PROVE MayPrecede(u, t)
      BY DEF Settled
    <3>1. CASE Before(threadQueue'[processor[t]], u, t)
      BY <1>4, <2>1, <3>1 DEF MayPrecede
    <3>2. CASE /\ u \in ToSet(threadQueue'[processor[t]])
               /\ dynamicPriority'[u] > dynamicPriority'[t]
      <4>1. u \in ToSet(threadQueue[processor[t]]) /\ processor[u] = processor[t]
        BY <1>4, <2>1, <3>2 DEF AgingInv, QueuesAreOwn
      <4>2. CASE processor[t] # p
        <5>1. t \notin ToSet(threadQueue[p]) /\ u \notin ToSet(threadQueue[p])
          BY <1>6, <4>1, <4>2
        <5>2. dynamicPriority'[t] = dynamicPriority[t] /\ dynamicPriority'[u] = dynamicPriority[u]
          BY <1>2, <1>5, <5>1
        <5>3. QED BY <3>2, <4>1, <5>2 DEF MayPrecede
      <4>3. CASE processor[t] = p
        <5>1. t # cur
          <6>1. CASE t = cur
            BY <1>2, <1>5, <1>8, <1>11, <4>3, <6>1
          <6>2. QED BY <6>1
        <5>2. dynamicPriority'[t] = dynamicPriority[t] + 1
          BY <1>5, <1>6, <2>1, <4>3, <5>1
        <5>3. dynamicPriority'[u] <= dynamicPriority[u] + 1 /\ dynamicPriority[u] \in Nat
              /\ dynamicPriority'[u] \in Nat /\ dynamicPriority[t] \in Nat
          BY <1>2, <1>5
        <5>4. dynamicPriority[u] > dynamicPriority[t]
          BY <3>2, <5>2, <5>3
        <5>5. QED BY <4>1, <5>4 DEF MayPrecede
      <4>4. QED BY <4>2, <4>3
    <3>3. QED BY <2>1, <3>1, <3>2 DEF MayPrecede
  <2>5. CASE processor[t] # p
    <3>1. dynamicPriority'[t] = dynamicPriority[t]
      BY <1>2, <1>5, <1>6, <2>5
    <3>2. QED BY <1>2, <1>11, <2>2, <2>3, <2>4, <3>1
  <2>6. CASE processor[t] = p
    <3>1. t \in ToSet(threadQueue[p]) /\ t # cur
      <4>1. CASE t = cur
        BY <1>2, <1>5, <1>8, <1>11, <2>6, <4>1
      <4>2. QED BY <1>6, <2>1, <2>6, <4>1
    <3>2. dynamicPriority'[t] = dynamicPriority[t] + 1 /\ dynamicPriority[t] \in Nat
      BY <1>2, <1>5, <3>1
    <3>3. s \in Settled(t)'
      <4>1. s \notin ToSet(threadQueue'[p])
        BY <1>3, <1>4
      <4>2. ~Before(threadQueue'[p], s, t)
        BY <4>1 DEF Before, ToSet
      <4>3. QED BY <1>3, <2>1, <2>6, <4>1, <4>2 DEF Settled, MayPrecede
    <3>4. CASE dynamicPriority[t] <= Highest
      <4>1. Cardinality(Settled(t)') # 0
        BY <2>2, <3>3, FS_EmptySet
      <4>2. QED BY <1>2, <2>2, <3>2, <3>4, <4>1
    <3>5. CASE dynamicPriority[t] > Highest
      <4>1. MayPrecede(s, t)
        <5>1. IF s = cur THEN dynamicPriority[t] <= dynamicPriority[s] ELSE MayPrecede(s, t)
          BY <1>1, <2>1, <3>1, SelectedPrecedes DEF AgingInv, s
        <5>2. s # cur
          <6>1. CASE s = cur
            BY <1>2, <1>3, <1>4, <1>8, <3>2, <3>5, <5>1, <6>1
          <6>2. QED BY <6>1
        <5>3. QED BY <5>1, <5>2
      <4>2. s \notin Settled(t)
        BY <4>1 DEF Settled
      <4>3. /\ IsFiniteSet(Settled(t) \cup {s})
            /\ Cardinality(Settled(t) \cup {s}) = Cardinality(Settled(t)) + 1
        BY <2>2, <4>2, FS_AddElement
      <4>4. Cardinality(Settled(t) \cup {s}) <= Cardinality(Settled(t)')
        <5>1. Settled(t) \cup {s} \subseteq Settled(t)'
          BY <2>4, <3>3
        <5>2. QED BY <2>2, <5>1, FS_Subset
      <4>5. QED BY <1>2, <2>2, <2>3, <3>2, <3>5, <4>3, <4>4
    <3>6. QED BY <1>2, <3>2, <3>4, <3>5
  <2>7. QED BY <2>5, <2>6
<1>12. QED BY <1>9, <1>10, <1>11 DEF AgedAreNext
-----------------------------------------------------------------------------

\* At start no thread has aged.
LEMMA AgingInit == IsFiniteSet(StaticPriorities) /\ Init => AgingInv
<1> SUFFICES ASSUME IsFiniteSet(StaticPriorities), Init PROVE AgingInv
  OBVIOUS
<1>1. TypeOK
  BY TypeInit
<1>2. Highest \in Nat /\ \A s \in StaticPriorities : s \in Nat /\ s <= Highest
  BY GivenPriorities
<1>3. PICK s \in StaticPriorities :
        staticPriority = [t \in Threads |-> IF t \in BootThreads THEN s ELSE 0]
  BY DEF Init
<1>4. \A t \in Threads : staticPriority[t] <= Highest /\ dynamicPriority[t] <= Highest
  BY <1>2, <1>3 DEF Init
<1>5. /\ threadQueue = BootQueue /\ sleepQueue = [p \in Processors |-> <<>>]
      /\ currentThread = [p \in Processors |-> Idle]
      /\ cpu = [p \in Processors |-> "Schedule"]
      /\ ready = [t \in Threads |-> t \in BootThreads]
      /\ suspended = [t \in Threads |-> FALSE]
      /\ life = [t \in Threads |-> IF t \in BootThreads THEN "live" ELSE "free"]
      /\ processor \in [Threads -> Processors]
      /\ \A t \in Threads : t \in BootThreads => t \in ToSet(BootQueue[processor[t]])
      /\ pc = [t \in Threads |-> "Body"]
      /\ remoteExecute = [p \in Processors |-> None]
  BY DEF Init
<1>6. \A p \in Processors : \A t \in ToSet(BootQueue[p]) :
        t \in Threads /\ t \in BootThreads /\ processor[t] = p
  <2> TAKE p \in Processors
  <2> TAKE t \in ToSet(BootQueue[p])
  <2>1. t \in BootThreads
    BY DEF BootThreads
  <2>2. t \in Threads
    BY BootQueueAssumption, QueueMembers
  <2>3. processor[t] = p
    BY <1>5, <2>1, <2>2, BootQueueAssumption
  <2>4. QED BY <2>1, <2>2, <2>3
<1>7. QueuesAreOwn
  BY <1>5, <1>6, BootQueueAssumption DEF QueuesAreOwn
<1>8. ToSet(<<>>) = {}
  BY DEF ToSet
<1>9. HandledAreCreated
  BY <1>5, <1>8 DEF HandledAreCreated
<1>10. OldAreWaiting
  <2>1. \A t \in Threads : dynamicPriority[t] \in Nat
    BY <1>1 DEF TypeOK
  <2>2. \A t \in Threads : ~(dynamicPriority[t] > Highest)
    BY <1>2, <1>4, <2>1
  <2>3. QED BY <1>4, <2>2 DEF OldAreWaiting
<1>11. ChosenAreBounded
  BY <1>5 DEF ChosenAreBounded
<1>12. AgedAreNext
  <2>1. \A t \in Threads : dynamicPriority[t] \in Nat
    BY <1>1 DEF TypeOK
  <2>2. \A t \in Threads : ~(dynamicPriority[t] > Highest)
    BY <1>2, <1>4, <2>1
  <2>3. QED BY <2>2 DEF AgedAreNext
<1>13. QED BY <1>7, <1>9, <1>10, <1>11, <1>12 DEF AgingInv

\* No step ages a thread beyond what AgingInv allows.
LEMMA AgingNext ==
  ASSUME TypeInv, TypeInv', AgingInv, IsFiniteSet(StaticPriorities), [Next]_vars
  PROVE  AgingInv'
<1>1. QueuesAreOwn' /\ HandledAreCreated'
  BY OwnNext, HandledNext
<1>2. OldAreWaiting' /\ ChosenAreBounded' /\ AgedAreNext'
  BY StepIsCalm, CalmOld, CalmAged, SelectionKeeps
<1>3. QED BY <1>1, <1>2 DEF AgingInv

\* The priority of every thread stays within what the invariant says of waiting,
\* chosen and other threads.
LEMMA AgingInvBounds ==
  ASSUME TypeInv, AgingInv, IsFiniteSet(StaticPriorities)
  PROVE  AgingBound
<1> SUFFICES ASSUME NEW t \in Threads
             PROVE  dynamicPriority[t] <= Highest + Cardinality(Threads)
  BY DEF AgingBound, Highest
<1>1. /\ Highest \in Nat /\ dynamicPriority[t] \in Nat
      /\ Cardinality(Threads) \in Nat /\ Cardinality(Settled(t)) \in Nat
      /\ Cardinality(Settled(t)) + 1 <= Cardinality(Threads)
  BY GivenPriorities, SettledNumbers DEF TypeInv, TypeOK
<1>2. CASE dynamicPriority[t] <= Highest
  BY <1>1, <1>2
<1>3. CASE Linking(t)
  BY <1>3 DEF Linking, AgingInv, ChosenAreBounded
<1>4. CASE ready[t] /\ dynamicPriority[t] > Highest
  <2>1. Cardinality(Settled(t)) >= dynamicPriority[t] - Highest
    BY <1>4 DEF AgingInv, AgedAreNext
  <2>2. QED BY <1>1, <2>1
<1>5. QED BY <1>1, <1>2, <1>3, <1>4 DEF AgingInv, OldAreWaiting

\* What the priorities, the queues and the threads being chosen satisfy in every
\* reachable state, for any number of processors and threads, however they use the
\* services, as long as finitely many static priorities are given.
THEOREM AgingInvariant == IsFiniteSet(StaticPriorities) => (Spec => [](TypeInv /\ AgingInv))
<1> SUFFICES ASSUME IsFiniteSet(StaticPriorities) PROVE Spec => [](TypeInv /\ AgingInv)
  OBVIOUS
<1>1. Init => TypeInv /\ AgingInv
  <2>1. Init => TypeInv
    BY TypeInit DEF Init, TypeInv
  <2>2. QED BY <2>1, AgingInit
<1>2. TypeInv /\ AgingInv /\ [Next]_vars => (TypeInv /\ AgingInv)'
  BY TypeNext, AgingNext
<1>3. QED BY <1>1, <1>2, PTL DEF Spec

\* No thread is passed over so often that its priority exceeds the highest static
\* one by more than the number of threads: the scan (schedule.c:74) raises every
\* thread it passes, but each time it passes one beyond that priority the thread
\* it selects instead will not come before that one again.
THEOREM AgingIsBounded == IsFiniteSet(StaticPriorities) => (Spec => []AgingBound)
<1> SUFFICES ASSUME IsFiniteSet(StaticPriorities) PROVE Spec => []AgingBound
  OBVIOUS
<1>1. TypeInv /\ AgingInv => AgingBound
  BY AgingInvBounds
<1>2. Spec => [](TypeInv /\ AgingInv)
  BY AgingInvariant
<1>3. QED BY <1>1, <1>2, PTL
=============================================================================
