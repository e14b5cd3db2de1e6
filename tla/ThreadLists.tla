----------------------------- MODULE ThreadLists -----------------------------
(***************************************************************************)
(* What the queues of the processors promise the scheduler: the ready      *)
(* threads of each in the order they were linked, its sleeping ones in the *)
(* order they went to sleep, and no thread in two of them.                 *)
(***************************************************************************)
EXTENDS SequencesExt

CONSTANTS Threads, Processors

VARIABLES ready, sleeping     \* [Processors -> Seq(Threads)]

Queued == UNION {ToSet(ready[p]) \cup ToSet(sleeping[p]) : p \in Processors}

\* The queue of p loses t, wherever it stands, or gets it behind the others.
Without(queue, p, t, queue2) ==
  \E i \in DOMAIN queue[p] :
    queue[p][i] = t /\ queue2 = [queue EXCEPT ![p] = RemoveAt(@, i)]
With(queue, p, t, queue2) == queue2 = [queue EXCEPT ![p] = Append(@, t)]

Link(p, t) ==
  /\ t \notin Queued
  /\ With(ready, p, t, ready')
  /\ UNCHANGED sleeping

Unlink(p, t) ==
  /\ Without(ready, p, t, ready')
  /\ UNCHANGED sleeping

\* From the ready threads to the sleeping ones, and back.
FallAsleep(p, t) ==
  /\ Without(ready, p, t, ready')
  /\ With(sleeping, p, t, sleeping')

Wake(p, t) ==
  /\ Without(sleeping, p, t, sleeping')
  /\ With(ready, p, t, ready')

Init ==
  /\ ready \in [Processors -> Seq(Threads)]
  /\ \A p \in Processors : IsInjective(ready[p])
  /\ \A p, q \in Processors : p # q => ToSet(ready[p]) \cap ToSet(ready[q]) = {}
  /\ sleeping = [p \in Processors |-> <<>>]

Next ==
  \E p \in Processors, t \in Threads :
    Link(p, t) \/ Unlink(p, t) \/ FallAsleep(p, t) \/ Wake(p, t)

Spec == Init /\ [][Next]_<<ready, sleeping>>
=============================================================================
