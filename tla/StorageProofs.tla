---------------------------- MODULE StorageProofs ----------------------------
(***************************************************************************)
(* Proofs about Storage, for a list of any length, any number of process   *)
(* and swap threads and both kinds of lock.                                *)
(*                                                                         *)
(* The invariant has three parts.  Owned says of one thread what it knows  *)
(* at its place of the nodes it has locked, which nobody else can change.  *)
(* Exclusive is what the locks guarantee.  Ranked says that the list is    *)
(* whole: every node has a rank of its own, and links lead from rank to    *)
(* rank but for the links of swaps that are under way.                     *)
(***************************************************************************)
EXTENDS Storage, FiniteSetTheorems, SequenceTheorems, TLAPS

ProcessPlaces == {"enter", "start", "try1", "try2", "compare", "free2",
                  "drop1", "step"}

SwapPlaces == Places \ {"enter", "compare"}

\* The places where a thread is at a node, ..
OnNode == {"try2", "try3", "drop1", "drop2", "compare", "free2", "step",
           "skip_load", "store1", "store2", "store3", "swapped", "free1"}

\* .. has found a second ..
HasSecond == {"compare", "try3", "drop2", "store1", "swapped"}

\* .. and a third.
HasThird == {"store1", "swapped"}

Owned(t) ==
    LET curr == Curr(t)
        curr2 == loc[t].curr2
        curr3 == loc[t].curr3
    IN  /\ \A n \in Nodes : t \in locks[n] <=> Needs(t, n)
        /\ t \in Processors => pc[t] \in ProcessPlaces
        /\ t \in Swappers => pc[t] \in SwapPlaces
        /\ pc[t] \in OnNode => curr \in Nodes
        /\ pc[t] \in HasSecond => next[curr] \in Nodes \ {curr}
        /\ pc[t] \in HasThird =>
             next[next[curr]] \in Nodes \ {curr, next[curr]}
        /\ Between(t) =>
             /\ curr2 \in Nodes \ {curr} /\ curr3 \in Nodes \ {curr, curr2}
             /\ next[curr] = curr2
        /\ pc[t] = "store2" => next[curr2] = next[curr3]
        /\ pc[t] = "store3" => next[curr3] = curr2
        /\ pc[t] = "free1" => curr2 \in Nodes \ {curr}
        /\ pc[t] \in {"check3", "free3"} => curr2 \in Nodes

\* A node that a swap thread has locked is locked by nobody else.
Exclusive ==
    \A n \in Nodes : \A t, u \in locks[n] :
        t # u => t \in Processors /\ u \in Processors

\* A swap under way has changed the link of the node and is not over.
Pending(t, n) ==
    \/ Between(t) /\ n = loc[t].curr2
    \/ pc[t] = "store3" /\ n = loc[t].curr3

Stable(n) == \A t \in Swappers : ~Pending(t, n)

Follows(rank, n, m) ==
    \/ m = NULL /\ rank[n] = Size
    \/ m \in Nodes /\ rank[m] = rank[n] + 1

Ranked(rank) ==
    /\ \A m, n \in Nodes : rank[m] = rank[n] => m = n
    /\ rank[1] = 1
    /\ \A n \in Nodes : Stable(n) => Follows(rank, n, next[n])
    /\ \A t \in Swappers : Between(t) =>
         /\ rank[loc[t].curr2] = rank[loc[t].curr] + 1
         /\ rank[loc[t].curr3] = rank[loc[t].curr2] + 1
         /\ Follows(rank, loc[t].curr3, next[loc[t].curr2])

\* All nodes are on the list, each once, and the first stays the first.
Whole == \E rank \in [Nodes -> Nodes] : Ranked(rank)

\* A step that keeps the nodes in order.
SameRanks ==
    \A rank \in [Nodes -> Nodes] : Ranked(rank) => Ranked(rank)'

\* The only way to crash
CrashedSkipping ==
    crashed => \E t \in Swappers : pc[t] = "skip" /\ Curr(t) = NULL

IInv ==
    /\ TypeOK
    /\ \A t \in Threads : Owned(t)
    /\ Exclusive
    /\ Whole
    /\ CrashedSkipping

-----------------------------------------------------------------------------
\* Process and swap threads are different threads.
LEMMA Disjoint == \A t \in Swappers : t \notin Processors /\ t \in Threads
  BY StorageAssumption DEF Threads

\* A set of natural numbers has a least element.
LEMMA LeastOne ==
  ASSUME NEW S \in SUBSET Nat, S # {}
  PROVE  \E n \in S : \A m \in S : n <= m
<1>1. PICK n \in S : \A m \in S : ~(<<m, n>> \in OpToRel(<, Nat))
  BY NatLessThanWellFounded, WFMin
<1>2. ASSUME NEW m \in S
      PROVE  n <= m
  <2>1. <<m, n>> \in Nat \X Nat /\ ~(<<m, n>> \in OpToRel(<, Nat))
    BY <1>1
  <2>2. ~(m < n)
    BY <2>1 DEF OpToRel
  <2> QED
    BY <2>2
<1> QED
  BY <1>2

(***************************************************************************)
(* What a thread knows stays true while others run, because they change    *)
(* only links of nodes it has not locked.                                  *)
(***************************************************************************)
LEMMA OthersOwn ==
  ASSUME TypeOK, NEW u \in Threads, Owned(u),
         pc'[u] = pc[u], loc'[u] = loc[u],
         \A n \in Nodes : u \in locks'[n] <=> u \in locks[n],
         \A n \in Nodes : u \in locks[n] => next'[n] = next[n]
  PROVE  Owned(u)'
<1>1. Curr(u)' = Curr(u) /\ Between(u)' = Between(u)
  BY DEF Curr, Between
<1>2. pc[u] \in HasSecond \cup {"store2", "store3"} =>
        Curr(u) \in Nodes /\ next'[Curr(u)] = next[Curr(u)]
  BY DEF Owned, Needs, HasSecond, OnNode
<1>3. pc[u] \in HasThird => next'[next[Curr(u)]] = next[next[Curr(u)]]
  BY DEF Owned, Needs, HasSecond, HasThird
<1>4. pc[u] \in {"store2", "store3"} =>
        /\ next'[loc[u].curr2] = next[loc[u].curr2]
        /\ next'[loc[u].curr3] = next[loc[u].curr3]
  BY DEF Owned, Needs, Between
<1>5. \A n \in Nodes : Needs(u, n)' <=> Needs(u, n)
  BY <1>1, <1>2, <1>3 DEF Needs, HasSecond, HasThird
<1> QED
  BY <1>1, <1>2, <1>3, <1>4, <1>5
  DEF Owned, HasSecond, HasThird, Between

\* Locking what can be locked and unlocking keep nodes apart.
LEMMA LocksExclude ==
  ASSUME TypeOK, Exclusive, NEW t \in Threads, NEW n \in Nodes,
         \/ CanRead(n) /\ t \in Processors /\ Lock(t, n)
         \/ CanWrite(n) /\ Lock(t, n)
         \/ Unlock(t, n)
  PROVE  /\ Exclusive'
         /\ locks' \in [Nodes -> SUBSET Threads]
         /\ \A m \in Nodes, u \in Threads \ {t} :
              u \in locks'[m] <=> u \in locks[m]
<1>1. CASE CanRead(n) /\ t \in Processors /\ Lock(t, n)
  <2>1. \A u \in locks[n] : u \in Processors
    BY <1>1 DEF CanRead, TypeOK, Threads
  <2> QED
    BY <1>1, <2>1 DEF Exclusive, Lock, TypeOK
<1>2. CASE CanWrite(n) /\ Lock(t, n)
  BY <1>2 DEF Exclusive, CanWrite, Lock, TypeOK
<1>3. CASE Unlock(t, n)
  BY <1>3 DEF Exclusive, Unlock, TypeOK
<1> QED
  BY <1>1, <1>2, <1>3

\* The link of a node that a thread has locked is as the list has it, unless
\* the thread is changing it itself.
LEMMA LockedIsStable ==
  ASSUME IInv, NEW t \in Threads, ~Between(t), NEW n \in Nodes, t \in locks[n]
  PROVE  Stable(n)
<1> SUFFICES ASSUME NEW u \in Swappers, Pending(u, n)
             PROVE  FALSE
  BY DEF Stable
<1>1. u \in locks[n]
  BY Disjoint DEF IInv, Owned, Pending, Needs, Between
<1>2. u = t
  BY <1>1, Disjoint DEF IInv, Exclusive
<1> QED
  BY <1>2 DEF Pending, Between

(***************************************************************************)
(* A step that changes no link and is no part of a swap keeps the          *)
(* invariant if the thread that takes it knows its place.                  *)
(***************************************************************************)
LEMMA QuietStep ==
  ASSUME IInv, NEW t \in Threads, ~Between(t), ~Between(t)', Owned(t)',
         UNCHANGED <<kind, next>>,
         pc' \in [Threads -> Places], loc' \in [Threads -> Locals],
         \A u \in Threads \ {t} : pc'[u] = pc[u] /\ loc'[u] = loc[u],
         \/ UNCHANGED locks
         \/ \E n \in Nodes :
              \/ CanRead(n) /\ t \in Processors /\ Lock(t, n)
              \/ CanWrite(n) /\ Lock(t, n)
              \/ Unlock(t, n),
         crashed' \in BOOLEAN, CrashedSkipping'
  PROVE  IInv' /\ SameRanks
<1>1. /\ Exclusive'
      /\ locks' \in [Nodes -> SUBSET Threads]
      /\ \A m \in Nodes, u \in Threads \ {t} :
           u \in locks'[m] <=> u \in locks[m]
  <2>1. CASE UNCHANGED locks
    BY <2>1 DEF IInv, Exclusive, TypeOK
  <2>2. CASE ~UNCHANGED locks
    BY <2>2, LocksExclude DEF IInv
  <2> QED
    BY <2>1, <2>2
<1>2. TypeOK'
  BY <1>1 DEF IInv, TypeOK
<1>3. \A u \in Threads : Owned(u)'
  BY <1>1, OthersOwn DEF IInv
<1>4. ASSUME NEW rank \in [Nodes -> Nodes], Ranked(rank)
      PROVE  Ranked(rank)'
  <2>2. \A u \in Swappers :
          /\ Between(u)' <=> Between(u)
          /\ Between(u) => loc'[u] = loc[u]
          /\ \A n : Pending(u, n)' <=> Pending(u, n)
    BY Disjoint DEF Between, Pending
  <2>3. \A n : Stable(n)' <=> Stable(n)
    BY <2>2 DEF Stable
  <2> QED
    BY <1>4, <2>2, <2>3 DEF Ranked, Follows
<1>5. Whole'
  BY <1>4 DEF IInv, Whole
<1> QED
  BY <1>1, <1>2, <1>3, <1>4, <1>5 DEF IInv, SameRanks

(***************************************************************************)
(* The walk of a thread: no step but the stores of a swap changes a link.  *)
(* Each step is quiet, and leaves its thread knowing what it has to know.  *)
(***************************************************************************)
Quiet(t) ==
    /\ ~Between(t) /\ ~Between(t)'
    /\ UNCHANGED <<kind, next>>
    /\ pc' \in [Threads -> Places] /\ loc' \in [Threads -> Locals]
    /\ \A u \in Threads \ {t} : pc'[u] = pc[u] /\ loc'[u] = loc[u]
    /\ \/ UNCHANGED locks
       \/ \E n \in Nodes :
            \/ CanRead(n) /\ t \in Processors /\ Lock(t, n)
            \/ CanWrite(n) /\ Lock(t, n)
            \/ Unlock(t, n)
    /\ crashed' \in BOOLEAN /\ CrashedSkipping'

LEMMA QuietStepKeeps ==
  ASSUME IInv, NEW t \in Threads, Quiet(t), Owned(t)'
  PROVE  IInv' /\ SameRanks
  BY QuietStep DEF Quiet

\* There is a first node, and NULL is none.
LEMMA FirstNode == 1 \in Nodes /\ NULL \notin Nodes
  BY StorageAssumption DEF Nodes, NULL

\* A node is not its own neighbour, and the first has one.
LEMMA NeighbourDiffers ==
  ASSUME IInv
  PROVE  /\ next[1] \in Nodes
         /\ \A t \in Threads, n \in Nodes :
              t \in locks[n] /\ ~Between(t) => next[n] # n
<1>1. PICK rank \in [Nodes -> Nodes] : Ranked(rank)
  BY DEF IInv, Whole
<1>2. ASSUME NEW t \in Threads, NEW n \in Nodes, t \in locks[n], ~Between(t)
      PROVE  next[n] # n
  <2>1. Follows(rank, n, next[n])
    BY <1>1, <1>2, LockedIsStable DEF Ranked
  <2> QED
    BY <2>1, StorageAssumption DEF Follows, Nodes, NULL
<1>3. Stable(1)
  <2> SUFFICES ASSUME NEW u \in Swappers, Pending(u, 1)
               PROVE  FALSE
    BY DEF Stable
  <2>1. /\ Between(u) /\ Curr(u) \in Nodes
        /\ loc[u].curr2 \in Nodes /\ loc[u].curr3 \in Nodes
    BY Disjoint DEF IInv, Owned, Pending, Between, OnNode
  <2>2. rank[loc[u].curr2] = rank[Curr(u)] + 1
        /\ rank[loc[u].curr3] = rank[Curr(u)] + 2
    BY <1>1, <2>1, StorageAssumption DEF Ranked, Nodes, Curr
  <2>3. rank[1] = 1 /\ rank[Curr(u)] \in Nat \ {0}
    BY <1>1, <2>1 DEF Ranked, Nodes
  <2>4. loc[u].curr2 = 1 \/ loc[u].curr3 = 1
    BY DEF Pending
  <2> QED
    BY <2>2, <2>3, <2>4
<1>4. next[1] \in Nodes
  BY <1>1, <1>3, StorageAssumption DEF Ranked, Follows, Nodes
<1> QED
  BY <1>2, <1>4

\* The steps of process_thread alone (main.c:26-60)
LEMMA ProcessSteps ==
  ASSUME IInv, NEW t \in Processors,
         Enter(t) \/ Pass(t) \/ ReadFirst(t) \/ ReadSecond(t) \/ Compare(t)
  PROVE  IInv' /\ SameRanks
<1> USE DEF IInv, TypeOK, At, Goto, MoveTo, Curr, Between, Locals,
            Places, ProcessPlaces, SwapPlaces, OnNode, HasSecond, HasThird
<1>0. t \in Threads
  BY DEF Threads
<1>1. CASE Enter(t)
  <2>1. Quiet(t)
    BY <1>0, <1>1, NeighbourDiffers, FirstNode
    DEF Enter, Quiet, CrashedSkipping, Owned
  <2>2. Owned(t)'
    BY <1>0, <1>1, NeighbourDiffers, FirstNode DEF Enter, Owned, Needs
  <2> QED
    BY <1>0, <2>1, <2>2, QuietStepKeeps
<1>2. CASE Pass(t)
  <2>1. Quiet(t)
    BY SMTT(20), <1>0, <1>2, NeighbourDiffers, FirstNode
    DEF Pass, Quiet, CrashedSkipping, Owned
  <2>2. Owned(t)'
    BY <1>0, <1>2, NeighbourDiffers, FirstNode DEF Pass, Owned, Needs
  <2> QED
    BY <1>0, <2>1, <2>2, QuietStepKeeps
<1>3. CASE ReadFirst(t)
  <2>1. Quiet(t)
    BY <1>0, <1>3 DEF ReadFirst, Quiet, CrashedSkipping, Owned
  <2>2. Owned(t)'
    BY <1>0, <1>3 DEF ReadFirst, Owned, Needs, Lock
  <2> QED
    BY <1>0, <2>1, <2>2, QuietStepKeeps
<1>4. CASE ReadSecond(t)
  <2>1. Quiet(t)
    BY <1>0, <1>4 DEF ReadSecond, Quiet, CrashedSkipping, Owned
  <2>2. Owned(t)'
    <3> DEFINE second == next[loc[t].curr]
    <3>0. /\ pc[t] = "try2" /\ UNCHANGED <<next, loc>>
          /\ \A n \in Nodes : t \in locks[n] <=> n = loc[t].curr
      BY <1>0, <1>4 DEF ReadSecond, Owned, Needs
    <3>1. CASE second # NULL /\ CanRead(second)
      <4>1. second \in Nodes \ {loc[t].curr}
        BY <1>0, <3>0, <3>1, NeighbourDiffers DEF Owned
      <4>2. /\ pc'[t] = "compare"
            /\ \A n \in Nodes :
                 t \in locks'[n] <=> n \in {loc[t].curr, second}
        BY <1>0, <1>4, <3>0, <3>1, <4>1 DEF ReadSecond, Lock
      <4>3. \A n \in Nodes : (t \in locks[n] <=> Needs(t, n))'
        BY <3>0, <4>2 DEF Needs
      <4>4. loc[t].curr \in Nodes /\ next[loc[t].curr] \in Nodes \ {loc[t].curr}
        BY <1>0, <3>0, <4>1 DEF Owned
      <4> HIDE DEF second
      <4> QED
        BY <1>0, <3>0, <4>2, <4>3, <4>4, Disjoint DEF Owned
    <3>2. CASE ~(second # NULL /\ CanRead(second))
      <4>1. pc'[t] = "drop1" /\ UNCHANGED locks
        BY <1>0, <1>4, <3>2 DEF ReadSecond
      <4> QED
        BY <1>0, <3>0, <4>1 DEF Owned, Needs
    <3> QED
      BY <3>1, <3>2
  <2> QED
    BY <1>0, <2>1, <2>2, QuietStepKeeps
<1>5. CASE Compare(t)
  <2>1. Quiet(t)
    BY <1>0, <1>5 DEF Compare, Quiet, CrashedSkipping, Owned
  <2>2. Owned(t)'
    BY <1>0, <1>5 DEF Compare, Owned, Needs, Unlock
  <2> QED
    BY <1>0, <2>1, <2>2, QuietStepKeeps
<1> QED
  BY <1>1, <1>2, <1>3, <1>4, <1>5

\* The steps that process_thread and swap_thread share (main.c:59-75, 133-149)
LEMMA CommonSteps ==
  ASSUME IInv, NEW t \in Threads,
         FreeCurr(t) \/ DropFirst(t) \/ Step(t)
  PROVE  IInv' /\ SameRanks
<1> USE DEF IInv, TypeOK, At, Goto, MoveTo, Curr, Between, Locals,
            Places, ProcessPlaces, SwapPlaces, OnNode, HasSecond, HasThird
<1>0. t \in Threads
  BY DEF Threads
<1>1. CASE FreeCurr(t)
  <2>1. Quiet(t)
    BY <1>0, <1>1 DEF FreeCurr, Quiet, CrashedSkipping, Owned
  <2>2. Owned(t)'
    BY <1>0, <1>1 DEF FreeCurr, Owned, Needs, Unlock
  <2> QED
    BY <1>0, <2>1, <2>2, QuietStepKeeps
<1>2. CASE DropFirst(t)
  <2>1. Quiet(t)
    BY <1>0, <1>2 DEF DropFirst, Quiet, CrashedSkipping, Owned
  <2>2. Owned(t)'
    BY <1>0, <1>2 DEF DropFirst, Owned, Needs, Unlock
  <2> QED
    BY <1>0, <2>1, <2>2, QuietStepKeeps
<1>3. CASE Step(t)
  <2>1. Quiet(t)
    BY <1>0, <1>3 DEF Step, Quiet, CrashedSkipping, Owned
  <2>2. Owned(t)'
    BY <1>0, <1>3 DEF Step, Owned, Needs
  <2> QED
    BY <1>0, <2>1, <2>2, QuietStepKeeps
<1> QED
  BY <1>1, <1>2, <1>3

\* The other steps of swap_thread that store no link (main.c:88-149)
LEMMA SwapWalk ==
  ASSUME IInv, NEW t \in Swappers,
         CheckFirst(t) \/ CheckLoad(t) \/ CheckSecond(t) \/ Skip(t) \/
         SkipLoad(t) \/ WriteFirst(t) \/ WriteSecond(t) \/ WriteThird(t) \/
         Swapped(t) \/ FreeMoved(t) \/ FreeSecond(t) \/ DropSecond(t)
  PROVE  IInv' /\ SameRanks
<1> USE DEF IInv, TypeOK, At, Goto, MoveTo, Curr, Between, Locals,
            Places, ProcessPlaces, SwapPlaces, OnNode, HasSecond, HasThird
<1>0. t \in Threads
  BY DEF Threads
<1>1. CASE CheckFirst(t)
  <2>1. Quiet(t)
    BY <1>0, <1>1, NeighbourDiffers, FirstNode, Disjoint
    DEF CheckFirst, Quiet, CrashedSkipping, Owned
  <2>2. Owned(t)'
    BY <1>0, <1>1, NeighbourDiffers, FirstNode, Disjoint
    DEF CheckFirst, Owned, Needs
  <2> QED
    BY <1>0, <2>1, <2>2, QuietStepKeeps
<1>2. CASE CheckLoad(t)
  <2>1. Quiet(t)
    BY <1>0, <1>2, NeighbourDiffers, FirstNode
    DEF CheckLoad, Quiet, CrashedSkipping, Owned
  <2>2. Owned(t)'
    BY <1>0, <1>2, NeighbourDiffers, FirstNode DEF CheckLoad, Owned, Needs
  <2> QED
    BY <1>0, <2>1, <2>2, QuietStepKeeps
<1>3. CASE CheckSecond(t)
  <2>1. Quiet(t)
    BY SMTT(20), <1>0, <1>3 DEF CheckSecond, Quiet, CrashedSkipping, Owned
  <2>2. Owned(t)'
    BY <1>0, <1>3 DEF CheckSecond, Owned, Needs
  <2> QED
    BY <1>0, <2>1, <2>2, QuietStepKeeps
<1>4. CASE Skip(t)
  <2>1. Quiet(t)
    <3>1. CASE Curr(t) = NULL
      <4>1. crashed' = TRUE /\ UNCHANGED <<kind, next, locks, loc, pc>>
        BY <1>4, <3>1 DEF Skip
      <4>2. CrashedSkipping'
        BY <1>4, <3>1, <4>1 DEF Skip, CrashedSkipping
      <4> QED
        BY <1>0, <1>4, <4>1, <4>2 DEF Skip, Quiet
    <3>2. CASE Curr(t) # NULL
      BY <1>0, <1>4, <3>2 DEF Skip, Quiet, CrashedSkipping
    <3> QED
      BY <3>1, <3>2
  <2>2. Owned(t)'
    BY <1>0, <1>4 DEF Skip, Owned, Needs
  <2> QED
    BY <1>0, <2>1, <2>2, QuietStepKeeps
<1>5. CASE SkipLoad(t)
  <2>1. Quiet(t)
    BY <1>0, <1>5 DEF SkipLoad, Quiet, CrashedSkipping, Owned
  <2>2. Owned(t)'
    BY <1>0, <1>5 DEF SkipLoad, Owned, Needs
  <2> QED
    BY <1>0, <2>1, <2>2, QuietStepKeeps
<1>6. CASE WriteFirst(t)
  <2>1. Quiet(t)
    BY <1>0, <1>6 DEF WriteFirst, Quiet, CrashedSkipping, Owned
  <2>2. Owned(t)'
    BY <1>0, <1>6 DEF WriteFirst, Owned, Needs, Lock, CanWrite
  <2> QED
    BY <1>0, <2>1, <2>2, QuietStepKeeps
<1>7. CASE WriteSecond(t)
  <2>1. Quiet(t)
    BY <1>0, <1>7 DEF WriteSecond, Quiet, CrashedSkipping, Owned
  <2>2. Owned(t)'
    <3> DEFINE second == next[loc[t].curr]
    <3>0. /\ pc[t] = "try2" /\ UNCHANGED <<next, loc>>
          /\ \A n \in Nodes : t \in locks[n] <=> n = loc[t].curr
      BY <1>0, <1>7 DEF WriteSecond, Owned, Needs
    <3>1. CASE second # NULL /\ CanWrite(second)
      <4>1. second \in Nodes \ {loc[t].curr}
        BY <1>0, <3>0, <3>1 DEF Owned, CanWrite
      <4>2. /\ pc'[t] = "try3"
            /\ \A n \in Nodes :
                 t \in locks'[n] <=> n \in {loc[t].curr, second}
        BY <1>0, <1>7, <3>0, <3>1, <4>1 DEF WriteSecond, Lock
      <4>3. \A n \in Nodes : (t \in locks[n] <=> Needs(t, n))'
        BY <3>0, <4>2 DEF Needs
      <4>4. loc[t].curr \in Nodes /\ next[loc[t].curr] \in Nodes \ {loc[t].curr}
        BY <1>0, <3>0, <4>1 DEF Owned
      <4> HIDE DEF second
      <4> QED
        BY <1>0, <3>0, <4>2, <4>3, <4>4, Disjoint DEF Owned
    <3>2. CASE ~(second # NULL /\ CanWrite(second))
      <4>1. pc'[t] = "drop1" /\ UNCHANGED locks
        BY <1>0, <1>7, <3>2 DEF WriteSecond
      <4> QED
        BY <1>0, <3>0, <4>1 DEF Owned, Needs
    <3> QED
      BY <3>1, <3>2
  <2> QED
    BY <1>0, <2>1, <2>2, QuietStepKeeps
<1>8. CASE WriteThird(t)
  <2>1. Quiet(t)
    BY <1>0, <1>8 DEF WriteThird, Quiet, CrashedSkipping, Owned
  <2>2. Owned(t)'
    <3> DEFINE first  == loc[t].curr
               second == next[first]
               third  == next[second]
    <3>0. /\ pc[t] = "try3" /\ UNCHANGED <<next, loc>>
          /\ first \in Nodes /\ second \in Nodes \ {first}
          /\ \A n \in Nodes : t \in locks[n] <=> n \in {first, second}
      BY <1>0, <1>8 DEF WriteThird, Owned, Needs
    <3>1. CASE third # NULL /\ CanWrite(third)
      <4>1. third \in Nodes \ {first, second}
        BY <3>0, <3>1 DEF CanWrite
      <4>2. /\ pc'[t] = "store1"
            /\ \A n \in Nodes :
                 t \in locks'[n] <=> n \in {first, second, third}
        BY <1>0, <1>8, <3>0, <3>1, <4>1 DEF WriteThird, Lock
      <4>3. \A n \in Nodes : (t \in locks[n] <=> Needs(t, n))'
        BY <3>0, <4>2 DEF Needs
      <4> HIDE DEF third
      <4> QED
        BY <1>0, <3>0, <4>1, <4>2, <4>3, Disjoint DEF Owned, third
    <3>2. CASE ~(third # NULL /\ CanWrite(third))
      <4>1. pc'[t] = "drop2" /\ UNCHANGED locks
        BY <1>0, <1>8, <3>2 DEF WriteThird
      <4> QED
        BY <1>0, <3>0, <4>1 DEF Owned, Needs
    <3> QED
      BY <3>1, <3>2
  <2> QED
    BY <1>0, <2>1, <2>2, QuietStepKeeps
<1>9. CASE Swapped(t)
  <2>1. Quiet(t)
    BY <1>0, <1>9 DEF Swapped, Quiet, CrashedSkipping, Owned
  <2>2. Owned(t)'
    BY <1>0, <1>9 DEF Swapped, Owned, Needs, Unlock
  <2> QED
    BY <1>0, <2>1, <2>2, QuietStepKeeps
<1>10. CASE FreeMoved(t)
  <2>1. Quiet(t)
    BY <1>0, <1>10 DEF FreeMoved, Quiet, CrashedSkipping, Owned
  <2>2. Owned(t)'
    BY <1>0, <1>10 DEF FreeMoved, Owned, Needs, Unlock
  <2> QED
    BY <1>0, <2>1, <2>2, QuietStepKeeps
<1>11. CASE FreeSecond(t)
  <2>1. Quiet(t)
    BY <1>0, <1>11 DEF FreeSecond, Quiet, CrashedSkipping, Owned
  <2>2. Owned(t)'
    BY <1>0, <1>11 DEF FreeSecond, Owned, Needs, Unlock
  <2> QED
    BY <1>0, <2>1, <2>2, QuietStepKeeps
<1>12. CASE DropSecond(t)
  <2>1. Quiet(t)
    BY <1>0, <1>12 DEF DropSecond, Quiet, CrashedSkipping, Owned
  <2>2. Owned(t)'
    BY <1>0, <1>12 DEF DropSecond, Owned, Needs, Unlock
  <2> QED
    BY <1>0, <2>1, <2>2, QuietStepKeeps
<1> QED
  BY <1>1, <1>2, <1>3, <1>4, <1>5, <1>6, <1>7, <1>8, <1>9, <1>10, <1>11, <1>12

(***************************************************************************)
(* A store to the link of a node the thread has locked: nobody else        *)
(* notices it.                                                             *)
(***************************************************************************)
LEMMA StoreStep ==
  ASSUME IInv, NEW t \in Swappers, NEW x \in Nodes, t \in locks[x],
         next' \in [Nodes -> Nodes \cup {NULL}],
         \A n \in Nodes \ {x} : next'[n] = next[n],
         UNCHANGED <<kind, locks, crashed>>, ~crashed,
         pc' \in [Threads -> Places], loc' \in [Threads -> Locals],
         \A u \in Threads \ {t} : pc'[u] = pc[u] /\ loc'[u] = loc[u],
         Owned(t)', Whole'
  PROVE  IInv'
<1>1. TypeOK' /\ Exclusive' /\ CrashedSkipping'
  BY DEF IInv, TypeOK, Exclusive, CrashedSkipping
<1>2. ASSUME NEW u \in Threads \ {t}
      PROVE  Owned(u)'
  <2>1. \A n \in Nodes : u \in locks[n] => n # x
    BY Disjoint DEF IInv, Exclusive
  <2> QED
    BY <2>1, OthersOwn DEF IInv
<1> QED
  BY <1>1, <1>2 DEF IInv

\* What a swap knows of the others that are under way: they are somewhere
\* else, and its steps are none of theirs.
LEMMA OtherSwaps ==
  ASSUME IInv, NEW t \in Swappers, NEW u \in Swappers \ {t}, Between(u)
  PROVE  /\ {loc[u].curr, loc[u].curr2, loc[u].curr3} \subseteq Nodes
         /\ \A n \in {loc[u].curr, loc[u].curr2, loc[u].curr3} :
              t \notin locks[n]
<1>1. {loc[u].curr, loc[u].curr2, loc[u].curr3} \subseteq Nodes
  BY Disjoint DEF IInv, Owned, Between, OnNode, Curr
<1>2. \A n \in {loc[u].curr, loc[u].curr2, loc[u].curr3} : u \in locks[n]
  BY <1>1, Disjoint DEF IInv, Owned, Between, Needs, Curr
<1> QED
  BY <1>1, <1>2, Disjoint DEF IInv, Exclusive

\* curr2->next = curr3->next (main.c:114-116): the third node is cut off.
LEMMA FirstStore ==
  ASSUME IInv, NEW t \in Swappers, Store1(t)
  PROVE  IInv' /\ SameRanks
<1> DEFINE a == loc[t].curr
           b == next[a]
           c == next[b]
<1>0. t \in Threads /\ pc[t] = "store1" /\ ~crashed /\ ~Between(t)
  BY Disjoint DEF Store1, At, Between
<1>1. /\ a \in Nodes /\ b \in Nodes \ {a} /\ c \in Nodes \ {a, b}
      /\ \A n \in Nodes : t \in locks[n] <=> n \in {a, b, c}
  BY <1>0 DEF IInv, Owned, OnNode, HasSecond, HasThird, Needs, Curr
<1>2. /\ next' = [next EXCEPT ![b] = next[c]]
      /\ loc' = [loc EXCEPT ![t].curr2 = b, ![t].curr3 = c]
      /\ pc' = [pc EXCEPT ![t] = "store2"]
      /\ UNCHANGED <<kind, locks, crashed>>
  BY DEF Store1, Goto, Curr
<1>3. /\ next' \in [Nodes -> Nodes \cup {NULL}]
      /\ \A n \in Nodes \ {b} : next'[n] = next[n]
      /\ next'[b] = next[c]
  BY <1>1, <1>2 DEF IInv, TypeOK
<1>4. /\ pc' \in [Threads -> Places] /\ pc'[t] = "store2"
      /\ loc' \in [Threads -> Locals]
      /\ loc'[t].curr = a /\ loc'[t].curr2 = b /\ loc'[t].curr3 = c
      /\ \A u \in Threads \ {t} : pc'[u] = pc[u] /\ loc'[u] = loc[u]
  <2>1. /\ pc' \in [Threads -> Places] /\ pc'[t] = "store2"
        /\ \A u \in Threads \ {t} : pc'[u] = pc[u]
    BY <1>0, <1>2 DEF IInv, TypeOK, Places
  <2>2. loc \in [Threads -> Locals] /\ loc[t] \in Locals
    BY <1>0 DEF IInv, TypeOK
  <2>3. /\ loc'[t] = [loc[t] EXCEPT !.curr2 = b, !.curr3 = c]
        /\ \A u \in Threads \ {t} : loc'[u] = loc[u]
    BY <1>0, <1>2, <2>2
  <2>4. /\ loc'[t] \in Locals
        /\ loc'[t].curr = a /\ loc'[t].curr2 = b /\ loc'[t].curr3 = c
    BY <1>1, <2>2, <2>3 DEF Locals
  <2>5. loc' \in [Threads -> Locals]
    BY <1>0, <1>2, <2>2, <2>4
  <2> QED
    BY <2>1, <2>3, <2>4, <2>5
<1> HIDE DEF b, c
<1>5. Owned(t)'
  BY SMTT(20), <1>0, <1>1, <1>2, <1>3, <1>4, Disjoint
  DEF Owned, OnNode, HasSecond, HasThird, Needs, Curr, Between, SwapPlaces,
      Places, b
<1>6. ASSUME NEW rank \in [Nodes -> Nodes], Ranked(rank)
      PROVE  Ranked(rank)'
  <2>2. rank[b] = rank[a] + 1 /\ rank[c] = rank[b] + 1
    BY <1>0, <1>1, <1>6, LockedIsStable, FirstNode DEF Ranked, Follows, b, c
  <2>3. Follows(rank, c, next[c])
    BY <1>0, <1>1, <1>6, LockedIsStable DEF Ranked
  <2>4. ASSUME NEW n \in Nodes, Stable(n)'
        PROVE  Follows(rank, n, next'[n])
    <3>1. n # b
      BY <1>4, <2>4 DEF Stable, Pending, Between
    <3>2. Stable(n)
      BY <1>0, <1>4, <2>4, Disjoint DEF Stable, Pending, Between
    <3> QED
      BY <1>3, <1>6, <3>1, <3>2 DEF Ranked
  <2>5. ASSUME NEW u \in Swappers, Between(u)'
        PROVE  /\ rank[loc'[u].curr2] = rank[loc'[u].curr] + 1
               /\ rank[loc'[u].curr3] = rank[loc'[u].curr2] + 1
               /\ Follows(rank, loc'[u].curr3, next'[loc'[u].curr2])
    <3>1. CASE u = t
      BY <1>3, <1>4, <2>2, <2>3, <3>1
    <3>2. CASE u # t
      <4>1. Between(u) /\ loc'[u] = loc[u]
        BY <1>4, <2>5, <3>2, Disjoint DEF Between
      <4>2. loc[u].curr2 \in Nodes \ {b}
        BY <1>1, <3>2, <4>1, OtherSwaps
      <4> QED
        BY <1>3, <1>6, <4>1, <4>2 DEF Ranked
    <3> QED
      BY <3>1, <3>2
  <2> QED
    BY <1>6, <2>4, <2>5 DEF Ranked, Follows
<1>7. Whole'
  BY <1>6 DEF IInv, Whole
<1>8. SameRanks
  BY <1>6 DEF SameRanks
<1> QED
  BY <1>0, <1>1, <1>2, <1>3, <1>4, <1>5, <1>7, <1>8, StoreStep

\* curr3->next = curr2 (main.c:117): the two nodes have changed places, but
\* no link leads to them yet.
LEMMA SecondStore ==
  ASSUME IInv, NEW t \in Swappers, Store2(t)
  PROVE  IInv' /\ SameRanks
<1> DEFINE a == loc[t].curr
           b == loc[t].curr2
           c == loc[t].curr3
<1>0. t \in Threads /\ pc[t] = "store2" /\ ~crashed /\ Between(t)
  BY Disjoint DEF Store2, At, Between
<1>1. /\ a \in Nodes /\ b \in Nodes \ {a} /\ c \in Nodes \ {a, b}
      /\ next[a] = b
      /\ \A n \in Nodes : t \in locks[n] <=> n \in {a, b, c}
  BY <1>0 DEF IInv, Owned, OnNode, Needs, Curr
<1>2. /\ next' = [next EXCEPT ![c] = b]
      /\ pc' = [pc EXCEPT ![t] = "store3"]
      /\ UNCHANGED <<kind, locks, loc, crashed>>
  BY DEF Store2, Goto
<1>3. /\ next' \in [Nodes -> Nodes \cup {NULL}]
      /\ \A n \in Nodes \ {c} : next'[n] = next[n]
      /\ next'[c] = b
  BY <1>1, <1>2 DEF IInv, TypeOK
<1>4. /\ pc' \in [Threads -> Places] /\ pc'[t] = "store3"
      /\ loc' \in [Threads -> Locals]
      /\ \A u \in Threads \ {t} : pc'[u] = pc[u] /\ loc'[u] = loc[u]
  BY <1>0, <1>2 DEF IInv, TypeOK, Places
<1>5. Owned(t)'
  BY <1>0, <1>1, <1>2, <1>3, <1>4, Disjoint
  DEF Owned, OnNode, HasSecond, HasThird, Needs, Curr, Between, SwapPlaces,
      Places
<1>6. ASSUME NEW rank \in [Nodes -> Nodes], Ranked(rank)
      PROVE  Ranked(rank)'
  <2>4. ASSUME NEW n \in Nodes, Stable(n)'
        PROVE  Follows(rank, n, next'[n])
    <3>1. n # c
      BY <1>2, <1>4, <2>4 DEF Stable, Pending, Between
    <3>2. Stable(n)
      BY <1>0, <1>2, <1>4, <2>4, Disjoint DEF Stable, Pending, Between
    <3> QED
      BY <1>3, <1>6, <3>1, <3>2 DEF Ranked
  <2>5. ASSUME NEW u \in Swappers, Between(u)'
        PROVE  /\ rank[loc[u].curr2] = rank[loc[u].curr] + 1
               /\ rank[loc[u].curr3] = rank[loc[u].curr2] + 1
               /\ Follows(rank, loc[u].curr3, next'[loc[u].curr2])
    <3>1. Between(u)
      BY <1>0, <1>4, <2>5, Disjoint DEF Between
    <3>2. loc[u].curr2 \in Nodes \ {c}
      BY <1>1, <3>1, OtherSwaps
    <3> QED
      BY <1>3, <1>6, <3>1, <3>2 DEF Ranked
  <2> QED
    BY <1>2, <1>6, <2>4, <2>5 DEF Ranked, Follows
<1>7. Whole'
  BY <1>6 DEF IInv, Whole
<1>8. SameRanks
  BY <1>6 DEF SameRanks
<1> QED
  BY <1>0, <1>1, <1>2, <1>3, <1>4, <1>5, <1>7, <1>8, StoreStep

\* The second and the third of the nodes that a thread swaps exchange their
\* ranks, and nothing else changes.
Exchanged(t) ==
    LET b == loc[t].curr2
        c == loc[t].curr3
    IN  /\ b \in Nodes /\ c \in Nodes \ {b}
        /\ \E old, rank \in [Nodes -> Nodes] :
             /\ Ranked(old) /\ Ranked(rank)'
             /\ old[c] = old[b] + 1 /\ old[b] # 1
             /\ rank[b] = old[c] /\ rank[c] = old[b]
             /\ \A n \in Nodes \ {b, c} : rank[n] = old[n]

\* curr1->next = curr3 (main.c:118): the swap takes place.
LEMMA ThirdStore ==
  ASSUME IInv, NEW t \in Swappers, Store3(t)
  PROVE  IInv' /\ Exchanged(t)
<1> DEFINE a == loc[t].curr
           b == loc[t].curr2
           c == loc[t].curr3
<1>0. t \in Threads /\ pc[t] = "store3" /\ ~crashed /\ Between(t)
  BY Disjoint DEF Store3, At, Between
<1>1. /\ a \in Nodes /\ b \in Nodes \ {a} /\ c \in Nodes \ {a, b}
      /\ next[a] = b /\ next[c] = b
      /\ \A n \in Nodes : t \in locks[n] <=> n \in {a, b, c}
  BY <1>0 DEF IInv, Owned, OnNode, Needs, Curr
<1>2. /\ next' = [next EXCEPT ![a] = c]
      /\ pc' = [pc EXCEPT ![t] = "swapped"]
      /\ UNCHANGED <<kind, locks, loc, crashed>>
  BY DEF Store3, Goto, Curr
<1>3. /\ next' \in [Nodes -> Nodes \cup {NULL}]
      /\ \A n \in Nodes \ {a} : next'[n] = next[n]
      /\ next'[a] = c
  BY <1>1, <1>2 DEF IInv, TypeOK
<1>4. /\ pc' \in [Threads -> Places] /\ pc'[t] = "swapped"
      /\ loc' \in [Threads -> Locals]
      /\ \A u \in Threads \ {t} : pc'[u] = pc[u] /\ loc'[u] = loc[u]
  BY <1>0, <1>2 DEF IInv, TypeOK, Places
<1>5. Owned(t)'
  BY <1>0, <1>1, <1>2, <1>3, <1>4, Disjoint
  DEF Owned, OnNode, HasSecond, HasThird, Needs, Curr, Between, SwapPlaces,
      Places
<1>6. PICK old, rank \in [Nodes -> Nodes] :
        /\ Ranked(old) /\ Ranked(rank)'
        /\ old[c] = old[b] + 1 /\ old[b] # 1
        /\ rank[b] = old[c] /\ rank[c] = old[b]
        /\ \A n \in Nodes \ {b, c} : rank[n] = old[n]
  <2>1. PICK old \in [Nodes -> Nodes] : Ranked(old)
    BY DEF IInv, Whole
  \* The second and the third node exchange their ranks.
  <2>2. PICK rank \in [Nodes -> Nodes] :
          /\ rank[b] = old[c] /\ rank[c] = old[b]
          /\ \A n \in Nodes \ {b, c} : rank[n] = old[n]
    <3> DEFINE swapped == [old EXCEPT ![b] = old[c], ![c] = old[b]]
    <3>1. /\ swapped \in [Nodes -> Nodes]
          /\ swapped[b] = old[c] /\ swapped[c] = old[b]
          /\ \A n \in Nodes \ {b, c} : swapped[n] = old[n]
      BY <1>1, <2>1
    <3> QED
      BY <3>1
  <2>3. /\ old[b] = old[a] + 1 /\ old[c] = old[b] + 1
        /\ Follows(old, c, next[b])
        /\ \A m, n \in Nodes : old[m] = old[n] => m = n
        /\ \A n \in Nodes : old[n] \in Nat \ {0}
    <3>1. \A n \in Nodes : old[n] \in Nat \ {0}
      BY <2>1 DEF Nodes
    <3>2. /\ old[b] = old[a] + 1 /\ old[c] = old[b] + 1
          /\ Follows(old, c, next[b])
      BY <1>0, <2>1 DEF Ranked
    <3>3. \A m, n \in Nodes : old[m] = old[n] => m = n
      BY <2>1 DEF Ranked
    <3> QED
      BY <3>1, <3>2, <3>3
  \* A link that led to neither of the two nodes leads where it did.
  <2>4. ASSUME NEW n \in Nodes \ {a, b, c}, NEW m, Follows(old, n, m)
        PROVE  Follows(rank, n, m)
    <3>1. m \notin {b, c}
      BY <1>1, <2>3, <2>4, FirstNode DEF Follows
    <3> QED
      BY <2>2, <2>4, <3>1 DEF Follows
  <2>5. ASSUME NEW n \in Nodes, Stable(n)'
        PROVE  Follows(rank, n, next'[n])
    <3>1. CASE n = a
      BY <1>1, <1>3, <2>2, <2>3, <3>1 DEF Follows
    <3>2. CASE n = c
      BY <1>1, <1>3, <2>2, <2>3, <3>2 DEF Follows
    <3>3. CASE n = b
      <4>1. next'[b] = next[b] /\ next[b] \notin {b, c}
        BY <1>1, <1>3, <2>3, FirstNode DEF Follows
      <4> QED
        BY <1>1, <2>2, <2>3, <3>3, <4>1, FirstNode DEF Follows
    <3>4. CASE n \notin {a, b, c}
      <4>1. Stable(n)
        BY <1>0, <1>2, <1>4, <2>5, <3>4, Disjoint DEF Stable, Pending, Between
      <4> QED
        BY <1>3, <2>1, <2>4, <3>4, <4>1 DEF Ranked
    <3> QED
      BY <3>1, <3>2, <3>3, <3>4
  <2>6. ASSUME NEW u \in Swappers, Between(u)'
        PROVE  /\ rank[loc[u].curr2] = rank[loc[u].curr] + 1
               /\ rank[loc[u].curr3] = rank[loc[u].curr2] + 1
               /\ Follows(rank, loc[u].curr3, next'[loc[u].curr2])
    <3>1. u # t /\ Between(u)
      BY <1>0, <1>4, <2>6, Disjoint DEF Between
    <3>2. {loc[u].curr, loc[u].curr2, loc[u].curr3} \subseteq Nodes \ {a, b, c}
      BY <1>1, <3>1, OtherSwaps
    <3> QED
      BY <1>3, <2>1, <2>2, <2>4, <3>1, <3>2 DEF Ranked
  <2>7. rank[1] = 1
    BY <1>1, <2>1, <2>2, <2>3, FirstNode DEF Ranked
  <2>8. \A m, n \in Nodes : rank[m] = rank[n] => m = n
    BY <1>1, <2>2, <2>3
  <2>9. Ranked(rank)'
    BY <1>2, <2>5, <2>6, <2>7, <2>8 DEF Ranked, Follows
  <2>10. old[b] # 1
    BY <1>1, <2>3
  <2> QED
    BY <2>1, <2>2, <2>3, <2>9, <2>10
<1>7. Whole' /\ Exchanged(t)
  BY <1>1, <1>6 DEF Whole, Exchanged
<1> QED
  BY <1>0, <1>1, <1>2, <1>3, <1>4, <1>5, <1>7, StoreStep

-----------------------------------------------------------------------------
(* The order of the nodes *)

\* Without the swaps under way, links lead from rank to rank.
LEMMA SettledFollows ==
  ASSUME IInv, NEW rank \in [Nodes -> Nodes], Ranked(rank), NEW n \in Nodes
  PROVE  Follows(rank, n, Settled[n])
<1> DEFINE ahead  == {t \in Swappers : Between(t) /\ loc[t].curr2 = n}
           behind == {t \in Swappers : pc[t] = "store3" /\ loc[t].curr3 = n}
           first  == CHOOSE t \in ahead : TRUE
           second == CHOOSE t \in behind : TRUE
<1>1. Settled[n] = IF ahead # {} THEN loc[first].curr3
                   ELSE IF behind # {} THEN next[loc[second].curr2]
                   ELSE next[n]
  BY FirstNode DEF Settled
<1>2. /\ ahead # {} => first \in ahead
      /\ behind # {} => second \in behind
  OBVIOUS
<1> HIDE DEF first, second
<1>3. CASE ahead # {}
  <2>1. loc[first].curr3 \in Nodes
    BY <1>2, <1>3, Disjoint DEF IInv, Owned, Between
  <2> QED
    BY <1>1, <1>2, <1>3, <2>1 DEF Ranked, Follows
<1>4. CASE ahead = {} /\ behind # {}
  BY <1>1, <1>2, <1>4 DEF Ranked, Between
<1>5. CASE ahead = {} /\ behind = {}
  <2>1. Stable(n)
    BY <1>5 DEF Stable, Pending
  <2> QED
    BY <1>1, <1>5, <2>1 DEF Ranked
<1> QED
  BY <1>3, <1>4, <1>5

\* Every rank has its node.
LEMMA ByRank ==
  ASSUME NEW rank \in [Nodes -> Nodes], Ranked(rank)
  PROVE  \E node \in [Nodes -> Nodes] :
           /\ \A i \in Nodes : rank[node[i]] = i
           /\ \A n \in Nodes : node[rank[n]] = n
<1>1. rank \in Injection(Nodes, Nodes)
  BY DEF Ranked, Injection, IsInjective
<1>2. IsFiniteSet(Nodes)
  BY FS_Interval, StorageAssumption DEF Nodes
<1>3. \A i \in Nodes : \E n \in Nodes : rank[n] = i
  BY <1>1, <1>2, FS_Injection DEF Surjection
<1> DEFINE node == [i \in Nodes |-> CHOOSE n \in Nodes : rank[n] = i]
<1>4. /\ node \in [Nodes -> Nodes]
      /\ \A i \in Nodes : rank[node[i]] = i
      /\ \A n \in Nodes : node[rank[n]] = n
  BY <1>3 DEF Ranked
<1> HIDE DEF node
<1> QED
  BY <1>4

(***************************************************************************)
(* The node at a place of the order is the node of this rank.  The nodes   *)
(* arranged by rank follow each other like those of the order, and if the  *)
(* two paths differed there would be a first place where they did.         *)
(***************************************************************************)
LEMMA OrderIsByRank ==
  ASSUME IInv, NEW rank \in [Nodes -> Nodes], Ranked(rank)
  PROVE  Order \in [Nodes -> Nodes] /\ \A n \in Nodes : Order[rank[n]] = n
<1>1. PICK node \in [Nodes -> Nodes] :
        /\ \A i \in Nodes : rank[node[i]] = i
        /\ \A n \in Nodes : node[rank[n]] = n
  BY ByRank
<1>2. node[1] = 1
  BY <1>1, FirstNode DEF Ranked
<1>3. ASSUME NEW i \in Nodes, i # 1
      PROVE  i - 1 \in Nodes /\ node[i] = Settled[node[i - 1]]
  <2>1. i - 1 \in Nodes /\ node[i - 1] \in Nodes
    BY <1>1, <1>3, StorageAssumption DEF Nodes
  <2>2. Follows(rank, node[i - 1], Settled[node[i - 1]])
    BY <2>1, SettledFollows
  <2>3. rank[node[i - 1]] = i - 1
    BY <1>1, <2>1
  <2>4. /\ Settled[node[i - 1]] \in Nodes
        /\ rank[Settled[node[i - 1]]] = i
    BY <1>3, <2>1, <2>2, <2>3, StorageAssumption DEF Follows, Nodes
  <2> QED
    BY <1>1, <2>1, <2>4
<1> DEFINE Along(f) ==
             [i \in 1 .. Size |-> IF i = 1 THEN <<1>> ELSE Longer[f[i - 1]]]
           part == [i \in 1 .. Size |-> SubSeq(node, 1, i)]
<1>4. ASSUME NEW i \in Nodes
      PROVE  /\ part[i] \in Seq(Nodes) /\ Len(part[i]) = i
             /\ \A j \in 1 .. i : part[i][j] = node[j]
  <2>1. /\ 1 \in Int /\ i \in Int /\ 1 <= i
        /\ \A j \in 1 .. i : node[j] \in Nodes
    BY <1>1, <1>4, StorageAssumption DEF Nodes
  <2>2. /\ SubSeq(node, 1, i) \in Seq(Nodes)
        /\ Len(SubSeq(node, 1, i)) = IF 1 <= i THEN i - 1 + 1 ELSE 0
        /\ \A j \in 1 .. i - 1 + 1 :
             SubSeq(node, 1, i)[j] = node[1 + j - 1]
    BY <2>1, SubSeqProperties
  <2>3. part[i] = SubSeq(node, 1, i)
    BY <1>4 DEF Nodes
  <2>4. i - 1 + 1 = i /\ \A j \in 1 .. i : 1 + j - 1 = j
    BY <2>1
  <2> QED
    BY <2>1, <2>2, <2>3, <2>4
<1> HIDE DEF part
<1>5. ASSUME NEW i \in Nodes, i # 1
      PROVE  part[i] = Longer[part[i - 1]]
  <2> DEFINE path == part[i - 1]
             n == node[i]
             longer == Append(path, n)
  <2>1. /\ i - 1 \in Nodes /\ n \in Nodes
        /\ path \in Seq(Nodes) /\ Len(path) = i - 1
        /\ \A j \in 1 .. i - 1 : path[j] = node[j]
    BY <1>1, <1>3, <1>4, <1>5
  <2>2. path[Len(path)] = node[i - 1]
    BY <2>1 DEF Nodes
  <2>3. path \in Seq(Nodes \cup {NULL})
    BY <2>1, SeqMonotonic
  <2>4. Longer[path] = longer
    BY <1>3, <1>5, <2>2, <2>3 DEF Longer
  <2>5. /\ longer \in Seq(Nodes) /\ Len(longer) = i
        /\ \A j \in 1 .. i : longer[j] = node[j]
    <3>1. /\ longer \in Seq(Nodes) /\ Len(longer) = Len(path) + 1
          /\ \A j \in 1 .. Len(path) : longer[j] = path[j]
          /\ longer[Len(path) + 1] = n
      <4> HIDE DEF path, n
      <4> QED
        BY <2>1, AppendProperties
    <3>2. \A j \in 1 .. i : j \in 1 .. i - 1 \/ j = Len(path) + 1
      BY <2>1 DEF Nodes
    <3> HIDE DEF longer
    <3> QED
      BY <2>1, <3>1, <3>2 DEF Nodes
  <2> HIDE DEF longer, path
  <2>6. longer = part[i]
    BY <1>4, <2>5, SeqEqual
  <2> QED
    BY <2>4, <2>6 DEF path
<1>6. part[1] = <<1>>
  <2>1. <<1>> \in Seq(Nodes) /\ Len(<<1>>) = 1 /\ <<1>>[1] = 1
    BY FirstNode
  <2>2. part[1] \in Seq(Nodes) /\ Len(part[1]) = 1 /\ part[1][1] = 1
    <3>1. 1 \in Nodes /\ 1 \in 1 .. 1
      BY FirstNode
    <3> QED
      BY <1>2, <1>4, <3>1
  <2> QED
    BY <2>1, <2>2, SeqEqual
<1>7. part = Along(part)
  <2>1. part = [i \in 1 .. Size |-> part[i]]
    BY DEF part
  <2>2. ASSUME NEW i \in 1 .. Size
        PROVE  part[i] = IF i = 1 THEN <<1>> ELSE Longer[part[i - 1]]
    BY <1>5, <1>6, <2>2 DEF Nodes
  <2> QED
    BY <2>1, <2>2
<1>8. Path = Along(Path)
  <2>1. Path = CHOOSE f : f = Along(f)
    BY DEF Path
  <2> HIDE DEF Along
  <2> QED
    BY <1>7, <2>1
<1>9. Path = part
  <2> SUFFICES ASSUME Path # part
               PROVE  FALSE
    OBVIOUS
  <2>1. \A i \in 1 .. Size :
          Path[i] = IF i = 1 THEN <<1>> ELSE Longer[Path[i - 1]]
    BY <1>8
  <2> DEFINE wrong == {i \in 1 .. Size : Path[i] # part[i]}
  <2>2. wrong \in SUBSET Nat /\ wrong # {}
    <3>1. Path = [i \in 1 .. Size |-> Path[i]]
      BY <1>8
    <3>2. part = [i \in 1 .. Size |-> part[i]]
      BY DEF part
    <3>3. \E i \in 1 .. Size : Path[i] # part[i]
      BY <3>1, <3>2
    <3> QED
      BY <3>3, StorageAssumption
  <2>3. PICK i \in wrong : \A j \in wrong : i <= j
    BY <2>2, LeastOne
  <2>4. i \in 1 .. Size /\ Path[i] # part[i]
    BY <2>3
  <2>5. i # 1
    BY <1>6, <2>1, <2>4
  <2>6. i - 1 \in 1 .. Size /\ Path[i - 1] = part[i - 1]
    <3>1. i - 1 \in 1 .. Size /\ ~(i <= i - 1)
      BY <2>4, <2>5, StorageAssumption
    <3> QED
      BY <2>3, <3>1
  <2> QED
    BY <1>5, <2>1, <2>4, <2>5, <2>6 DEF Nodes
<1>10. Order = node
  <2>1. Size \in Nodes /\ Order = part[Size]
    BY <1>9, StorageAssumption DEF Order, Nodes
  <2>2. /\ Order \in Seq(Nodes) /\ Len(Order) = Size
        /\ \A j \in 1 .. Size : Order[j] = node[j]
    BY <1>4, <2>1
  <2>3. Order \in [1 .. Size -> Nodes]
    BY <2>2, LenProperties
  <2> QED
    BY <1>1, <2>2, <2>3 DEF Nodes
<1> QED
  BY <1>1, <1>10

\* The same as a formula of one state, and of the state after a step
LEMMA OrderKnown ==
  IInv => \A rank \in [Nodes -> Nodes] : Ranked(rank) =>
            /\ Order \in [Nodes -> Nodes]
            /\ \A n \in Nodes : Order[rank[n]] = n
  BY OrderIsByRank

LEMMA OrderKnownNext ==
  ASSUME IInv'
  PROVE  \A rank \in [Nodes -> Nodes] : Ranked(rank)' =>
            /\ Order' \in [Nodes -> Nodes]
            /\ \A n \in Nodes : Order'[rank[n]] = n
<1>1. (IInv => \A rank \in [Nodes -> Nodes] : Ranked(rank) =>
               /\ Order \in [Nodes -> Nodes]
               /\ \A n \in Nodes : Order[rank[n]] = n)'
  BY OrderKnown, PTL
<1> QED
  BY <1>1

-----------------------------------------------------------------------------
\* The list that fill_storage builds is in order.
LEMMA InitRanks == Init => Ranked([n \in Nodes |-> n])
<1> SUFFICES ASSUME Init
             PROVE  Ranked([n \in Nodes |-> n])
  OBVIOUS
<1> DEFINE rank == [n \in Nodes |-> n]
<1>1. \A t \in Swappers : ~Between(t)
  BY Disjoint DEF Init, Between
<1>2. ASSUME NEW n \in Nodes
      PROVE  Follows(rank, n, next[n])
  BY StorageAssumption DEF Init, Follows, Filled, Nodes
<1> QED
  BY FirstNode, <1>1, <1>2 DEF Ranked

LEMMA InitOK == Init => IInv
<1> SUFFICES ASSUME Init
             PROVE  IInv
  OBVIOUS
<1>1. TypeOK /\ Exclusive /\ CrashedSkipping
  <2>1. next \in [Nodes -> Nodes \cup {NULL}]
    BY StorageAssumption DEF Init, Filled, Nodes
  <2>2. loc \in [Threads -> Locals]
    BY FirstNode DEF Init, Locals
  <2>3. pc \in [Threads -> Places]
    BY DEF Init, Places
  <2> QED
    BY <2>1, <2>2, <2>3
    DEF Init, TypeOK, Exclusive, CrashedSkipping, AllFree
<1>2. ASSUME NEW t \in Threads
      PROVE  Owned(t)
  BY StorageAssumption DEF Init, AllFree, Owned, Needs, Between, OnNode,
     HasSecond, HasThird, ProcessPlaces, SwapPlaces, Places, Threads
<1>3. Whole
  <2>1. [n \in Nodes |-> n] \in [Nodes -> Nodes]
    OBVIOUS
  <2> QED
    BY <2>1, InitRanks DEF Whole
<1> QED
  BY <1>1, <1>2, <1>3 DEF IInv

\* Every step keeps the invariant; only the last store of a swap changes the
\* order of the nodes.
LEMMA Steps ==
  ASSUME IInv, [Next]_vars
  PROVE  IInv' /\ (SameRanks \/ \E t \in Swappers : Exchanged(t))
<1>1. ASSUME NEW t \in Processors, process_thread(t)
      PROVE  IInv' /\ SameRanks
  BY <1>1, ProcessSteps, CommonSteps DEF process_thread, Threads
<1>2. ASSUME NEW t \in Swappers, swap_thread(t)
      PROVE  IInv' /\ (SameRanks \/ Exchanged(t))
  BY <1>2, CommonSteps, SwapWalk, FirstStore, SecondStore, ThirdStore
  DEF swap_thread, Threads
<1>3. CASE UNCHANGED vars
  BY <1>3 DEF vars, IInv, TypeOK, Owned, Needs, Curr, Between, Exclusive,
     Whole, SameRanks, Ranked, Follows, Stable, Pending, CrashedSkipping
<1> QED
  BY <1>1, <1>2, <1>3
  DEF Next, exclusive_process_thread, exclusive_swap_thread,
      rwlock_process_thread, rwlock_swap_thread

LEMMA Invariant == Spec => []IInv
<1>1. IInv /\ [Next]_vars => IInv'
  BY Steps
<1> QED
  BY <1>1, InitOK, PTL DEF Spec

\* Links, locks and locals keep their types: above all, no link is ever wild.
THEOREM TypeCorrect == Spec => []TypeOK
<1>1. IInv => TypeOK
  BY DEF IInv
<1> QED
  BY <1>1, Invariant, PTL

(***************************************************************************)
(* Threads hold exactly the locks they are going to give back (main.c:46-  *)
(* 152), for any list and any number of threads.                           *)
(***************************************************************************)
THEOREM LocksGivenBack == Spec => []LocksMatch
<1>1. IInv => LocksMatch
  BY DEF IInv, Owned, LocksMatch
<1> QED
  BY <1>1, Invariant, PTL

\* Compared nodes are neighbours that no swap can touch (main.c:48-60).
THEOREM NeighboursCompared == Spec => []ComparesNeighbours
<1>1. ASSUME IInv, NEW t \in Processors, pc[t] = "compare"
      PROVE  /\ next[Curr(t)] # NULL
             /\ \A n \in {Curr(t), next[Curr(t)]} :
                   t \in locks[n] /\ locks[n] \cap Swappers = {}
  <2>1. /\ Curr(t) \in Nodes /\ next[Curr(t)] \in Nodes
        /\ t \in locks[Curr(t)] /\ t \in locks[next[Curr(t)]]
    BY <1>1 DEF IInv, Owned, OnNode, HasSecond, Needs, Threads
  <2> QED
    BY <1>1, <2>1, Disjoint, FirstNode DEF IInv, Exclusive
<1>2. IInv => ComparesNeighbours
  BY <1>1 DEF ComparesNeighbours
<1> QED
  BY <1>2, Invariant, PTL

(***************************************************************************)
(* Process threads never stop, and NULL is dereferenced nowhere but in a   *)
(* pass of a swap thread that does not swap (main.c:100-107).              *)
(***************************************************************************)
THEOREM SkippingAloneFails == Spec => []OnlySkippingFails
<1>1. IInv => OnlySkippingFails
  BY FirstNode
  DEF IInv, Owned, OnNode, CrashedSkipping, OnlySkippingFails, ProcessPlaces,
      Threads
<1> QED
  BY <1>1, Invariant, PTL

(***************************************************************************)
(* No swap loses a node or closes a cycle (main.c:114-118): whatever the   *)
(* threads do, the nodes have ranks, all different, and links lead from    *)
(* rank to rank but for those a swap under way has changed.                *)
(***************************************************************************)
THEOREM ListStaysWhole == Spec => []Whole
<1>1. IInv => Whole
  BY DEF IInv
<1> QED
  BY <1>1, Invariant, PTL

(* The swaps *)

\* A step that keeps the ranks keeps the order.
LEMMA OrderStays ==
  ASSUME IInv, IInv', SameRanks
  PROVE  Order' = Order
<1>1. PICK rank \in [Nodes -> Nodes] : Ranked(rank)
  BY DEF IInv, Whole
<1>2. /\ Order \in [Nodes -> Nodes]
      /\ \A n \in Nodes : Order[rank[n]] = n
  BY <1>1, OrderKnown
<1>3. /\ Order' \in [Nodes -> Nodes]
      /\ \A n \in Nodes : Order'[rank[n]] = n
  BY <1>1, OrderKnownNext DEF SameRanks
<1>4. \A i \in Nodes : \E n \in Nodes : rank[n] = i
  BY <1>1, ByRank
<1>5. \A i \in Nodes : Order'[i] = Order[i]
  BY <1>2, <1>3, <1>4
<1> QED
  BY <1>2, <1>3, <1>5

\* A swap exchanges two neighbours, neither of them the first node.
LEMMA OrderExchanged ==
  ASSUME IInv, IInv', NEW t \in Swappers, Exchanged(t)
  PROVE  Abstract!Next
<1> DEFINE b == loc[t].curr2
           c == loc[t].curr3
<1>1. b \in Nodes /\ c \in Nodes \ {b}
  BY DEF Exchanged
<1>2. PICK old, rank \in [Nodes -> Nodes] :
        /\ Ranked(old) /\ Ranked(rank)'
        /\ old[c] = old[b] + 1 /\ old[b] # 1
        /\ rank[b] = old[c] /\ rank[c] = old[b]
        /\ \A n \in Nodes \ {b, c} : rank[n] = old[n]
  BY DEF Exchanged
<1> HIDE DEF b, c
<1> DEFINE i == old[b]
<1>3. /\ Order \in [Nodes -> Nodes]
      /\ \A n \in Nodes : Order[old[n]] = n
  BY <1>2, OrderKnown
<1>4. /\ Order' \in [Nodes -> Nodes]
      /\ \A n \in Nodes : Order'[rank[n]] = n
  BY <1>2, OrderKnownNext
<1>5. \A k \in Nodes : \E n \in Nodes : old[n] = k
  BY <1>2, ByRank
<1>6. i \in 2 .. Size - 1 /\ i \in Nodes /\ i + 1 \in Nodes
  <2>1. old[b] \in Nodes /\ old[c] \in Nodes
    BY <1>1, <1>2
  <2>2. old[c] = i + 1 /\ i # 1
    BY <1>2
  <2> HIDE DEF i
  <2>3. i \in 1 .. Size /\ i + 1 \in 1 .. Size
    BY <2>1, <2>2 DEF i, Nodes
  <2> QED
    BY <2>2, <2>3, StorageAssumption DEF Nodes
<1>7. ASSUME NEW k \in Nodes
      PROVE  Order'[k] = IF k = i THEN Order[i + 1]
                         ELSE IF k = i + 1 THEN Order[i] ELSE Order[k]
  <2>1. PICK n \in Nodes : old[n] = k
    BY <1>5
  <2>2. CASE k = i
    <3>1. rank[c] = k /\ Order'[k] = c
      BY <1>1, <1>2, <1>4, <2>2
    <3>2. Order[i + 1] = c
      BY <1>1, <1>2, <1>3
    <3> QED
      BY <2>2, <3>1, <3>2
  <2>3. CASE k = i + 1
    BY <1>1, <1>2, <1>3, <1>4, <1>6, <2>3 DEF Nodes
  <2>4. CASE k # i /\ k # i + 1
    <3>1. n \notin {b, c}
      BY <1>2, <2>1, <2>4
    <3> QED
      BY <1>2, <1>3, <1>4, <2>1, <2>4, <3>1
  <2> QED
    BY <2>2, <2>3, <2>4
<1> HIDE DEF i
<1>8. Order' = Abstract!Exchange(Order, i)
  <2> DEFINE exchanged == [Order EXCEPT ![i] = Order[i + 1],
                                        ![i + 1] = Order[i]]
  <2>1. exchanged \in [Nodes -> Nodes]
    BY <1>3, <1>6
  <2>2. \A k \in Nodes : Order'[k] = exchanged[k]
    BY <1>3, <1>6, <1>7 DEF Nodes
  <2>3. Order' = exchanged
    BY <1>4, <2>1, <2>2
  <2> QED
    BY <2>3 DEF Abstract!Exchange
<1> QED
  BY <1>6, <1>8 DEF Abstract!Next, Abstract!Exchanges

(***************************************************************************)
(* The programs implement AdjacentSwaps (main.c:114-118): whatever the     *)
(* threads do, the order of the nodes changes only at the last store of a  *)
(* swap, and there two neighbours change places.                           *)
(***************************************************************************)
THEOREM SwapsNeighbours == Spec => ImplementsSwaps
<1>1. Init => Abstract!Init
  <2> SUFFICES ASSUME Init
               PROVE  Order = [i \in 1 .. Size |-> i]
    BY DEF Abstract!Init
  <2> DEFINE rank == [n \in Nodes |-> n]
  <2>1. IInv /\ rank \in [Nodes -> Nodes] /\ Ranked(rank)
    BY InitOK, InitRanks
  <2>2. Order \in [Nodes -> Nodes] /\ \A n \in Nodes : Order[n] = n
    BY <2>1, OrderKnown
  <2> QED
    BY <2>2 DEF Nodes
<1>2. IInv /\ [Next]_vars => [Abstract!Next]_Order
  BY Steps, OrderStays, OrderExchanged
<1> QED
  BY <1>1, <1>2, Invariant, PTL DEF Spec, ImplementsSwaps, Abstract!Spec
=============================================================================
