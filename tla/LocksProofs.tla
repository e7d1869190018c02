----------------------------- MODULE LocksProofs -----------------------------
(***************************************************************************)
(* Proofs about the four locks, for any set of threads: types, no lost     *)
(* wake-up, and that each implements the abstract lock Mutex.              *)
(*                                                                         *)
(* The inductive invariant says in addition what the word tells.  An       *)
(* exchange looks at the word, not at the threads, so a thread that finds  *)
(* it free is the only holder just because a free word means no holder.    *)
(* NoLostWakeup needs the same: a thread falls asleep only on a word that  *)
(* is taken, so only the holder that frees it can leave a sleeper behind,  *)
(* and that holder goes on to FUTEX_WAKE.                                  *)
(***************************************************************************)
EXTENDS Locks, TLAPS

\* At most one thread is past the lock function.
Exclusive == \A t, u \in Threads : at[t] = "held" /\ at[u] = "held" => t = u

\* The word is the free one exactly while no thread is.
WordTells == Free <=> \A t \in Threads : at[t] # "held"

IInv == TypeOK /\ Exclusive /\ WordTells /\ NoLostWakeup

-----------------------------------------------------------------------------
(* What a change of one thread's place is to the abstract lock *)

\* A thread that enters the lock function asks for the lock.
LEMMA Asks ==
  ASSUME NEW S, at \in [Threads -> S], NEW t \in Threads, at[t] = "idle",
         NEW place \in {"cas", "exchange"}, at' = [at EXCEPT ![t] = place]
  PROVE  [Abstract!Next]_Mode
<1>1. Mode[t] = "idle"
  BY DEF Mode
<1>2. Mode' = [Mode EXCEPT ![t] = "asking"]
  BY DEF Mode
<1> QED
  BY <1>1, <1>2 DEF Abstract!Next, Abstract!Ask

\* A thread that comes out of it while nobody holds the lock acquires it.
LEMMA Acquires ==
  ASSUME NEW S, at \in [Threads -> S], NEW t \in Threads,
         at[t] \in {"cas", "exchange"},
         \A u \in Threads : at[u] # "held", at' = [at EXCEPT ![t] = "held"]
  PROVE  [Abstract!Next]_Mode
<1>1. Mode[t] = "asking"
  BY DEF Mode
<1>2. \A u \in Threads : Mode[u] # "owner"
  BY DEF Mode
<1>3. Mode' = [Mode EXCEPT ![t] = "owner"]
  BY DEF Mode
<1> QED
  BY <1>1, <1>2, <1>3 DEF Abstract!Next, Abstract!Acquire

\* A holder that has changed the word has released the lock.
LEMMA Releases ==
  ASSUME NEW S, at \in [Threads -> S], NEW t \in Threads, at[t] = "held",
         NEW place \in {"idle", "wake"}, at' = [at EXCEPT ![t] = place]
  PROVE  [Abstract!Next]_Mode
<1>1. Mode[t] = "owner"
  BY DEF Mode
<1>2. Mode' = [Mode EXCEPT ![t] = "idle"]
  BY DEF Mode
<1> QED
  BY <1>1, <1>2 DEF Abstract!Next, Abstract!Release

\* Moves between the attempts, or out of FUTEX_WAKE, mean nothing to it.
LEMMA Stays ==
  ASSUME NEW S, at \in [Threads -> S], NEW t \in Threads, NEW place,
         at' = [at EXCEPT ![t] = place],
         \/ /\ at[t] \in {"cas", "exchange", "spin", "wait", "asleep"}
            /\ place \in {"cas", "exchange", "spin", "wait", "asleep"}
         \/ at[t] = "wake" /\ place = "idle"
  PROVE  [Abstract!Next]_Mode
<1>1. Mode' = Mode
  BY DEF Mode
<1> QED
  BY <1>1

-----------------------------------------------------------------------------
(***************************************************************************)
(* The spinlock of lab2/2 (a-spinlock/queue.c:19-34) keeps the invariant:  *)
(* the exchange takes the word only from 1, and then nobody holds the      *)
(* lock.                                                                   *)
(***************************************************************************)
LEMMA SpinLockStep ==
  ASSUME IInv, kind = "spinlock", kind' = kind, Spin!Next
  PROVE  IInv' /\ [Abstract!Next]_Mode
<1> USE DEF IInv, TypeOK, Exclusive, WordTells, NoLostWakeup, Free, Kinds,
            Spin!Places, Spin!Goto
<1>0. at \in [Threads -> Spin!Places]
  OBVIOUS
<1>1. ASSUME NEW t \in Threads, Spin!Call(t)
      PROVE  IInv' /\ [Abstract!Next]_Mode
  <2>1. IInv'
    BY <1>1 DEF Spin!Call
  <2> QED
    BY <1>0, <1>1, <2>1, Asks DEF Spin!Call
<1>2. ASSUME NEW t \in Threads, Spin!CompareExchange(t)
      PROVE  IInv' /\ [Abstract!Next]_Mode
  <2>1. IInv'
    BY <1>2 DEF Spin!CompareExchange
  <2>2. CASE word = 1
    BY <1>0, <1>2, <2>1, <2>2, Acquires DEF Spin!CompareExchange
  <2>3. CASE word # 1
    BY <1>0, <1>2, <2>1, <2>3, Stays DEF Spin!CompareExchange
  <2> QED
    BY <2>2, <2>3
<1>3. ASSUME NEW t \in Threads, Spin!spinlock_unlock(t)
      PROVE  IInv' /\ [Abstract!Next]_Mode
  <2>1. IInv'
    BY <1>3 DEF Spin!spinlock_unlock
  <2> QED
    BY <1>0, <1>3, <2>1, Releases DEF Spin!spinlock_unlock
<1> QED
  BY <1>1, <1>2, <1>3
  DEF Spin!Next, Spin!spinlock_lock

(***************************************************************************)
(* The futex mutex of lab2/2 (e-mutex/queue.c:26-62) keeps the invariant:  *)
(* a thread falls asleep only while the word is 0, the thread that makes   *)
(* it 1 goes on to FUTEX_WAKE, and the one it wakes goes to the exchange.  *)
(***************************************************************************)
LEMMA FutexMutexStep ==
  ASSUME IInv, kind = "mutex", kind' = kind, Futex!Next
  PROVE  IInv' /\ [Abstract!Next]_Mode
<1> USE DEF IInv, TypeOK, Exclusive, WordTells, NoLostWakeup, Free, Kinds,
            Futex!Places, Futex!Goto
<1>0. at \in [Threads -> Futex!Places]
  OBVIOUS
<1>1. ASSUME NEW t \in Threads, Futex!Call(t)
      PROVE  IInv' /\ [Abstract!Next]_Mode
  <2>1. IInv'
    BY <1>1 DEF Futex!Call
  <2> QED
    BY <1>0, <1>1, <2>1, Asks DEF Futex!Call
<1>2. ASSUME NEW t \in Threads, Futex!CompareExchange(t)
      PROVE  IInv' /\ [Abstract!Next]_Mode
  <2>1. IInv'
    BY <1>2 DEF Futex!CompareExchange
  <2>2. CASE word = 1
    BY <1>0, <1>2, <2>1, <2>2, Acquires DEF Futex!CompareExchange
  <2>3. CASE word # 1
    BY <1>0, <1>2, <2>1, <2>3, Stays DEF Futex!CompareExchange
  <2> QED
    BY <2>2, <2>3
<1>3. ASSUME NEW t \in Threads, Futex!FutexWait(t)
      PROVE  IInv' /\ [Abstract!Next]_Mode
  <2>1. IInv'
    BY <1>3 DEF Futex!FutexWait
  <2> QED
    BY <1>0, <1>3, <2>1, Stays DEF Futex!FutexWait
<1>4. ASSUME NEW t \in Threads, Futex!SpuriousWake(t)
      PROVE  IInv' /\ [Abstract!Next]_Mode
  <2>1. IInv'
    BY <1>4 DEF Futex!SpuriousWake
  <2> QED
    BY <1>0, <1>4, <2>1, Stays DEF Futex!SpuriousWake
<1>5. ASSUME NEW t \in Threads, Futex!UnlockExchange(t)
      PROVE  IInv' /\ [Abstract!Next]_Mode
  <2>1. IInv'
    BY <1>5 DEF Futex!UnlockExchange
  <2> QED
    BY <1>0, <1>5, <2>1, Releases DEF Futex!UnlockExchange
<1>6. ASSUME NEW t \in Threads, Futex!FutexWake(t)
      PROVE  IInv' /\ [Abstract!Next]_Mode
  <2>1. CASE Futex!Asleep = {}
    <3>1. IInv'
      BY <1>6, <2>1 DEF Futex!FutexWake, Futex!Asleep
    <3> QED
      BY <1>0, <1>6, <2>1, <3>1, Stays DEF Futex!FutexWake
  <2>2. CASE Futex!Asleep # {}
    <3>1. PICK s \in Futex!Asleep :
             at' = [at EXCEPT ![t] = "idle", ![s] = "cas"]
      BY <1>6, <2>2 DEF Futex!FutexWake
    <3>2. IInv'
      BY <1>6, <3>1 DEF Futex!FutexWake, Futex!Asleep
    <3>3. Mode' = Mode
      BY <1>6, <3>1 DEF Futex!FutexWake, Futex!Asleep, Mode
    <3> QED
      BY <3>2, <3>3
  <2> QED
    BY <2>1, <2>2
<1> QED
  BY <1>1, <1>2, <1>3, <1>4, <1>5, <1>6
  DEF Futex!Next, Futex!mutex_lock, Futex!mutex_unlock

(***************************************************************************)
(* The spinlock of lab2/4 (4.c:20-31) keeps the invariant: a failed        *)
(* exchange writes 1 over 1, and the inner loop writes nothing.            *)
(***************************************************************************)
LEMMA TtasLockStep ==
  ASSUME IInv, kind = "ttas", kind' = kind, Ttas!Next
  PROVE  IInv' /\ [Abstract!Next]_Mode
<1> USE DEF IInv, TypeOK, Exclusive, WordTells, NoLostWakeup, Free, Kinds,
            Ttas!Places, Ttas!Goto
<1>0. at \in [Threads -> Ttas!Places]
  OBVIOUS
<1>1. ASSUME NEW t \in Threads, Ttas!Call(t)
      PROVE  IInv' /\ [Abstract!Next]_Mode
  <2>1. IInv'
    BY <1>1 DEF Ttas!Call
  <2> QED
    BY <1>0, <1>1, <2>1, Asks DEF Ttas!Call
<1>2. ASSUME NEW t \in Threads, Ttas!Exchange(t)
      PROVE  IInv' /\ [Abstract!Next]_Mode
  <2>1. IInv'
    BY <1>2 DEF Ttas!Exchange
  <2>2. CASE word = 0
    BY <1>0, <1>2, <2>1, <2>2, Acquires DEF Ttas!Exchange
  <2>3. CASE word # 0
    BY <1>0, <1>2, <2>1, <2>3, Stays DEF Ttas!Exchange
  <2> QED
    BY <2>2, <2>3
<1>3. ASSUME NEW t \in Threads, Ttas!Spin(t)
      PROVE  IInv' /\ [Abstract!Next]_Mode
  <2>1. IInv'
    BY <1>3 DEF Ttas!Spin
  <2> QED
    BY <1>0, <1>3, <2>1, Stays DEF Ttas!Spin
<1>4. ASSUME NEW t \in Threads, Ttas!spinlock_unlock(t)
      PROVE  IInv' /\ [Abstract!Next]_Mode
  <2>1. IInv'
    BY <1>4 DEF Ttas!spinlock_unlock
  <2> QED
    BY <1>0, <1>4, <2>1, Releases DEF Ttas!spinlock_unlock
<1> QED
  BY <1>1, <1>2, <1>3, <1>4
  DEF Ttas!Next, Ttas!spinlock_lock

(***************************************************************************)
(* The futex mutex of lab2/4 (4.c:41-50) keeps the invariant: a failed     *)
(* attempt writes 1 over 1, and every release is followed by FUTEX_WAKE.   *)
(***************************************************************************)
LEMMA ExchangeFutexStep ==
  ASSUME IInv, kind = "exchange", kind' = kind, Exchange!Next
  PROVE  IInv' /\ [Abstract!Next]_Mode
<1> USE DEF IInv, TypeOK, Exclusive, WordTells, NoLostWakeup, Free, Kinds,
            Exchange!Places, Exchange!Goto
<1>0. at \in [Threads -> Exchange!Places]
  OBVIOUS
<1>1. ASSUME NEW t \in Threads, Exchange!Call(t)
      PROVE  IInv' /\ [Abstract!Next]_Mode
  <2>1. IInv'
    BY <1>1 DEF Exchange!Call
  <2> QED
    BY <1>0, <1>1, <2>1, Asks DEF Exchange!Call
<1>2. ASSUME NEW t \in Threads, Exchange!TestAndSet(t)
      PROVE  IInv' /\ [Abstract!Next]_Mode
  <2>1. IInv'
    BY <1>2 DEF Exchange!TestAndSet
  <2>2. CASE word = 0
    BY <1>0, <1>2, <2>1, <2>2, Acquires DEF Exchange!TestAndSet
  <2>3. CASE word # 0
    BY <1>0, <1>2, <2>1, <2>3, Stays DEF Exchange!TestAndSet
  <2> QED
    BY <2>2, <2>3
<1>3. ASSUME NEW t \in Threads, Exchange!FutexWait(t)
      PROVE  IInv' /\ [Abstract!Next]_Mode
  <2>1. IInv'
    BY <1>3 DEF Exchange!FutexWait
  <2> QED
    BY <1>0, <1>3, <2>1, Stays DEF Exchange!FutexWait
<1>4. ASSUME NEW t \in Threads, Exchange!WaitReturns(t)
      PROVE  IInv' /\ [Abstract!Next]_Mode
  <2>1. IInv'
    BY <1>4 DEF Exchange!WaitReturns
  <2> QED
    BY <1>0, <1>4, <2>1, Stays DEF Exchange!WaitReturns
<1>5. ASSUME NEW t \in Threads, Exchange!Release(t)
      PROVE  IInv' /\ [Abstract!Next]_Mode
  <2>1. IInv'
    BY <1>5 DEF Exchange!Release
  <2> QED
    BY <1>0, <1>5, <2>1, Releases DEF Exchange!Release
<1>6. ASSUME NEW t \in Threads, Exchange!FutexWake(t)
      PROVE  IInv' /\ [Abstract!Next]_Mode
  <2>1. CASE Exchange!Asleep = {}
    <3>1. IInv'
      BY <1>6, <2>1 DEF Exchange!FutexWake, Exchange!Asleep
    <3> QED
      BY <1>0, <1>6, <2>1, <3>1, Stays DEF Exchange!FutexWake
  <2>2. CASE Exchange!Asleep # {}
    <3>1. PICK s \in Exchange!Asleep :
             at' = [at EXCEPT ![t] = "idle", ![s] = "exchange"]
      BY <1>6, <2>2 DEF Exchange!FutexWake
    <3>2. IInv'
      BY <1>6, <3>1 DEF Exchange!FutexWake, Exchange!Asleep
    <3>3. Mode' = Mode
      BY <1>6, <3>1 DEF Exchange!FutexWake, Exchange!Asleep, Mode
    <3> QED
      BY <3>2, <3>3
  <2> QED
    BY <2>1, <2>2
<1> QED
  BY <1>1, <1>2, <1>3, <1>4, <1>5, <1>6
  DEF Exchange!Next, Exchange!futex_mutex_lock, Exchange!futex_mutex_unlock
-----------------------------------------------------------------------------
\* The four init functions establish the invariant, with every thread idle.
LEMMA Initially == Init => IInv /\ Abstract!Init
<1> SUFFICES ASSUME Init PROVE IInv /\ Abstract!Init
  OBVIOUS
<1>1. at = [t \in Threads |-> "idle"]
  BY DEF Init, Spin!Init, Futex!Init, Ttas!Init, Exchange!Init
<1>2. IInv
  BY <1>1 DEF Init, Spin!Init, Futex!Init, Ttas!Init, Exchange!Init, IInv,
              TypeOK, Exclusive, WordTells, NoLostWakeup, Free, Kinds,
              Spin!Places, Futex!Places, Ttas!Places, Exchange!Places
<1>3. Abstract!Init
  BY <1>1 DEF Abstract!Init, Mode
<1> QED
  BY <1>2, <1>3

\* Whatever the lock, a step keeps the invariant and is an abstract step.
LEMMA EveryStep == IInv /\ [Next]_vars => IInv' /\ [Abstract!Next]_Mode
<1> SUFFICES ASSUME IInv, [Next]_vars PROVE IInv' /\ [Abstract!Next]_Mode
  OBVIOUS
<1>1. CASE Next
  BY <1>1, SpinLockStep, FutexMutexStep, TtasLockStep, ExchangeFutexStep
  DEF Next
<1>2. CASE UNCHANGED vars
  BY <1>2 DEF vars, Mode, IInv, TypeOK, Exclusive, WordTells, NoLostWakeup, Free
<1> QED
  BY <1>1, <1>2

\* The inductive invariant of the four locks.
LEMMA Invariant == Spec => []IInv
  BY Initially, EveryStep, PTL DEF Spec

\* Type correctness of the lock and unlock functions of all four locks.
THEOREM TypeCorrect == Spec => []TypeOK
<1>1. IInv => TypeOK
  BY DEF IInv
<1> QED
  BY Invariant, <1>1, PTL

(***************************************************************************)
(* For any number of threads, waking one sleeper per unlock                *)
(* (e-mutex/queue.c:55, lab2/4/4.c:49) is enough: a free lock never has    *)
(* sleepers only.                                                          *)
(***************************************************************************)
THEOREM WakeupsNotLost == Spec => []NoLostWakeup
<1>1. IInv => NoLostWakeup
  BY DEF IInv
<1> QED
  BY Invariant, <1>1, PTL

(***************************************************************************)
(* For any number of threads, the two locks of lab2/2 and the two of       *)
(* lab2/4 implement the abstract lock: no thread returns from the lock     *)
(* function while another is past it.                                      *)
(***************************************************************************)
THEOREM LocksExclude == Spec => ImplementsMutex
<1>1. Init => Abstract!Init
  BY Initially
<1>2. IInv /\ [Next]_vars => [Abstract!Next]_Mode
  BY EveryStep
<1> QED
  BY Invariant, <1>1, <1>2, PTL DEF Spec, ImplementsMutex, Abstract!Spec

(***************************************************************************)
(* The threads are never all asleep in FUTEX_WAIT (e-mutex/queue.c:39,     *)
(* lab2/4/4.c:43): while one is, another holds the lock, is on its way to  *)
(* it, or is about to call FUTEX_WAKE.                                     *)
(***************************************************************************)
THEOREM NeverAllAsleep ==
    Spec => [](\A t \in Threads : at[t] = "asleep" =>
                  \E u \in Threads : at[u] \notin {"idle", "asleep"})
<1>1. IInv => \A t \in Threads : at[t] = "asleep" =>
                \E u \in Threads : at[u] \notin {"idle", "asleep"}
  BY DEF IInv, WordTells, NoLostWakeup
<1> QED
  BY <1>1, Invariant, PTL
=============================================================================
