------------------------------ MODULE LibProofs ------------------------------
(***************************************************************************)
(* Proofs about what lib gives to the rest of the kernel: the lock of a    *)
(* CPU and the containers.                                                 *)
(*                                                                         *)
(* CpuLock, used with interrupts masked, keeps its lock word exact, gives  *)
(* mutual exclusion and implements RecursiveLock, for every set of CPUs    *)
(* and every nesting depth.                                                *)
(*                                                                         *)
(* The ring buffer is a bounded queue, for every size, every set of values *)
(* and any number of operations.  The inductive invariant, RingInv, adds   *)
(* to RingIsQueue the ranges of the indices and of the elements, and says  *)
(* element by element where the queue is in the buffer.                    *)
(*                                                                         *)
(* For every element size and every history of push, pop and set: the      *)
(* vector keeps its elements through each doubling and halving, and the    *)
(* assertion of downsize_vec does not fail.                                *)
(***************************************************************************)
EXTENDS CpuLock, Pow2Ring, Kvec, SequenceTheorems, TLAPS

(* The calling discipline the theorems are about. *)
LocksMasked == IrqMasked = TRUE

(* -1, the free lock word, is the id of no CPU. *)
LEMMA CpuIsNotFree == \A c \in CPUS : c # FreeFlag
  BY CpuLockAssumption DEF FreeFlag

(* The initial lock word satisfies the inductive invariant. *)
LEMMA InitIInv == Init => IInv
  <1> SUFFICES ASSUME Init PROVE IInv
    OBVIOUS
  <1>1. TypeOK
    BY CpuLockAssumption DEF Init, TypeOK, PCs, FreeFlag
  <1>2. LockWordExact
    BY CpuIsNotFree DEF Init, LockWordExact, Held, Levels
  <1> QED
    BY <1>1, <1>2 DEF Init, IInv, Levels

(* Bounds on the acquisitions of a CPU. *)
LEMMA HeldBounds ==
    ASSUME TypeOK, NEW c \in CPUS
    PROVE  /\ Held(c) \in Nat /\ Held(c) <= 2 * MaxDepth
           /\ \A l \in Levels : /\ hold[c][l] \in Nat /\ hold[c][l] <= Held(c)
                                /\ hold[c][l] < MaxDepth => Held(c) < 2 * MaxDepth
  BY CpuLockAssumption DEF TypeOK, Held, Levels

(* How the acquisitions of the CPUs change with those of one context. *)
LEMMA HeldUpdate ==
    ASSUME TypeOK, NEW c \in CPUS, NEW l \in Levels, NEW n \in 0 .. MaxDepth,
           hold' = [hold EXCEPT ![c][l] = n]
    PROVE  /\ \A d \in CPUS : d # c => Held(d)' = Held(d)
           /\ Held(c)' = Held(c) - hold[c][l] + n
  BY CpuLockAssumption DEF TypeOK, Held, Levels

(* While a context runs, the other context of its CPU is outside the lock  *)
(* functions.                                                              *)
LEMMA AloneInLock ==
    ASSUME IInv, NEW c \in CPUS, NEW l \in Levels, Runs(c, l),
           NEW m \in Levels, m # l
    PROVE  pc[c][m] = "out"
  BY DEF IInv, Runs, Levels

(* One step of a context or of an interrupt keeps the invariant. *)
LEMMA NextIInv == LocksMasked /\ IInv /\ [Next]_vars => IInv'
  <1> SUFFICES ASSUME LocksMasked, IInv, [Next]_vars PROVE IInv'
    OBVIOUS
  <1> USE CpuLockAssumption, CpuIsNotFree DEF LocksMasked
  <1>0. TypeOK /\ LockWordExact
    BY DEF IInv
  <1>1. ASSUME NEW c \in CPUS, NEW l \in Levels, AcquireLoad(c, l) PROVE IInv'
    BY <1>1 DEF AcquireLoad, IInv, TypeOK, LockWordExact, Held, Goto, Runs, PCs, Levels
  <1>2. ASSUME NEW c \in CPUS, NEW l \in Levels, AcquireCas(c, l) PROVE IInv'
    BY <1>2 DEF AcquireCas, IInv, TypeOK, LockWordExact, Held, Goto, Runs, PCs, Levels
  <1>3. ASSUME NEW c \in CPUS, NEW l \in Levels, AcquireAdd(c, l) PROVE IInv'
    <2> USE <1>3 DEF AcquireAdd, Goto
    <2>1. hold[c][l] + 1 \in 0 .. MaxDepth /\ flag = c /\ count = Held(c)
      BY DEF IInv, TypeOK, LockWordExact
    <2>2. /\ \A d \in CPUS : d # c => Held(d)' = Held(d)
          /\ Held(c)' = Held(c) + 1
      <3>1. hold' = [hold EXCEPT ![c][l] = hold[c][l] + 1]
        OBVIOUS
      <3>2. /\ \A d \in CPUS : d # c => Held(d)' = Held(d)
            /\ Held(c)' = Held(c) - hold[c][l] + (hold[c][l] + 1)
        BY Zenon, <1>0, <2>1, <3>1, HeldUpdate
      <3> QED
        BY <1>0, <3>2, HeldBounds
    <2>3. count' = count + 1 /\ count' \in 0 .. (UintMod - 1)
      BY <1>0, <2>1, HeldBounds
    <2>4. TypeOK'
      BY <2>1, <2>3 DEF IInv, TypeOK, PCs
    <2>5. LockWordExact'
      BY <2>1, <2>2, <2>3 DEF IInv, LockWordExact
    <2> QED
      BY SMTT(30), <2>1, <2>4, <2>5, AloneInLock DEF IInv, TypeOK, Runs, Levels
  <1>4. ASSUME NEW c \in CPUS, NEW l \in Levels, TryLoad(c, l) PROVE IInv'
    BY SMTT(30), <1>4 DEF TryLoad, IInv, TypeOK, LockWordExact, Held, Goto, Runs, PCs, Levels
  <1>5. ASSUME NEW c \in CPUS, NEW l \in Levels, TryCas(c, l) PROVE IInv'
    BY <1>5 DEF TryCas, IInv, TypeOK, LockWordExact, Held, Goto, Runs, PCs, Levels
  <1>6. ASSUME NEW c \in CPUS, NEW l \in Levels, TrySet(c, l) PROVE IInv'
    <2> USE <1>6 DEF TrySet, Goto
    <2>1. hold[c][l] + 1 \in 0 .. MaxDepth /\ flag = c /\ Held(c) = 0
      BY DEF IInv, TypeOK, LockWordExact
    <2>2. /\ \A d \in CPUS : d # c => Held(d)' = Held(d)
          /\ Held(c)' = 1
      <3>1. hold' = [hold EXCEPT ![c][l] = hold[c][l] + 1]
        OBVIOUS
      <3>2. /\ \A d \in CPUS : d # c => Held(d)' = Held(d)
            /\ Held(c)' = Held(c) - hold[c][l] + (hold[c][l] + 1)
        BY <1>0, <2>1, <3>1, HeldUpdate, ZenonT(60)
      <3> QED
        BY <1>0, <2>1, <3>2, HeldBounds
    <2>3. TypeOK'
      BY <2>1 DEF IInv, TypeOK, PCs
    <2>4. LockWordExact'
      BY <2>1, <2>2 DEF IInv, LockWordExact
    <2> QED
      BY SMTT(30), <2>1, <2>3, <2>4, AloneInLock DEF IInv, TypeOK, Runs, Levels
  <1>7. ASSUME NEW c \in CPUS, NEW l \in Levels, ReleaseSub(c, l) PROVE IInv'
    <2> USE <1>7 DEF ReleaseSub, Goto
    <2>1. hold[c][l] - 1 \in 0 .. MaxDepth /\ Held(c) > 0
      BY <1>0, HeldBounds DEF TypeOK
    <2>2. flag = c /\ count = Held(c)
      BY <1>0, <2>1 DEF LockWordExact
    <2>3. /\ \A d \in CPUS : d # c => Held(d)' = Held(d)
          /\ Held(c)' = Held(c) - 1
      <3>1. hold' = [hold EXCEPT ![c][l] = hold[c][l] - 1]
        OBVIOUS
      <3>2. /\ \A d \in CPUS : d # c => Held(d)' = Held(d)
            /\ Held(c)' = Held(c) - hold[c][l] + (hold[c][l] - 1)
        BY Zenon, <1>0, <2>1, <3>1, HeldUpdate
      <3> QED
        BY <1>0, <3>2, HeldBounds
    <2>4. count' = count - 1 /\ count' \in 0 .. (UintMod - 1)
      BY SMTT(30), <1>0, <2>1, <2>2, HeldBounds
    <2>5. TypeOK'
      BY SMTT(30), <2>1, <2>4 DEF IInv, TypeOK, PCs
    <2>6. LockWordExact'
      BY SMTT(30), <2>1, <2>2, <2>3, <2>4 DEF IInv, LockWordExact
    <2> QED
      BY SMTT(30), <2>1, <2>2, <2>5, <2>6, AloneInLock DEF IInv, TypeOK, Runs, Levels
  <1>8. ASSUME NEW c \in CPUS, NEW l \in Levels, ReleaseTest(c, l) PROVE IInv'
    BY SMTT(30), <1>8 DEF ReleaseTest, IInv, TypeOK, LockWordExact, Held, Goto, Runs, PCs, Levels
  <1>9. ASSUME NEW c \in CPUS, NEW l \in Levels, ReleaseStore(c, l) PROVE IInv'
    BY SMTT(30), <1>9, AloneInLock
       DEF ReleaseStore, IInv, TypeOK, LockWordExact, Held, Goto, Runs, PCs, Levels
  <1>10. ASSUME NEW c \in CPUS, IrqEnter(c) PROVE IInv'
    BY SMTT(30), <1>10 DEF IrqEnter, IInv, TypeOK, LockWordExact, Held
  <1>11. ASSUME NEW c \in CPUS, IrqExit(c) PROVE IInv'
    BY SMTT(30), <1>11 DEF IrqExit, IInv, TypeOK, LockWordExact, Held
  <1>12. CASE UNCHANGED vars
    BY SMTT(30), <1>12 DEF vars, IInv, TypeOK, LockWordExact, Held
  <1> QED
    BY <1>1, <1>2, <1>3, <1>4, <1>5, <1>6, <1>7, <1>8, <1>9, <1>10, <1>11, <1>12
       DEF Next, Acquire, Try, Release

(* With interrupts masked inside acquire and release, the lock word agrees *)
(* with its holders at every step: the flag names the holder, the count is *)
(* the number of acquisitions not yet released.                            *)
THEOREM CpuLockInvariant ==
    ASSUME IrqMasked = TRUE
    PROVE  Spec => []IInv
  <1>1. Init => IInv
    BY InitIInv
  <1>2. IInv /\ [Next]_vars => IInv'
    BY NextIInv DEF LocksMasked
  <1> QED
    BY <1>1, <1>2, PTL DEF Spec

(* Two CPUs never hold the same cpulock, whatever their interrupt handlers *)
(* do with it.                                                             *)
THEOREM CpuLockMutualExclusion ==
    ASSUME IrqMasked = TRUE
    PROVE  Spec => []MutualExclusion
  <1>1. IInv => MutualExclusion
    BY DEF IInv, LockWordExact, MutualExclusion
  <1> QED
    BY <1>1, CpuLockInvariant, PTL

---------------------------------------------------------------------------
(* Refinement *)

(* The abstract owner and depth of a lock word that satisfies IInv. *)
LEMMA AbstractLock ==
    ASSUME IInv
    PROVE  /\ \A c \in CPUS : Held(c) > 0 => Owner = c /\ Depth = Held(c)
           /\ (\A c \in CPUS : ~(Held(c) > 0)) => Owner = FreeFlag /\ Depth = 0
  <1>1. ASSUME NEW c \in CPUS, Held(c) > 0 PROVE Owner = c
    BY SMTT(30), <1>1 DEF IInv, LockWordExact, Owner
  <1> QED
    BY Zenon, <1>1, CpuIsNotFree DEF Depth, Owner

(* The same after a step. *)
LEMMA AbstractLockNext ==
    ASSUME IInv'
    PROVE  /\ \A c \in CPUS : Held(c)' > 0 => Owner' = c /\ Depth' = Held(c)'
           /\ (\A c \in CPUS : ~(Held(c)' > 0)) => Owner' = FreeFlag /\ Depth' = 0
  <1>1. ASSUME NEW c \in CPUS, Held(c)' > 0 PROVE Owner' = c
    BY <1>1 DEF IInv, LockWordExact, Owner
  <1> QED
    BY Zenon, <1>1, CpuIsNotFree DEF Depth, Owner

(* A step that changes no context's acquisitions leaves the abstract lock. *)
LEMMA HoldUnchanged == UNCHANGED hold => UNCHANGED Abs!rvars
  BY SMTT(30) DEF Abs!rvars, Owner, Depth, Held

(* The counting step of acquire or trylock is the abstract acquisition. *)
LEMMA AddIsLock ==
    ASSUME IInv, IInv', NEW c \in CPUS, NEW l \in Levels,
           hold[c][l] < MaxDepth, flag = c,
           hold' = [hold EXCEPT ![c][l] = hold[c][l] + 1]
    PROVE  Abs!Lock(c)
  <1> USE CpuLockAssumption
  <1>1. TypeOK /\ hold[c][l] + 1 \in 0 .. MaxDepth
    BY SMTT(30) DEF IInv, TypeOK
  <1>2. /\ \A d \in CPUS : d # c => Held(d)' = Held(d)
        /\ Held(c)' = Held(c) - hold[c][l] + (hold[c][l] + 1)
    BY Zenon, <1>1, HeldUpdate
  <1>3. Held(c)' = Held(c) + 1 /\ Held(c) \in Nat
    BY SMTT(30), <1>1, <1>2, HeldBounds
  <1>4. \A d \in CPUS : d # c => ~(Held(d) > 0)
    BY SMTT(30) DEF IInv, LockWordExact
  <1>5. Owner' = c /\ Depth' = Held(c) + 1
    BY <1>3, AbstractLockNext
  <1>6. CASE Held(c) > 0
    BY <1>5, <1>6, AbstractLock DEF Abs!Lock
  <1>7. CASE ~(Held(c) > 0)
    <2>1. Owner = FreeFlag /\ Depth = 0
      BY <1>4, <1>7, AbstractLock
    <2>2. Held(c) = 0
      BY <1>3, <1>7
    <2> QED
      BY <1>5, <2>1, <2>2 DEF Abs!Lock
  <1> QED
    BY <1>6, <1>7

(* The subtraction of release is the abstract release. *)
LEMMA SubIsUnlock ==
    ASSUME IInv, IInv', NEW c \in CPUS, NEW l \in Levels, hold[c][l] > 0,
           hold' = [hold EXCEPT ![c][l] = hold[c][l] - 1]
    PROVE  Abs!Unlock(c)
  <1> USE CpuLockAssumption
  <1>1. TypeOK /\ hold[c][l] - 1 \in 0 .. MaxDepth
    BY SMTT(30) DEF IInv, TypeOK
  <1>2. /\ \A d \in CPUS : d # c => Held(d)' = Held(d)
        /\ Held(c)' = Held(c) - hold[c][l] + (hold[c][l] - 1)
    BY Zenon, <1>1, HeldUpdate
  <1>3. Held(c)' = Held(c) - 1 /\ Held(c) \in Nat /\ Held(c) > 0
    BY SMTT(30), <1>1, <1>2, HeldBounds
  <1>4. Owner = c /\ Depth = Held(c)
    BY <1>3, AbstractLock
  <1>5. \A d \in CPUS : d # c => ~(Held(d)' > 0)
    BY SMTT(30), <1>2, <1>3 DEF IInv, LockWordExact
  <1>6. CASE Held(c) = 1
    <2>1. Owner' = FreeFlag /\ Depth' = 0
      BY <1>3, <1>5, <1>6, AbstractLockNext
    <2> QED
      BY <1>3, <1>4, <1>6, <2>1 DEF Abs!Unlock
  <1>7. CASE Held(c) # 1
    <2>1. Owner' = c /\ Depth' = Held(c) - 1
      BY <1>3, <1>7, AbstractLockNext
    <2> QED
      BY <1>3, <1>4, <1>7, <2>1 DEF Abs!Unlock
  <1> QED
    BY <1>6, <1>7

(* Every step of the lock functions is a step of the abstract lock or      *)
(* leaves it unchanged.                                                    *)
LEMMA StepRefines ==
    ASSUME IInv, IInv', [Next]_vars
    PROVE  [Abs!RNext]_Abs!rvars
  <1>1. ASSUME NEW c \in CPUS, NEW l \in Levels, AcquireAdd(c, l) \/ TrySet(c, l)
        PROVE  Abs!RNext
    <2>1. hold[c][l] < MaxDepth /\ flag = c
      BY SMTT(30), <1>1 DEF AcquireAdd, TrySet, IInv
    <2>2. hold' = [hold EXCEPT ![c][l] = hold[c][l] + 1]
      BY SMTT(30), <1>1 DEF AcquireAdd, TrySet
    <2> QED
      BY Zenon, <2>1, <2>2, AddIsLock DEF Abs!RNext
  <1>2. ASSUME NEW c \in CPUS, NEW l \in Levels, ReleaseSub(c, l)
        PROVE  Abs!RNext
    <2>1. hold[c][l] > 0 /\ hold' = [hold EXCEPT ![c][l] = hold[c][l] - 1]
      BY <1>2 DEF ReleaseSub
    <2> QED
      BY Zenon, <2>1, SubIsUnlock DEF Abs!RNext
  <1>3. ASSUME NEW c \in CPUS, NEW l \in Levels,
               \/ AcquireLoad(c, l) \/ AcquireCas(c, l) \/ TryLoad(c, l)
               \/ TryCas(c, l) \/ ReleaseTest(c, l) \/ ReleaseStore(c, l)
        PROVE  UNCHANGED hold
    BY SMTT(30), <1>3 DEF AcquireLoad, AcquireCas, TryLoad, TryCas, ReleaseTest, ReleaseStore
  <1>4. ASSUME NEW c \in CPUS, IrqEnter(c) \/ IrqExit(c) PROVE UNCHANGED hold
    BY SMTT(30), <1>4 DEF IrqEnter, IrqExit
  <1>5. UNCHANGED vars => UNCHANGED hold
    BY DEF vars
  <1> QED
    BY SMTT(30), <1>1, <1>2, <1>3, <1>4, <1>5, HoldUnchanged DEF Next, Acquire, Try, Release

(* With interrupts masked inside acquire and release, a cpulock_t is a     *)
(* recursive lock: the modules that use it may treat acquire and release   *)
(* as single steps.                                                        *)
THEOREM CpuLockRefinement ==
    ASSUME IrqMasked = TRUE
    PROVE  Spec => RefinesRecursiveLock
  <1>1. Init => Abs!RInit
    <2> SUFFICES ASSUME Init PROVE Abs!RInit
      OBVIOUS
    <2>1. \A c \in CPUS : ~(Held(c) > 0)
      BY Zenon, InitIInv, CpuIsNotFree DEF Init, IInv, LockWordExact
    <2> QED
      BY <2>1, InitIInv, AbstractLock DEF Abs!RInit
  <1>2. IInv /\ IInv' /\ [Next]_vars => [Abs!RNext]_Abs!rvars
    BY StepRefines
  <1> QED
    BY <1>1, <1>2, CpuLockInvariant, PTL DEF Spec, RefinesRecursiveLock, Abs!RSpec

---------------------------------------------------------------------------
(* An index below 2 * n, masked without a remainder. *)
Wrapped(i, n) == IF i < n THEN i ELSE i - n

(* What the buffer may hold: values, and the zeroes of the initial buffer. *)
Elements == RingValues \cup {0}

RingTypeOK ==
    /\ ring = [size |-> ring.size, overwrite |-> ring.overwrite, lang |-> ring.lang,
               buf |-> ring.buf, head |-> ring.head, tail |-> ring.tail]
    /\ ring.size \in Nat \ {0} /\ ring.overwrite \in BOOLEAN
    /\ ring.buf \in [0 .. ring.size - 1 -> Elements]
    /\ ring.head \in Nat /\ ring.head < ring.size
    /\ ring.tail \in Nat /\ ring.tail < ring.size
    /\ ring_queue \in Seq(Elements)

QueueInBuffer ==
    /\ Len(ring_queue) = Wrapped(ring.head + ring.size - ring.tail, ring.size)
    /\ \A i \in 1 .. Len(ring_queue) :
          ring_queue[i] = ring.buf[Wrapped(ring.tail + i - 1, ring.size)]

RingInv == RingTypeOK /\ QueueInBuffer /\ ring_last.code = ring_last.queue

---------------------------------------------------------------------------
(* What the remainder is for the indices the ring computes. *)
LEMMA MaskedIndex ==
  ASSUME NEW n \in Nat \ {0}, NEW i \in Nat, i < 2 * n
  PROVE  i % n = Wrapped(i, n)
<1>1. CASE i < n
  BY <1>1, Z3 DEF Wrapped
<1>2. CASE i >= n
  <2>1. i % n = (i - n) % n
    BY <1>2, Z3
  <2>2. (i - n) \in Nat /\ i - n < n
    BY <1>2
  <2>. QED  BY <2>1, <2>2, <1>2, Z3 DEF Wrapped
<1>. QED  BY <1>1, <1>2

(* The indices after head and tail, and the two tests on them. *)
LEMMA NextIndices ==
  ASSUME RingTypeOK
  PROVE  /\ Masked(ring.head + 1) = Wrapped(ring.head + 1, ring.size)
         /\ Masked(ring.tail + 1) = Wrapped(ring.tail + 1, ring.size)
         /\ Masked(ring.head + ring.size - ring.tail)
               = Wrapped(ring.head + ring.size - ring.tail, ring.size)
         /\ \A i \in 1 .. ring.size :
               Masked(ring.tail + i - 1) = Wrapped(ring.tail + i - 1, ring.size)
<1>. DEFINE n == ring.size
            h == ring.head
            t == ring.tail
<1>1. n \in Nat \ {0} /\ h \in Nat /\ t \in Nat /\ h < n /\ t < n
  BY DEF RingTypeOK
<1>. HIDE DEF n, h, t
<1>2. /\ h + 1 \in Nat /\ h + 1 < 2 * n
      /\ t + 1 \in Nat /\ t + 1 < 2 * n
      /\ \A i \in 1 .. n : t + i - 1 \in Nat /\ t + i - 1 < 2 * n
  BY <1>1
<1>3. h + n - t \in Nat /\ h + n - t < 2 * n
  BY <1>1
<1>4. (h + 1) % n = Wrapped(h + 1, n) /\ (t + 1) % n = Wrapped(t + 1, n)
  BY <1>1, <1>2, MaskedIndex
<1>5. (h + n - t) % n = Wrapped(h + n - t, n)
  BY Zenon, <1>1, <1>3, MaskedIndex
<1>6. \A i \in 1 .. n : (t + i - 1) % n = Wrapped(t + i - 1, n)
  BY <1>1, <1>2, MaskedIndex
<1>. QED  BY SMTT(30), <1>4, <1>5, <1>6 DEF n, h, t, Masked

(* The ring is full exactly when the queue holds size - 1 elements, and    *)
(* empty exactly when the queue is.                                        *)
LEMMA FullAndEmpty ==
  ASSUME RingInv
  PROVE  /\ RingFull <=> Len(ring_queue) = ring.size - 1
         /\ Len(ring_queue) \in 0 .. ring.size - 1
         /\ RingEmpty <=> Len(ring_queue) = 0
         /\ RingEmpty <=> ring_queue = <<>>
<1>. DEFINE n == ring.size
            h == ring.head
            t == ring.tail
            c == Len(ring_queue)
<1>1. /\ n \in Nat \ {0} /\ h \in Nat /\ t \in Nat /\ h < n /\ t < n
      /\ c = Wrapped(h + n - t, n)
  BY SMTT(30) DEF RingInv, RingTypeOK, QueueInBuffer
<1>2. RingFull <=> Wrapped(h + 1, n) = t
  BY SMTT(30), NextIndices DEF RingInv, RingFull
<1>3. ring_queue = <<>> <=> c = 0
  BY DEF RingInv, RingTypeOK
<1>4. RingEmpty <=> h = t
  BY DEF RingEmpty
<1>. HIDE DEF n, h, t, c
<1>5. /\ c = n - 1 <=> Wrapped(h + 1, n) = t
      /\ c \in 0 .. n - 1
      /\ c = 0 <=> h = t
  BY <1>1 DEF Wrapped
<1>6. RingFull <=> c = n - 1
  BY <1>2, <1>5, Zenon
<1>7. (RingEmpty <=> c = 0) /\ (RingEmpty <=> ring_queue = <<>>)
  BY <1>3, <1>4, <1>5, Zenon
<1>. QED  BY <1>5, <1>6, <1>7, Zenon DEF n, c

(* The invariant says what RingIsQueue says. *)
LEMMA InvIsQueue == RingInv => RingIsQueue
<1>. SUFFICES ASSUME RingInv PROVE RingIsQueue
  OBVIOUS
<1>. DEFINE c == Len(ring_queue)
<1>1. c = Masked(ring.head + ring.size - ring.tail)
  BY SMTT(30), NextIndices DEF RingInv, QueueInBuffer
<1>2. c \in 0 .. ring.size - 1 /\ ring.size \in Nat
  BY SMTT(30), FullAndEmpty DEF RingInv, RingTypeOK
<1>3. ring_queue = [i \in 1 .. c |-> ring_queue[i]]
  BY DEF RingInv, RingTypeOK
<1>4. \A i \in 1 .. c : ring_queue[i] = ring.buf[Masked(ring.tail + i - 1)]
  BY SMTT(30), <1>2, NextIndices DEF RingInv, QueueInBuffer
<1>. HIDE DEF c
<1>. QED  BY <1>1, <1>3, <1>4 DEF RingIsQueue, RingInv

---------------------------------------------------------------------------
(* The invariant holds at the start. *)
LEMMA InitInv == RingInit => RingInv
<1>. SUFFICES ASSUME RingInit PROVE RingInv
  OBVIOUS
<1>1. PICK n \in RingSizes :
          ring \in [size : {n}, overwrite : BOOLEAN, lang : {"C", "Rust"},
                    buf : {[i \in 0 .. n - 1 |-> 0]}, head : {0}, tail : {0}]
  BY DEF RingInit
<1>2. n \in Nat \ {0}
  BY RingAssumption
<1>3. /\ ring.size = n /\ ring.head = 0 /\ ring.tail = 0
      /\ ring.buf = [i \in 0 .. n - 1 |-> 0]
  BY <1>1
<1>4. ring.buf \in [0 .. n - 1 -> Elements]
  BY <1>3 DEF Elements
<1>5. RingTypeOK
  BY <1>1, <1>2, <1>3, <1>4 DEF RingInit, RingTypeOK
<1>6. QueueInBuffer
  BY <1>2, <1>3 DEF RingInit, QueueInBuffer, Wrapped
<1>. QED  BY <1>5, <1>6 DEF RingInv, RingInit

(* Taking an element keeps the invariant, and answers the oldest one. *)
LEMMA PopInv == RingInv /\ ringPop => RingInv'
<1>. SUFFICES ASSUME RingInv, ringPop PROVE RingInv'
  OBVIOUS
<1>. DEFINE n == ring.size
            h == ring.head
            t == ring.tail
            c == Len(ring_queue)
<1>1. /\ n \in Nat \ {0} /\ h \in Nat /\ t \in Nat /\ h < n /\ t < n
      /\ c = Wrapped(h + n - t, n) /\ ring_queue \in Seq(Elements)
      /\ \A i \in 1 .. c : ring_queue[i] = ring.buf[Wrapped(t + i - 1, n)]
  BY SMTT(30) DEF RingInv, RingTypeOK, QueueInBuffer
<1>2. c \in 0 .. n - 1 /\ (RingEmpty <=> ring_queue = <<>>) /\ (RingEmpty <=> c = 0)
  BY FullAndEmpty
<1>3. CASE RingEmpty
  <2>1. ring' = ring /\ ring_queue' = ring_queue
        /\ ring_last'.code = "none" /\ ring_last'.queue = "none"
    BY <1>2, <1>3 DEF ringPop
  <2>. QED  BY SMTT(30), <2>1 DEF RingInv, RingTypeOK, QueueInBuffer
<1>4. CASE ~RingEmpty
  <2>1. /\ ring' = [ring EXCEPT !.tail = Wrapped(t + 1, n)]
        /\ ring_queue' = Tail(ring_queue)
        /\ ring_last'.code = <<ring.buf[t]>> /\ ring_last'.queue = <<Head(ring_queue)>>
    BY SMTT(30), <1>2, <1>4, NextIndices DEF ringPop, RingInv
  <2>2. c > 0
    BY <1>2, <1>4
  <2>3. /\ ring'.size = n /\ ring'.head = h /\ ring'.tail = Wrapped(t + 1, n)
        /\ ring'.buf = ring.buf
    BY <2>1 DEF RingInv, RingTypeOK
  <2>4. Wrapped(t + 1, n) \in 0 .. n - 1
    <3>. HIDE DEF n, h, t, c
    <3>. QED  BY <1>1 DEF Wrapped
  <2>5. RingTypeOK'
    <3>1. ring_queue' \in Seq(Elements)
      BY <1>1, <2>1, <2>2
    <3>2. ring' = [size |-> n, overwrite |-> ring.overwrite, lang |-> ring.lang,
                   buf |-> ring.buf, head |-> h, tail |-> Wrapped(t + 1, n)]
      BY Zenon, <2>1 DEF RingInv, RingTypeOK
    <3>. QED  BY SMTT(30), <1>1, <2>4, <3>1, <3>2 DEF RingInv, RingTypeOK
  <2>6. Len(ring_queue') = c - 1
        /\ \A i \in 1 .. c - 1 : ring_queue'[i] = ring_queue[i + 1]
    BY SMTT(30), <1>1, <2>1, <2>2
  <2>7. /\ Wrapped(h + n - Wrapped(t + 1, n), n) = c - 1
        /\ \A i \in 1 .. n - 1 : Wrapped(Wrapped(t + 1, n) + i - 1, n) = Wrapped(t + i, n)
    <3>. HIDE DEF n, h, t, c
    <3>. QED  BY SMTT(30), <1>1, <2>2 DEF Wrapped
  <2>8. \A i \in 1 .. c - 1 : ring_queue[i + 1] = ring.buf[Wrapped(t + i, n)]
    <3>. HIDE DEF n, h, t, c
    <3>. SUFFICES ASSUME NEW i \in 1 .. c - 1
                  PROVE  ring_queue[i + 1] = ring.buf[Wrapped(t + i, n)]
      BY SMTT(30)
    <3>1. i + 1 \in 1 .. c /\ t + (i + 1) - 1 = t + i
      BY SMTT(30), <1>1, <1>2
    <3>. QED  BY SMTT(30), <3>1, <1>1
  <2>9. QueueInBuffer'
    <3>1. Len(ring_queue') = Wrapped(ring'.head + ring'.size - ring'.tail, ring'.size)
      BY <2>3, <2>6, <2>7
    <3>2. \A i \in 1 .. Len(ring_queue') :
             ring_queue'[i] = ring'.buf[Wrapped(ring'.tail + i - 1, ring'.size)]
      <4>. HIDE DEF n, h, t, c
      <4>. SUFFICES ASSUME NEW i \in 1 .. Len(ring_queue')
                    PROVE  ring_queue'[i] = ring'.buf[Wrapped(ring'.tail + i - 1, ring'.size)]
        OBVIOUS
      <4>1. i \in 1 .. c - 1 /\ i \in 1 .. n - 1
        BY SMTT(30), <1>1, <1>2, <2>6
      <4>2. ring_queue'[i] = ring.buf[Wrapped(t + i, n)]
        BY SMTT(30), <2>6, <2>8, <4>1
      <4>3. Wrapped(ring'.tail + i - 1, ring'.size) = Wrapped(t + i, n)
        BY SMTT(30), <2>3, <2>7, <4>1
      <4>. QED  BY <2>3, <4>2, <4>3
    <3>. QED  BY <3>1, <3>2 DEF QueueInBuffer
  <2>10. ring.buf[t] = Head(ring_queue)
    <3>1. Wrapped(t + 1 - 1, n) = t
      BY SMTT(30), <1>1 DEF Wrapped
    <3>. QED  BY SMTT(30), <1>1, <2>2, <3>1
  <2>. QED  BY <2>1, <2>5, <2>9, <2>10 DEF RingInv
<1>. QED  BY <1>3, <1>4

(* Storing an element in a ring that is not full keeps the invariant. *)
LEMMA StoreInv ==
  ASSUME RingInv, NEW v \in RingValues, ringPush(v), ~RingFull
  PROVE  RingTypeOK' /\ QueueInBuffer'
<1>. DEFINE n == ring.size
            h == ring.head
            t == ring.tail
            c == Len(ring_queue)
            b == [ring.buf EXCEPT ![h] = v]
<1>1. /\ n \in Nat \ {0} /\ h \in Nat /\ t \in Nat /\ h < n /\ t < n
      /\ c = Wrapped(h + n - t, n) /\ ring_queue \in Seq(Elements)
      /\ \A i \in 1 .. c : ring_queue[i] = ring.buf[Wrapped(t + i - 1, n)]
      /\ ring.buf \in [0 .. n - 1 -> Elements]
  BY SMTT(30) DEF RingInv, RingTypeOK, QueueInBuffer
<1>2. c \in 0 .. n - 1 /\ c # n - 1
  BY FullAndEmpty
<1>3. ring' = [size |-> n, overwrite |-> ring.overwrite, lang |-> ring.lang,
               buf |-> b, head |-> Wrapped(h + 1, n), tail |-> t]
  <2>1. ring' = [ring EXCEPT !.buf[h] = v, !.head = Wrapped(h + 1, n)]
    BY Zenon, NextIndices DEF RingInv, ringPush, Stored
  <2>. QED  BY Zenon, <2>1 DEF RingInv, RingTypeOK
<1>4. ring_queue' = Append(ring_queue, v)
  <2>1. c < n - 1
    <3>. HIDE DEF n, c
    <3>. QED  BY SMTT(30), <1>1, <1>2
  <2>. QED  BY <2>1 DEF ringPush
<1>5. v \in Elements
  BY DEF Elements
<1>6. /\ ring_queue' \in Seq(Elements)
      /\ Len(ring_queue') = c + 1
      /\ \A i \in 1 .. c : ring_queue'[i] = ring_queue[i]
      /\ ring_queue'[c + 1] = v
  BY SMTT(30), <1>1, <1>4, <1>5
<1>7. b \in [0 .. n - 1 -> Elements] /\ b[h] = v
      /\ \A j \in (0 .. n - 1) \ {h} : b[j] = ring.buf[j]
  BY SMTT(30), <1>1, <1>5
<1>. HIDE DEF n, h, t, c, b
<1>8. /\ Wrapped(h + 1, n) \in Nat /\ Wrapped(h + 1, n) < n
      /\ Wrapped(Wrapped(h + 1, n) + n - t, n) = c + 1
      /\ Wrapped(t + (c + 1) - 1, n) = h
      /\ \A i \in 1 .. c : Wrapped(t + i - 1, n) \in (0 .. n - 1) \ {h}
  BY SMTT(30), <1>1, <1>2 DEF Wrapped
<1>9. RingTypeOK'
  BY SMTT(30), <1>1, <1>3, <1>6, <1>7, <1>8 DEF RingInv, RingTypeOK, n
<1>10. QueueInBuffer'
  <2>1. Len(ring_queue') = Wrapped(ring'.head + ring'.size - ring'.tail, ring'.size)
    BY SMTT(30), <1>3, <1>6, <1>8
  <2>2. ASSUME NEW i \in 1 .. Len(ring_queue')
        PROVE  ring_queue'[i] = ring'.buf[Wrapped(ring'.tail + i - 1, ring'.size)]
    <3>1. i \in 1 .. c \/ i = c + 1
      BY SMTT(30), <1>2, <1>1, <1>6
    <3>2. CASE i \in 1 .. c
      BY Zenon, <1>1, <1>3, <1>6, <1>7, <1>8, <3>2
    <3>3. CASE i = c + 1
      BY SMTT(30), <1>3, <1>6, <1>7, <1>8, <3>3
    <3>. QED  BY SMTT(30), <3>1, <3>2, <3>3
  <2>. QED  BY SMTT(30), <2>1, <2>2 DEF QueueInBuffer
<1>. QED  BY <1>9, <1>10

(* Storing an element over the oldest one keeps the invariant. *)
LEMMA OverwriteInv ==
  ASSUME RingInv, NEW v \in RingValues, ringPush(v), RingFull, ring.overwrite
  PROVE  RingTypeOK' /\ QueueInBuffer'
<1>. DEFINE n == ring.size
            h == ring.head
            t == ring.tail
            c == Len(ring_queue)
            b == [ring.buf EXCEPT ![h] = v]
            u == Wrapped(t + 1, n)
<1>1. /\ n \in Nat \ {0} /\ h \in Nat /\ t \in Nat /\ h < n /\ t < n
      /\ ring_queue \in Seq(Elements)
      /\ \A i \in 1 .. c : ring_queue[i] = ring.buf[Wrapped(t + i - 1, n)]
      /\ ring.buf \in [0 .. n - 1 -> Elements]
  BY SMTT(30) DEF RingInv, RingTypeOK, QueueInBuffer
<1>2. c = n - 1
  BY FullAndEmpty
<1>3. Wrapped(h + 1, n) = t
  BY SMTT(30), NextIndices DEF RingInv, RingFull
<1>4. ring' = [size |-> n, overwrite |-> ring.overwrite, lang |-> ring.lang,
               buf |-> b, head |-> t, tail |-> u]
  <2>1. ring' = [[ring EXCEPT !.buf[h] = v, !.head = t] EXCEPT !.tail = u]
    BY Zenon, <1>3, NextIndices DEF RingInv, RingTypeOK, ringPush, StoredOver, Stored
  <2>. QED  BY SMTT(30), <2>1 DEF RingInv, RingTypeOK
<1>5. ring_queue' = Tail(Append(ring_queue, v))
  BY SMTT(30), <1>1, <1>2 DEF ringPush
<1>6. v \in Elements
  BY SMTT(30) DEF Elements
<1>7. /\ ring_queue' \in Seq(Elements)
      /\ Len(ring_queue') = c
      /\ \A i \in 1 .. c - 1 : ring_queue'[i] = ring_queue[i + 1]
      /\ c > 0 => ring_queue'[c] = v
  <2>0. Append(ring_queue, v) \in Seq(Elements)
    BY SMTT(30), <1>1, <1>6
  <2>1. PICK q \in Seq(Elements) : q = Append(ring_queue, v)
    BY <2>0, Zenon
  <2>2. /\ Len(q) = c + 1 /\ q[c + 1] = v
        /\ \A i \in 1 .. c : q[i] = ring_queue[i]
    BY SMTT(30), <1>1, <1>6, <2>1
  <2>3. /\ Tail(q) \in Seq(Elements) /\ Len(Tail(q)) = c
        /\ \A i \in 1 .. c : Tail(q)[i] = q[i + 1]
    BY SMTT(30), <1>1, <2>1, <2>2
  <2>4. c \in Nat
    BY <1>1
  <2>. HIDE DEF c
  <2>. QED  BY SMTT(30), <1>5, <2>1, <2>2, <2>3, <2>4
<1>8. b \in [0 .. n - 1 -> Elements] /\ b[h] = v
      /\ \A j \in (0 .. n - 1) \ {h} : b[j] = ring.buf[j]
  BY SMTT(30), <1>1, <1>6
<1>. HIDE DEF n, h, t, c, b
<1>9. /\ u \in Nat /\ u < n
      /\ Wrapped(t + n - u, n) = c
      /\ c > 0 => Wrapped(u + c - 1, n) = h
      /\ \A i \in 1 .. c - 1 : /\ Wrapped(u + i - 1, n) = Wrapped(t + (i + 1) - 1, n)
                               /\ Wrapped(u + i - 1, n) \in (0 .. n - 1) \ {h}
  BY SMTT(30), <1>1, <1>2, <1>3 DEF Wrapped
<1>. HIDE DEF u
<1>10. RingTypeOK'
  BY SMTT(30), <1>1, <1>4, <1>7, <1>8, <1>9 DEF RingInv, RingTypeOK, n
<1>11. QueueInBuffer'
  <2>1. Len(ring_queue') = Wrapped(ring'.head + ring'.size - ring'.tail, ring'.size)
    BY SMTT(30), <1>4, <1>7, <1>9
  <2>2. ASSUME NEW i \in 1 .. Len(ring_queue')
        PROVE  ring_queue'[i] = ring'.buf[Wrapped(ring'.tail + i - 1, ring'.size)]
    <3>1. c \in Nat /\ (i \in 1 .. c - 1 \/ (i = c /\ c > 0))
      BY SMTT(30), <1>1, <1>2, <1>7
    <3>2. CASE i \in 1 .. c - 1
      <4>1. i + 1 \in 1 .. c
        BY SMTT(30), <3>1, <3>2
      <4>2. ring_queue[i + 1] = ring.buf[Wrapped(u + i - 1, n)]
        BY SMTT(30), <1>1, <1>9, <3>2, <4>1
      <4>. QED  BY SMTT(30), <1>4, <1>7, <1>8, <1>9, <3>2, <4>2
    <3>3. CASE i = c /\ c > 0
      BY SMTT(30), <1>4, <1>7, <1>8, <1>9, <3>3
    <3>. QED  BY SMTT(30), <3>1, <3>2, <3>3
  <2>. QED  BY SMTT(30), <2>1, <2>2 DEF QueueInBuffer
<1>. QED  BY <1>10, <1>11

(* Every push keeps the invariant and answers what the queue would. *)
LEMMA PushInv ==
  ASSUME RingInv, NEW v \in RingValues, ringPush(v)
  PROVE  RingInv'
<1>1. RingFull <=> ~(Len(ring_queue) < ring.size - 1)
  <2>1. ring.size \in Nat /\ Len(ring_queue) \in 0 .. ring.size - 1
    BY SMTT(30), FullAndEmpty DEF RingInv, RingTypeOK
  <2>2. Len(ring_queue) = ring.size - 1 <=> ~(Len(ring_queue) < ring.size - 1)
    BY <2>1
  <2>3. RingFull <=> Len(ring_queue) = ring.size - 1
    BY FullAndEmpty, Zenon
  <2>. QED  BY <2>2, <2>3, Zenon
<1>2. ring_last'.code = ring_last'.queue
  <2>. DEFINE room == Len(ring_queue) < ring.size - 1
  <2>1. /\ ring_last'.code = IF ring.lang = "C" THEN ~RingFull ELSE ~RingFull \/ ring.overwrite
        /\ ring_last'.queue = IF ring.lang = "C" THEN room ELSE room \/ ring.overwrite
    BY Zenon DEF ringPush
  <2>2. room = (~RingFull)
    BY <1>1 DEF RingFull
  <2>. HIDE DEF room
  <2>. QED  BY <2>1, <2>2, Zenon
<1>3. CASE ~RingFull
  BY <1>2, <1>3, StoreInv DEF RingInv
<1>4. CASE RingFull /\ ring.overwrite
  BY <1>2, <1>4, OverwriteInv DEF RingInv
<1>5. CASE RingFull /\ ~ring.overwrite
  <2>1. ring' = ring /\ ring_queue' = ring_queue
    BY <1>1, <1>5 DEF ringPush
  <2>. QED  BY SMTT(30), <1>2, <2>1 DEF RingInv, RingTypeOK, QueueInBuffer
<1>. QED  BY <1>3, <1>4, <1>5

(* The ring holds what a queue of at most size - 1 elements would, and     *)
(* answers every push and pop as that queue would, whatever the size of    *)
(* the ring, its values and the number of operations (pow2_ring.rs).       *)
THEOREM RingCorrect == RingSpec => []RingIsQueue
<1>1. RingInv /\ [RingNext]_ringVars => RingInv'
  <2>. SUFFICES ASSUME RingInv, [RingNext]_ringVars PROVE RingInv'
    OBVIOUS
  <2>1. CASE ringPop
    BY <2>1, PopInv
  <2>2. ASSUME NEW v \in RingValues, ringPush(v) PROVE RingInv'
    BY <2>2, PushInv
  <2>3. CASE UNCHANGED ringVars
    BY SMTT(30), <2>3 DEF ringVars, RingInv, RingTypeOK, QueueInBuffer
  <2>. QED  BY <2>1, <2>2, <2>3 DEF RingNext
<1>. QED  BY <1>1, InitInv, InvIsQueue, PTL DEF RingSpec
---------------------------------------------------------------------------
(* The vector *)

Values == {0, 1}

KvecTypeOK ==
    /\ kvec = [size |-> kvec.size, bytes |-> kvec.bytes, i |-> kvec.i, container |-> kvec.container]
    /\ kvec.size \in KvecSizes /\ kvec.bytes \in Nat /\ kvec.i \in Nat
    /\ kvec_pushed \in Seq(Values)

KvecInv == KvecTypeOK /\ KvecKeepsElements /\ KvecNoPanic

---------------------------------------------------------------------------
(* What no more than a quarter of a container holds fits half of it, with  *)
(* the roundings of the two divisions.                                     *)
LEMMA QuarterFitsHalf ==
  ASSUME NEW b \in Nat, NEW s \in Nat \ {0}, NEW i \in Nat, i <= (b \div s) \div 4
  PROVE  i * s <= b \div 2
<1>1. PICK q \in Nat : q = b \div s
  BY Z3
<1>2. q * s <= b
  BY <1>1, Z3
<1>3. 4 * i <= q
  BY <1>1
<1>4. PICK p \in Nat : p = i * s
  OBVIOUS
<1>5. 4 * p <= q * s
  <2>1. (4 * i) * s <= q * s
    BY <1>3, Z3
  <2>2. (4 * i) * s = 4 * (i * s)
    BY Z3
  <2>. QED  BY <1>4, <2>1, <2>2
<1>6. PICK r \in Nat : r = q * s
  OBVIOUS
<1>. QED  BY <1>2, <1>4, <1>5, <1>6

(* The assertion of downsize_vec holds where kvec_pop calls it. *)
LEMMA DownsizeSucceeds ==
  ASSUME NEW k, k.bytes \in Nat, k.size \in Nat \ {0}, k.i \in Nat, DownsizeWanted(k)
  PROVE  ~DownsizeFails(k)
<1>1. k.i * k.size <= k.bytes \div 2
  BY QuarterFitsHalf DEF DownsizeWanted
<1>. QED  BY <1>1 DEF DownsizeFails

---------------------------------------------------------------------------
(* The vector starts empty. *)
LEMMA KvecInitInv == KvecInit => KvecInv
BY SMTT(30) DEF KvecInit, KvecInv, KvecTypeOK, KvecKeepsElements, KvecNoPanic, NoContainer

(* A push stores its element behind the others, in the old container or in *)
(* one twice as large.                                                     *)
LEMMA KvecPushInv ==
  ASSUME KvecInv, NEW v \in Values, kvec_push(v)
  PROVE  KvecInv'
<1>. DEFINE k == IF PushFits(kvec) THEN kvec ELSE upsize_vec(kvec)
            n == kvec.i
            C == [j \in DOMAIN k.container \cup {n + 1} |->
                     IF j = n + 1 THEN v ELSE k.container[j]]
<1>1. /\ k = [size |-> kvec.size, bytes |-> k.bytes, i |-> n, container |-> k.container]
      /\ k.bytes \in Nat
      /\ \A j \in 1 .. n : j \in DOMAIN k.container /\ k.container[j] = kvec.container[j]
  <2>1. CASE PushFits(kvec)
    BY SMTT(30), <2>1 DEF KvecInv, KvecTypeOK, KvecKeepsElements
  <2>2. CASE ~PushFits(kvec)
    <3>. DEFINE bytes == IF kvec.bytes # 0 THEN kvec.bytes * 2
                         ELSE pow2_bytes_for(kvec.size, KvecMinItems)
    <3>1. k = [kvec EXCEPT !.bytes = bytes, !.container = CopyOf(kvec, n)]
      BY <2>2 DEF upsize_vec
    <3>2. bytes \in Nat
      BY SMTT(30), KvecAssumption DEF KvecInv, KvecTypeOK
    <3>. HIDE DEF bytes
    <3>3. k = [size |-> kvec.size, bytes |-> bytes, i |-> n, container |-> CopyOf(kvec, n)]
      BY Zenon, <3>1 DEF KvecInv, KvecTypeOK
    <3>4. \A j \in 1 .. n : /\ j \in DOMAIN CopyOf(kvec, n)
                            /\ CopyOf(kvec, n)[j] = kvec.container[j]
      BY SMTT(30) DEF CopyOf
    <3>. HIDE DEF k
    <3>. QED  BY SMTT(30), <3>2, <3>3, <3>4
  <2>. QED  BY SMTT(30), <2>1, <2>2
<1>2. kvec' = [size |-> kvec.size, bytes |-> k.bytes, i |-> n + 1, container |-> C]
  <2>1. k.i = n
    BY SMTT(30), <1>1
  <2>2. kvec' = [k EXCEPT !.container = [j \in DOMAIN k.container \cup {k.i + 1} |->
                                           IF j = k.i + 1 THEN v ELSE k.container[j]],
                         !.i = k.i + 1]
    BY DEF kvec_push
  <2>. HIDE DEF k
  <2>3. kvec' = [k EXCEPT !.container = C, !.i = n + 1]
    BY <2>1, <2>2
  <2>4. PICK B, D : k = [size |-> kvec.size, bytes |-> B, i |-> n, container |-> D]
    BY <1>1, Zenon
  <2>5. B = k.bytes
    BY SMTT(30), <2>4
  <2>. HIDE DEF C, n
  <2>. QED  BY Zenon, <2>3, <2>4, <2>5
<1>3. kvec_pushed' = Append(kvec_pushed, v) /\ UNCHANGED kvec_panic
  BY DEF kvec_push
<1>4. kvec_pushed \in Seq(Values) /\ n = Len(kvec_pushed)
      /\ \A j \in 1 .. n : kvec.container[j] = kvec_pushed[j]
  BY SMTT(30) DEF KvecInv, KvecTypeOK, KvecKeepsElements
<1>5. /\ kvec_pushed' \in Seq(Values) /\ Len(kvec_pushed') = n + 1
      /\ kvec_pushed'[n + 1] = v
      /\ \A j \in 1 .. n : kvec_pushed'[j] = kvec_pushed[j]
  BY SMTT(30), <1>3, <1>4
<1>6. n \in Nat /\ kvec.size \in KvecSizes
  BY SMTT(30) DEF KvecInv, KvecTypeOK
<1>. HIDE DEF k
<1>7. C[n + 1] = v /\ \A j \in 1 .. n : j \in DOMAIN C /\ C[j] = kvec_pushed[j]
  BY SMTT(30), <1>1, <1>4, <1>6
<1>8. n + 1 \in DOMAIN C
  BY SMTT(30)
<1>. HIDE DEF C, n
<1>9. KvecTypeOK'
  BY SMTT(30), <1>1, <1>2, <1>5, <1>6, <1>8 DEF KvecTypeOK
<1>10. KvecKeepsElements'
  BY SMTT(30), <1>2, <1>5, <1>6, <1>7, <1>8 DEF KvecKeepsElements
<1>. QED  BY <1>3, <1>9, <1>10 DEF KvecInv, KvecNoPanic

(* A pop drops the last element, and copies the others if the container is *)
(* replaced.                                                               *)
LEMMA KvecPopInv ==
  ASSUME KvecInv, kvec_pop
  PROVE  KvecInv'
<1>. DEFINE n == kvec.i - 1
            k == [kvec EXCEPT !.i = @ - 1]
<1>1. /\ kvec_pushed \in Seq(Values) /\ kvec.i = Len(kvec_pushed)
      /\ kvec.i \in Nat \ {0} /\ n \in Nat
      /\ kvec.size \in KvecSizes /\ kvec.size \in Nat \ {0} /\ kvec.bytes \in Nat
      /\ \A j \in 1 .. n : j \in DOMAIN kvec.container /\ kvec.container[j] = kvec_pushed[j]
  BY SMTT(30), KvecAssumption DEF kvec_pop, KvecInv, KvecTypeOK, KvecKeepsElements
<1>2. k = [size |-> kvec.size, bytes |-> kvec.bytes, i |-> n, container |-> kvec.container]
  BY DEF KvecInv, KvecTypeOK
<1>3. ~(DownsizeWanted(k) /\ DownsizeFails(k))
  <2>1. k.size \in Nat \ {0} /\ k.bytes \in Nat /\ k.i \in Nat
    BY <1>1, <1>2
  <2>. HIDE DEF k
  <2>. QED  BY SMTT(30), <2>1, DownsizeSucceeds
<1>4. ~kvec_panic'
  BY Zenon, <1>3 DEF kvec_pop
<1>5. \/ kvec' = k
      \/ kvec' = downsize_vec(k)
  BY SMTT(30) DEF kvec_pop
<1>. HIDE DEF k
<1>6. /\ kvec' = [size |-> kvec.size, bytes |-> kvec'.bytes, i |-> n, container |-> kvec'.container]
      /\ kvec'.bytes \in Nat
      /\ \A j \in 1 .. n : j \in DOMAIN kvec'.container /\ kvec'.container[j] = kvec.container[j]
  <2>1. CASE kvec' = k
    BY SMTT(30), <1>1, <1>2, <2>1 DEF KvecInv, KvecTypeOK
  <2>2. CASE kvec' = downsize_vec(k)
    <3>1. \/ kvec' = k
          \/ n = 0 /\ kvec' = [k EXCEPT !.bytes = 0, !.container = NoContainer]
          \/ kvec' = [k EXCEPT !.bytes = @ \div 2, !.container = CopyOf(k, k.i)]
      BY SMTT(30), <1>2, <2>2 DEF downsize_vec
    <3>2. CASE n = 0 /\ kvec' = [k EXCEPT !.bytes = 0, !.container = NoContainer]
      <4>1. kvec' = [size |-> kvec.size, bytes |-> 0, i |-> n, container |-> NoContainer]
        BY Zenon, <1>2, <3>2
      <4>2. 1 .. n = {}
        BY <3>2
      <4>. HIDE DEF n
      <4>. QED  BY SMTT(30), <4>1, <4>2
    <3>3. CASE kvec' = [k EXCEPT !.bytes = @ \div 2, !.container = CopyOf(k, k.i)]
      <4>1. kvec.bytes \div 2 \in Nat
        BY SMTT(30), <1>1
      <4>. QED  BY Zenon, <1>1, <1>2, <3>3, <4>1 DEF CopyOf
    <3>. QED  BY SMTT(30), <2>1, <3>1, <3>2, <3>3
  <2>. QED  BY SMTT(30), <1>5, <2>1, <2>2
<1>7. /\ kvec_pushed' \in Seq(Values) /\ Len(kvec_pushed') = n
      /\ \A j \in 1 .. n : kvec_pushed'[j] = kvec_pushed[j]
  <2>1. kvec_pushed' = SubSeq(kvec_pushed, 1, n)
    BY <1>1 DEF kvec_pop, Front
  <2>2. \A j \in 1 .. n : kvec_pushed[j] \in Values
    BY SMTT(30), <1>1
  <2>. HIDE DEF n
  <2>3. /\ SubSeq(kvec_pushed, 1, n) \in Seq(Values)
        /\ Len(SubSeq(kvec_pushed, 1, n)) = IF 1 <= n THEN n - 1 + 1 ELSE 0
        /\ \A i \in 1 .. n - 1 + 1 : SubSeq(kvec_pushed, 1, n)[i] = kvec_pushed[1 + i - 1]
    BY SMTT(30), <1>1, <2>2, SubSeqProperties
  <2>. QED  BY SMTT(30), <1>1, <2>1, <2>3
<1>. HIDE DEF n
<1>8. KvecTypeOK'
  BY SMTT(30), <1>1, <1>6, <1>7 DEF KvecTypeOK
<1>9. KvecKeepsElements'
  BY SMTT(30), <1>1, <1>6, <1>7 DEF KvecKeepsElements
<1>. QED  BY <1>4, <1>8, <1>9 DEF KvecInv, KvecNoPanic

(* Setting an element changes that element. *)
LEMMA KvecSetInv ==
  ASSUME KvecInv, NEW i, kvec_set(i, 0)
  PROVE  KvecInv'
<1>1. i \in 1 .. kvec.i /\ kvec' = [kvec EXCEPT !.container[i] = 0]
      /\ kvec_pushed' = [kvec_pushed EXCEPT ![i] = 0] /\ UNCHANGED kvec_panic
  BY DEF kvec_set
<1>2. kvec' = [size |-> kvec.size, bytes |-> kvec.bytes, i |-> kvec.i,
               container |-> [kvec.container EXCEPT ![i] = 0]]
  BY SMTT(30), <1>1 DEF KvecInv, KvecTypeOK
<1>3. kvec_pushed' \in Seq(Values) /\ Len(kvec_pushed') = Len(kvec_pushed)
      /\ \A j \in 1 .. kvec.i : kvec_pushed'[j] = IF j = i THEN 0 ELSE kvec_pushed[j]
  BY <1>1 DEF KvecInv, KvecTypeOK, KvecKeepsElements, Values
<1>4. \A j \in 1 .. kvec.i : /\ j \in DOMAIN kvec'.container
                             /\ kvec'.container[j] = IF j = i THEN 0 ELSE kvec.container[j]
  BY <1>1, <1>2 DEF KvecInv, KvecKeepsElements
<1>5. KvecTypeOK'
  BY SMTT(30), <1>2, <1>3 DEF KvecInv, KvecTypeOK
<1>6. KvecKeepsElements'
  BY SMTT(30), <1>2, <1>3, <1>4 DEF KvecInv, KvecKeepsElements
<1>. QED  BY <1>1, <1>5, <1>6 DEF KvecInv, KvecNoPanic

(* The elements of a vector are those pushed, through every doubling and   *)
(* halving of the container, and what is left always fits the half that    *)
(* downsize_vec asserts it fits, for all element sizes (kvec.c).           *)
THEOREM KvecCorrect == KvecSpec => [](KvecKeepsElements /\ KvecNoPanic)
<1>1. KvecInv /\ [KvecNext]_kvecVars => KvecInv'
  <2>. SUFFICES ASSUME KvecInv, [KvecNext]_kvecVars PROVE KvecInv'
    OBVIOUS
  <2>1. ASSUME NEW v \in {0, 1}, kvec_push(v) PROVE KvecInv'
    BY <2>1, KvecPushInv DEF Values
  <2>2. CASE kvec_pop
    BY <2>2, KvecPopInv
  <2>3. ASSUME NEW i \in 1 .. KvecMax, kvec_set(i, 0) PROVE KvecInv'
    BY <2>3, KvecSetInv
  <2>4. CASE UNCHANGED kvecVars
    BY SMTT(30), <2>4 DEF kvecVars, KvecInv, KvecTypeOK, KvecKeepsElements, KvecNoPanic
  <2>. QED  BY <2>1, <2>2, <2>3, <2>4 DEF KvecNext
<1>2. KvecInv => KvecKeepsElements /\ KvecNoPanic
  BY DEF KvecInv
<1>. QED  BY <1>1, <1>2, KvecInitInv, PTL DEF KvecSpec
=============================================================================
