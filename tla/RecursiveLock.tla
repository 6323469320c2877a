--------------------------- MODULE RecursiveLock ---------------------------
(***************************************************************************)
(* What a cpulock_t promises its callers (include/lib/lock.h): at most one *)
(* CPU owns it, the owner may take it again, and it becomes free when the  *)
(* owner has released it as often as it took it.  The scheduler and memory *)
(* modules use locks at this level; CpuLock is shown to implement it.      *)
(***************************************************************************)
EXTENDS Naturals

CONSTANTS CPUS,     \* the CPUs of the system
          NoCpu     \* the owner of a free lock

VARIABLES owner,    \* the CPU that owns the lock, or NoCpu
          depth     \* how many acquisitions the owner has not released yet

rvars == <<owner, depth>>

RInit == owner = NoCpu /\ depth = 0

Lock(c) == /\ owner \in {NoCpu, c}
           /\ owner' = c
           /\ depth' = depth + 1

Unlock(c) == /\ owner = c
             /\ depth > 0
             /\ depth' = depth - 1
             /\ owner' = IF depth = 1 THEN NoCpu ELSE c

RNext == \E c \in CPUS : Lock(c) \/ Unlock(c)

RSpec == RInit /\ [][RNext]_rvars
=============================================================================
