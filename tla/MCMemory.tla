----------------------------- MODULE MCMemory ------------------------------
(* The memory components, and the data structures and the lock they are    *)
(* built from, one at a time: part says which one takes steps; the others  *)
(* stay as they are initially.                                             *)
EXTENDS MCKernelMemory, MCUserMemory, MmuTables, CacheMalloc, Rbtree, UserAlloc, Kvec, Pow2Ring, MmuCore, CpuLock

MCMmuTargets == {[pa |-> 4, cfg |-> "rw"], [pa |-> 5, cfg |-> "ro"]}
MCCacheEntries == (2 :> 2) @@ (4 :> 4) @@ (8 :> 2)
MCStlEntries == (4 :> 2) @@ (8 :> 2)

VARIABLE part

Parts == {"mmu", "pages", "kernel", "caches", "user", "tree", "stl", "kvec", "ring", "core", "lock"}

MemoryInit ==
    /\ part \in Parts
    /\ MmuInit /\ PgInit /\ (part # "pages" => pg.n = 1) /\ KmInit /\ CacheInit /\ UmInit /\ RbtInit /\ StlInit
    /\ KvecInit /\ (part # "kvec" => kvec.size = 1)
    /\ CoreInit /\ Init
    /\ RingInit /\ (part # "ring" => ring.size = 1 /\ ~ring.overwrite /\ ring.lang = "C")

MemoryNext ==
    /\ UNCHANGED part
    /\ IF part = "mmu" THEN MmuNext ELSE UNCHANGED mmuVars
    /\ IF part = "pages" THEN PgNext ELSE UNCHANGED pgVars
    /\ IF part = "kernel" THEN KmNext ELSE UNCHANGED kmVars
    /\ IF part = "caches" THEN CacheNext ELSE UNCHANGED cacheVars
    /\ IF part = "user" THEN UmNext ELSE UNCHANGED umVars
    /\ IF part = "tree" THEN RbtNext ELSE UNCHANGED rbt
    /\ IF part = "stl" THEN StlNext ELSE UNCHANGED stlVars
    /\ IF part = "kvec" THEN KvecNext ELSE UNCHANGED kvecVars
    /\ IF part = "ring" THEN RingNext ELSE UNCHANGED ringVars
    /\ IF part = "core" THEN CoreNext ELSE UNCHANGED coreVars
    /\ IF part = "lock" THEN Next ELSE UNCHANGED vars

MemorySpec == MemoryInit /\ [][MemoryNext]_<<part, mmuVars, pgVars, kmVars, cacheVars, umVars, rbt, stlVars,
                                              kvecVars, ringVars, coreVars, vars>>
=============================================================================
