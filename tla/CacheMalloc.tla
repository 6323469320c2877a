---------------------------- MODULE CacheMalloc ----------------------------
(***************************************************************************)
(* kmalloc and kfree with the caches of small allocations                  *)
(* (src/src/kernel/mm/malloc/kmalloc, .../cache_malloc).  A cache of a     *)
(* size class is a run of pages with CacheEntries[size] slots, a bit per   *)
(* slot and, in its last word, an id that tells the class.  The caches of  *)
(* a class are a list, and a hint names the slot to hand out next.         *)
(*                                                                         *)
(* Memory is counted in units of the smaller run (four pages); a cache of  *)
(* a large class (1024 and 2048 bytes) takes two units and begins at an    *)
(* even one.  The word that ends a unit is an id, or data of a client,     *)
(* which is taken not to look like an id.  A pointer is [unit, slot], the  *)
(* unit the slot lies in.                                                  *)
(***************************************************************************)
EXTENDS Integers, Sequences, FiniteSetsExt

CONSTANTS
  CacheEntries,    \* slots of a cache, by size class
  CacheLarge,      \* the size classes whose cache takes two units
  CacheUnits,      \* units of memory for caches
  CacheWants,      \* what clients ask of kmalloc, in bytes
  CacheOps         \* bound on the calls

Classes == DOMAIN CacheEntries
UnitsOf(size) == IF size \in CacheLarge THEN 2 ELSE 1
NoHint == [unit |-> CacheUnits, slot |-> 0]

VARIABLES
  cache,           \* per class [list, hint]; a list entry is [unit, used]
  cache_word,      \* the last word of every unit: a class, or 0 for data
  cache_live,      \* allocations [kind, unit, slot, bytes, size] not yet freed
  cache_freeing,   \* caches unlinked but not yet given to raw_kfree
  cache_panic, cache_calls
cacheVars == <<cache, cache_word, cache_live, cache_freeing, cache_panic, cache_calls>>

(* cache_idx_from_size and kmalloc's choice of a class.                    *)
NextPow2(n) == CHOOSE p \in {2^k : k \in 0..n} : p >= n /\ (p = 1 \/ p \div 2 < n)
ClassFor(bytes) == Max({Min(Classes), NextPow2(bytes)})

(* The classes are powers of two from the smallest to the largest, so that *)
(* what is asked for has a class that is large enough; 0 is no class.      *)
ASSUME CacheAssumption ==
  /\ Classes \subseteq Nat \ {0} /\ CacheEntries \in [Classes -> Nat \ {0}]
  /\ CacheLarge \subseteq Classes /\ CacheUnits \in Nat /\ CacheOps \in Nat /\ CacheWants \subseteq Nat
  /\ \A bytes \in CacheWants : bytes <= Max(Classes) => ClassFor(bytes) \in Classes /\ bytes <= ClassFor(bytes)

(* find_empty_slot: the first slot from position p on that is not used.    *)
EmptyFrom(size, c, p) == {s \in p..(CacheEntries[size] - 1) : s \notin c.used}
(* The first cache of the list with an empty slot becomes the hint.        *)
HintFromStart(size, list) ==
  LET J == {j \in DOMAIN list : EmptyFrom(size, list[j], 0) # {}}
  IN IF J = {} THEN NoHint
     ELSE [unit |-> list[Min(J)].unit, slot |-> Min(EmptyFrom(size, list[Min(J)], 0))]

(* A cache of a class that begins at a unit covers the unit w.             *)
Covers(size, unit, w) == unit <= w /\ w < unit + UnitsOf(size)
CacheInUse(w) ==
  \/ \E z \in Classes : \E j \in DOMAIN cache[z].list : Covers(z, cache[z].list[j].unit, w)
  \/ \E f \in cache_freeing : Covers(f.size, f.unit, w)
FreeRuns(size) ==
  {u \in 0..(CacheUnits - UnitsOf(size)) :
     u % UnitsOf(size) = 0 /\ \A w \in 0..(CacheUnits - 1) : Covers(size, u, w) => ~CacheInUse(w)}

(* new_cache: a zeroed run of pages with the id in its last word.          *)
NewCacheWord(size, u) ==
  [w \in DOMAIN cache_word |->
     IF w = u + UnitsOf(size) - 1 THEN size ELSE IF w = u THEN 0 ELSE cache_word[w]]

(* cache_malloc, with the list as it is once there is a cache to take      *)
(* from: the hinted slot is taken, and the hint moves on.                  *)
NextHint(size, list, j, s) ==
  LET rest == EmptyFrom(size, list[j], s)
  IN IF rest # {} THEN [unit |-> list[j].unit, slot |-> Min(rest)]
     ELSE HintFromStart(size, list)
SlotUnit(size, c, s) == c.unit + (IF UnitsOf(size) = 2 /\ s >= CacheEntries[size] \div 2 THEN 1 ELSE 0)
TakeSlot(size, list, unit, p, bytes) ==
  LET j == CHOOSE i \in DOMAIN list : list[i].unit = unit
      E == EmptyFrom(size, list[j], p)
      s == Min(E)
      taken == [list EXCEPT ![j].used = @ \cup {s}]
  IN IF E = {} THEN cache_panic' = "slot_found" /\ UNCHANGED <<cache, cache_live>>
     ELSE /\ cache' = [cache EXCEPT ![size] = [list |-> taken, hint |-> NextHint(size, taken, j, s)]]
          /\ cache_live' = cache_live \cup
               {[kind |-> "cache", unit |-> SlotUnit(size, list[j], s), slot |-> s, bytes |-> bytes, size |-> size]}
          /\ UNCHANGED cache_panic
cache_malloc(size, bytes) ==
  \/ /\ cache[size].hint # NoHint
     /\ TakeSlot(size, cache[size].list, cache[size].hint.unit, cache[size].hint.slot, bytes)
     /\ UNCHANGED cache_word
  \/ /\ cache[size].hint = NoHint
     /\ \E u \in FreeRuns(size) :
          /\ TakeSlot(size, Append(cache[size].list, [unit |-> u, used |-> {}]), u, 0, bytes)
          /\ cache_word' = NewCacheWord(size, u)

kmalloc ==
  /\ cache_panic = "no" /\ cache_calls < CacheOps
  /\ cache_calls' = cache_calls + 1
  /\ \E bytes \in CacheWants :
       \/ /\ bytes > Max(Classes)
          /\ \A a \in cache_live : a.kind # "dynamic"
          /\ cache_live' = cache_live \cup
               {[kind |-> "dynamic", unit |-> CacheUnits, slot |-> 0, bytes |-> bytes, size |-> bytes]}
          /\ UNCHANGED <<cache, cache_word, cache_panic>>
       \/ bytes <= Max(Classes) /\ cache_malloc(ClassFor(bytes), bytes)
  /\ UNCHANGED cache_freeing

(* cache_malloc_size_from_ptr: the id at the end of the pointer's unit, or *)
(* else of the pair of units that holds it.                                *)
SizeFromPtr(u) ==
  IF cache_word[u] # 0 THEN cache_word[u] ELSE cache_word[(u - (u % 2)) + 1]

(* cache_free under its lock.  A cache that is empty now is unlinked, and  *)
(* a hint into it replaced; the pages go back after the lock is released.  *)
HintKeptOnUnlink(size, list, hint, unit, s, empty) ==
  IF ~empty /\ hint = NoHint THEN [unit |-> unit, slot |-> s] ELSE hint
HintAfterFree(size, list, hint, unit, s, empty) ==
  CASE ~empty -> IF hint = NoHint THEN [unit |-> unit, slot |-> s] ELSE hint
    [] empty -> IF hint.unit \in {unit, NoHint.unit} THEN HintFromStart(size, list) ELSE hint
Unlinked(list, j) == SubSeq(list, 1, j - 1) \o SubSeq(list, j + 1, Len(list))
cache_free(a) ==
  LET size == SizeFromPtr(a.unit)
      base == a.unit - (a.unit % UnitsOf(size))
      J == {j \in DOMAIN cache[size].list : cache[size].list[j].unit = base}
      j == Min(J)
      c == cache[size].list[j]
      empty == c.used = {a.slot}
      list == IF empty THEN Unlinked(cache[size].list, j)
              ELSE [cache[size].list EXCEPT ![j].used = @ \ {a.slot}]
  IN IF J = {} \/ a.slot \notin c.used
     THEN cache_panic' = "double_free" /\ UNCHANGED <<cache, cache_live, cache_freeing>>
     ELSE /\ cache' = [cache EXCEPT ![size] =
                         [list |-> list, hint |-> HintAfterFree(size, list, cache[size].hint, base, a.slot, empty)]]
          /\ cache_live' = cache_live \ {a}
          /\ cache_freeing' = IF empty THEN cache_freeing \cup {[size |-> size, unit |-> base]} ELSE cache_freeing
          /\ UNCHANGED cache_panic
kfree ==
  /\ cache_panic = "no" /\ cache_calls < CacheOps
  /\ cache_calls' = cache_calls + 1
  /\ \E a \in cache_live :
       \/ a.kind = "cache" /\ cache_free(a)
       \/ /\ a.kind = "dynamic"
          /\ cache_live' = cache_live \ {a}
          /\ UNCHANGED <<cache, cache_freeing, cache_panic>>
  /\ UNCHANGED cache_word
CacheRawKfree ==
  /\ \E f \in cache_freeing : cache_freeing' = cache_freeing \ {f}
  /\ UNCHANGED <<cache, cache_word, cache_live, cache_panic, cache_calls>>

CacheInit ==
  /\ cache = [z \in Classes |-> [list |-> <<>>, hint |-> NoHint]]
  /\ cache_word = [u \in 0..(CacheUnits - 1) |-> 0]
  /\ cache_live = {} /\ cache_freeing = {} /\ cache_panic = "no" /\ cache_calls = 0
CacheNext == kmalloc \/ kfree \/ CacheRawKfree
CacheSpec == CacheInit /\ [][CacheNext]_cacheVars

---------------------------------------------------------------------------
(* Every allocation that is alive has a slot of its own that is marked     *)
(* used, large enough, in a cache of the list of its class; no other slot  *)
(* is marked and no empty cache stays in a list.                           *)
CacheSlotsMatch ==
  \A z \in Classes : \A j \in DOMAIN cache[z].list :
    LET c == cache[z].list[j]
        mine == {a \in cache_live : a.kind = "cache" /\ a.unit - (a.unit % UnitsOf(z)) = c.unit /\ a.size = z}
    IN /\ c.used = {a.slot : a \in mine} /\ c.used # {}
       /\ Cardinality(mine) = Cardinality(c.used)
       /\ \A a \in mine : a.bytes <= z

(* The hint is the slot handed out next: it is free, and there is no hint  *)
(* only when no cache of the class has a free slot (so that a new cache is *)
(* made only when it is needed), although most frees leave it alone.       *)
CacheHintIsFree ==
  \A z \in Classes :
    LET list == cache[z].list hint == cache[z].hint
    IN IF hint = NoHint THEN \A j \in DOMAIN list : EmptyFrom(z, list[j], 0) = {}
       ELSE \E j \in DOMAIN list : list[j].unit = hint.unit /\ hint.slot \notin list[j].used

(* The caches of cache_malloc.c agree with what was handed out and with    *)
(* their hints, and kfree finds the cache and the slot of every pointer.   *)
CacheConsistent == cache_panic = "no" /\ CacheSlotsMatch /\ CacheHintIsFree
=============================================================================
