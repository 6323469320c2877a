-------------------------- MODULE CacheMallocProofs --------------------------
(***************************************************************************)
(* Proofs about CacheMalloc, for every set of size classes, number of      *)
(* slots, amount of memory and history of calls: every allocation has a    *)
(* slot of its own in a cache of its class, the hints name free slots, and *)
(* kfree finds the cache and the slot of every pointer from the id words   *)
(* alone.                                                                  *)
(*                                                                         *)
(* The inductive invariant CacheInv says of the lists of caches what       *)
(* CacheConsistent says of the allocations, and what that needs: the       *)
(* caches do not overlap, and the last word of every run of pages is the   *)
(* id of its class.                                                        *)
(***************************************************************************)
EXTENDS CacheMalloc, FiniteSetTheorems, WellFoundedInduction, TLAPS

(* Types, and the slots of a cache. *)
Entries == [unit : Nat, used : SUBSET Nat]
Lists == [Classes -> Seq(Entries)]
Hints == [unit : Nat, slot : Nat]
Slots(z) == 0 .. (CacheEntries[z] - 1)

(* The caches lie in memory, aligned, and no two of them overlap. *)
InPlace(ls) ==
  \A z \in Classes : \A j \in DOMAIN ls[z] :
    /\ ls[z][j].unit + UnitsOf(z) <= CacheUnits /\ ls[z][j].unit % UnitsOf(z) = 0
    /\ ls[z][j].used \subseteq Slots(z)
Apart(ls) ==
  \A z, y \in Classes : \A i \in DOMAIN ls[z], j \in DOMAIN ls[y] : \A w \in Nat :
    Covers(z, ls[z][i].unit, w) /\ Covers(y, ls[y][j].unit, w) => z = y /\ i = j

(* The id words: cache_malloc_size_from_ptr looks at the word that ends    *)
(* the pointer's unit, and takes 0 for the first half of a large cache.    *)
Marked(ls, word) ==
  \A z \in Classes : \A j \in DOMAIN ls[z] :
    /\ word[ls[z][j].unit + UnitsOf(z) - 1] = z
    /\ UnitsOf(z) = 2 => word[ls[z][j].unit] = 0

(* cache_free unlinks the cache whose last slot it freed. *)
NoneEmpty(ls) == \A z \in Classes : \A j \in DOMAIN ls[z] : ls[z][j].used # {}

(* Allocation a is slot s of cache c of class z. *)
Holds(a, z, c, s) == a.kind = "cache" /\ a.size = z /\ a.slot = s /\ a.unit = SlotUnit(z, c, s)

(* Every allocation is a used slot, every used slot is an allocation, and  *)
(* no two allocations are one slot.                                        *)
LiveTypes(live) ==
  \A a \in live : a.kind = "cache" =>
    /\ a.size \in Classes /\ a.unit \in Nat /\ a.slot \in Nat /\ a.bytes \in Nat /\ a.bytes <= a.size
LiveUsed(ls, live) ==
  \A a \in live : a.kind = "cache" =>
    \E j \in DOMAIN ls[a.size] : a.slot \in ls[a.size][j].used /\ Holds(a, a.size, ls[a.size][j], a.slot)
UsedLive(ls, live) ==
  \A z \in Classes : \A j \in DOMAIN ls[z] : \A s \in ls[z][j].used :
    \E a \in live : Holds(a, z, ls[z][j], s)
LiveOnce(live) ==
  \A a, b \in live : a.kind = "cache" /\ b.kind = "cache" /\ a.size = b.size /\ a.slot = b.slot
                     /\ a.unit = b.unit => a = b

(* The hint names a free slot of a cache of the list, or every cache is    *)
(* full.                                                                   *)
Hinted(z, list, hint) ==
  /\ hint \in Hints
  /\ IF hint = NoHint THEN \A j \in DOMAIN list : EmptyFrom(z, list[j], 0) = {}
     ELSE /\ hint.unit < CacheUnits
          /\ \E j \in DOMAIN list : /\ list[j].unit = hint.unit
                                    /\ hint.slot \in Slots(z) /\ hint.slot \notin list[j].used

(* All that concerns the lists, the id words and the allocations. *)
ListsOk(ls, word, live) ==
  /\ ls \in Lists /\ word \in [0 .. (CacheUnits - 1) -> Nat]
  /\ InPlace(ls) /\ Apart(ls) /\ Marked(ls, word)
  /\ LiveTypes(live) /\ LiveUsed(ls, live) /\ UsedLive(ls, live) /\ LiveOnce(live)

(* The lists of all classes, without the hints. *)
AllLists == [z \in Classes |-> cache[z].list]

(* The inductive invariant. *)
CacheInv ==
  /\ cache \in [Classes -> [list : Seq(Entries), hint : Hints]]
  /\ ListsOk(AllLists, cache_word, cache_live)
  /\ NoneEmpty(AllLists)
  /\ \A z \in Classes : Hinted(z, cache[z].list, cache[z].hint)
  /\ cache_panic = "no"

---------------------------------------------------------------------------
(* The order on Nat as a set of pairs. *)
Below == {ss \in Nat \X Nat : ss[1] < ss[2]}

(* A set of natural numbers has a least element, which find_empty_slot and *)
(* the search for the first cache with room rely on.                       *)
LEMMA Least ==
  ASSUME NEW T, T \subseteq Nat, T # {}
  PROVE  Min(T) \in T /\ \A y \in T : Min(T) <= y
<1>1. IsWellFoundedOn(Below, Nat)
  BY NatLessThanWellFounded DEF OpToRel, Below
<1>2. PICK x \in T : \A y \in T : ~ (<<y, x>> \in Below)
  BY Zenon, <1>1, WFMin
<1>3. \A y \in T : y < x => <<y, x>> \in Below
  BY DEF Below
<1>4. \A y \in T : x \in Nat /\ y \in Nat /\ ~(y < x)
  BY Zenon, <1>2, <1>3
<1>5. \A y \in T : x <= y
  BY <1>4
<1>6. \E m \in T : \A y \in T : m <= y
  BY <1>5
<1> QED BY Zenon, <1>6 DEF Min

(* A cache is one unit or two. *)
LEMMA Units == ASSUME NEW z PROVE UnitsOf(z) \in {1, 2}
BY DEF UnitsOf

(* The fields of a cache. *)
LEMMA EntryTypes ==
  ASSUME NEW c \in Entries
  PROVE  c.unit \in Nat /\ c.used \in SUBSET Nat
BY DEF Entries

(* What is in a list. *)
LEMMA ListTypes ==
  ASSUME NEW ls \in Lists, NEW z \in Classes
  PROVE  /\ ls[z] \in Seq(Entries) /\ DOMAIN ls[z] = 1 .. Len(ls[z]) /\ Len(ls[z]) \in Nat
         /\ \A j \in DOMAIN ls[z] : /\ ls[z][j] \in Entries
                                    /\ ls[z][j].unit \in Nat /\ ls[z][j].used \in SUBSET Nat
<1>1. ls[z] \in Seq(Entries)
  BY DEF Lists
<1>2. DOMAIN ls[z] = 1 .. Len(ls[z]) /\ Len(ls[z]) \in Nat /\ \A j \in DOMAIN ls[z] : ls[z][j] \in Entries
  BY <1>1
<1> QED BY <1>1, <1>2, EntryTypes

(* A cache covers the units that it is made of. *)
LEMMA OneUnit ==
  ASSUME NEW z, NEW u \in Nat
  PROVE  /\ Covers(z, u, u)
         /\ UnitsOf(z) = 2 => Covers(z, u, u + 1)
BY Units DEF Covers

(* cache_free looks for the cache by its address: only one has it. *)
LEMMA UnitFindsCache ==
  ASSUME NEW ls \in Lists, Apart(ls), NEW z \in Classes, NEW i \in DOMAIN ls[z], NEW j \in DOMAIN ls[z],
         ls[z][i].unit = ls[z][j].unit
  PROVE  i = j
<1>1. ls[z][i].unit \in Nat
  BY ListTypes
<1>2. Covers(z, ls[z][i].unit, ls[z][i].unit) /\ Covers(z, ls[z][j].unit, ls[z][i].unit)
  BY <1>1, OneUnit
<1> QED BY <1>1, <1>2 DEF Apart

(* Rounding the address of a slot down to the size of a run gives the run. *)
LEMMA SlotBase ==
  ASSUME NEW ls \in Lists, InPlace(ls), NEW z \in Classes, NEW j \in DOMAIN ls[z], NEW s
  PROVE  /\ SlotUnit(z, ls[z][j], s) - (SlotUnit(z, ls[z][j], s) % UnitsOf(z)) = ls[z][j].unit
         /\ SlotUnit(z, ls[z][j], s) \in 0 .. (CacheUnits - 1)
<1> DEFINE c == ls[z][j]
<1>1. c.unit \in Nat /\ c.unit + UnitsOf(z) <= CacheUnits /\ c.unit % UnitsOf(z) = 0 /\ CacheUnits \in Nat
  BY ListTypes, CacheAssumption DEF InPlace
<1>2. \/ SlotUnit(z, c, s) = c.unit
      \/ SlotUnit(z, c, s) = c.unit + 1 /\ UnitsOf(z) = 2
  BY <1>1 DEF SlotUnit
<1> HIDE DEF c
<1> DEFINE q == SlotUnit(z, c, s)
           n == UnitsOf(z)
<1>3. \A m \in Nat : m % 1 = 0 /\ (m % 2 = 0 => (m + 1) % 2 = 1)
  OBVIOUS
<1>4. q = c.unit \/ (q = c.unit + 1 /\ n = 2)
  BY <1>2
<1>5. c.unit + n <= CacheUnits /\ c.unit % n = 0
  BY <1>1
<1>6. n \in {1, 2}
  BY Units
<1> HIDE DEF q, n
<1>7. q - (q % n) = c.unit
  <2>1. CASE n = 1
    BY <1>1, <1>3, <1>4, <2>1
  <2>2. CASE n = 2 /\ q = c.unit
    BY <1>1, <1>5, <2>2
  <2>3. CASE n = 2 /\ q = c.unit + 1
    <3>1. c.unit % 2 = 0
      BY <1>5, <2>3
    <3>2. q % 2 = 1
      BY <1>1, <1>3, <2>3, <3>1
    <3> QED BY <1>1, <2>3, <3>2
  <2> QED BY <1>4, <1>6, <2>1, <2>2, <2>3
<1>8. q \in 0 .. (CacheUnits - 1)
  BY <1>1, <1>4, <1>5, <1>6
<1> QED BY <1>7, <1>8 DEF c, q, n

(* cache_malloc_size_from_ptr finds the class of a pointer that was handed *)
(* out, from the words at the end of its unit, and cache_free its cache    *)
(* and slot.                                                               *)
LEMMA FreedClass ==
  ASSUME NEW ls, NEW word, NEW live, ListsOk(ls, word, live), NEW a \in live, a.kind = "cache"
  PROVE  /\ a.size \in Classes
         /\ (IF word[a.unit] # 0 THEN word[a.unit] ELSE word[(a.unit - (a.unit % 2)) + 1]) = a.size
         /\ \E j \in DOMAIN ls[a.size] :
              /\ ls[a.size][j].unit = a.unit - (a.unit % UnitsOf(a.size))
              /\ a.slot \in ls[a.size][j].used
              /\ Holds(a, a.size, ls[a.size][j], a.slot)
<1> DEFINE z == a.size
<1>1. z \in Classes /\ ls \in Lists /\ InPlace(ls) /\ Marked(ls, word)
  BY DEF ListsOk, LiveTypes
<1>2. PICK j \in DOMAIN ls[z] : a.slot \in ls[z][j].used /\ Holds(a, z, ls[z][j], a.slot)
  BY DEF ListsOk, LiveUsed
<1> DEFINE c == ls[z][j]
<1>3. c.unit \in Nat /\ c.unit % UnitsOf(z) = 0
  BY <1>1, ListTypes DEF InPlace
<1>4. word[c.unit + UnitsOf(z) - 1] = z /\ (UnitsOf(z) = 2 => word[c.unit] = 0)
  BY <1>1 DEF Marked
<1>5. \/ a.unit = c.unit
      \/ a.unit = c.unit + 1 /\ UnitsOf(z) = 2
  <2>1. a.unit = SlotUnit(z, c, a.slot)
    BY <1>2 DEF Holds
  <2> HIDE DEF z, c
  <2> QED BY <1>3, <2>1 DEF SlotUnit
<1>6. z # 0
  BY <1>1, CacheAssumption
<1>7. a.unit - (a.unit % UnitsOf(z)) = c.unit
  <2>1. a.unit = SlotUnit(z, c, a.slot)
    BY <1>2 DEF Holds
  <2> HIDE DEF z
  <2>2. SlotUnit(z, c, a.slot) - (SlotUnit(z, c, a.slot) % UnitsOf(z)) = c.unit
    BY Zenon, <1>1, SlotBase
  <2> QED BY Zenon, <2>1, <2>2
<1> HIDE DEF c, z
<1>8. (IF word[a.unit] # 0 THEN word[a.unit] ELSE word[(a.unit - (a.unit % 2)) + 1]) = z
  <2>1. CASE UnitsOf(z) = 1
    <3>1. c.unit + UnitsOf(z) - 1 = c.unit /\ a.unit = c.unit
      BY <1>3, <1>5, <2>1
    <3> QED BY <1>4, <1>6, <3>1
  <2>2. CASE UnitsOf(z) = 2 /\ a.unit = c.unit
    <3>1. c.unit + UnitsOf(z) - 1 = (a.unit - (a.unit % 2)) + 1
      BY <1>3, <2>2
    <3> QED BY <1>4, <2>2, <3>1
  <2>3. CASE UnitsOf(z) = 2 /\ a.unit = c.unit + 1
    <3>1. c.unit + UnitsOf(z) - 1 = a.unit
      BY <1>3, <2>3
    <3> QED BY <1>4, <1>6, <3>1
  <2> QED BY <1>5, <2>1, <2>2, <2>3, Units
<1> QED BY <1>1, <1>2, <1>7, <1>8 DEF c, z

---------------------------------------------------------------------------
(* The used slots of cache j of class z become U. *)
Uses(ls, ls2, z, j, U) ==
  /\ ls2 \in Lists
  /\ \A y \in Classes : DOMAIN ls2[y] = DOMAIN ls[y]
  /\ \A y \in Classes : \A i \in DOMAIN ls[y] :
       /\ ls2[y][i].unit = ls[y][i].unit
       /\ y # z \/ i # j => ls2[y][i].used = ls[y][i].used
  /\ ls2[z][j].used = U

(* What setting a bit in the bitmap of a cache changes in the lists. *)
LEMMA SetUsed ==
  ASSUME NEW ls \in Lists, NEW z \in Classes, NEW j \in DOMAIN ls[z], NEW U \in SUBSET Nat
  PROVE  Uses(ls, [ls EXCEPT ![z] = [ls[z] EXCEPT ![j].used = U]], z, j, U)
<1> DEFINE l == ls[z]
           r == [l EXCEPT ![j].used = U]
           ls2 == [ls EXCEPT ![z] = r]
<1>1. /\ l \in Seq(Entries) /\ DOMAIN l = 1 .. Len(l) /\ Len(l) \in Nat
      /\ \A i \in DOMAIN l : l[i] \in Entries /\ l[i].unit \in Nat /\ l[i].used \in SUBSET Nat
  BY ListTypes
<1>2. [l[j] EXCEPT !.used = U] = [unit |-> l[j].unit, used |-> U]
  BY <1>1 DEF Entries
<1>3. [unit |-> l[j].unit, used |-> U] \in Entries
  BY <1>1 DEF Entries
<1>4. \A i \in DOMAIN l : r[i] = IF i = j THEN [unit |-> l[j].unit, used |-> U] ELSE l[i]
  BY Zenon, <1>2
<1>5. r \in [1 .. Len(l) -> Entries] /\ DOMAIN r = DOMAIN l
  BY Zenon, <1>1, <1>3, <1>4
<1>6. r \in Seq(Entries)
  BY <1>1, <1>5
<1>7. ls2 \in Lists /\ ls2[z] = r /\ \A y \in Classes \ {z} : ls2[y] = ls[y]
  BY Zenon, <1>6 DEF Lists
<1> HIDE DEF ls2, r
<1>8. \A y \in Classes : DOMAIN ls2[y] = DOMAIN ls[y]
  BY Zenon, <1>5, <1>7
<1>9. \A i \in DOMAIN l : r[i].unit = l[i].unit /\ (i # j => r[i].used = l[i].used)
  BY <1>4
<1>10. r[j].used = U
  BY <1>4
<1>11. \A y \in Classes : \A i \in DOMAIN ls[y] :
       /\ ls2[y][i].unit = ls[y][i].unit
       /\ y # z \/ i # j => ls2[y][i].used = ls[y][i].used
  BY Zenon, <1>7, <1>9
<1> QED BY Zenon, <1>7, <1>8, <1>10, <1>11 DEF Uses, ls2, r, l

(* The bitmaps change neither where the caches are nor their ids. *)
LEMMA UsesKeeps ==
  ASSUME NEW ls, NEW word, NEW live, ListsOk(ls, word, live), NEW ls2, NEW z \in Classes, NEW j \in DOMAIN ls[z],
         NEW U \in SUBSET Slots(z), Uses(ls, ls2, z, j, U)
  PROVE  /\ ls2 \in Lists /\ InPlace(ls2) /\ Apart(ls2) /\ Marked(ls2, word)
         /\ \A y \in Classes : \A i \in DOMAIN ls[y] : \A a, s :
              Holds(a, y, ls2[y][i], s) <=> Holds(a, y, ls[y][i], s)
<1> USE DEF ListsOk
<1>1. ls2 \in Lists
  BY DEF Uses
<1>2. InPlace(ls2)
  BY DEF Uses, InPlace
<1>3. Apart(ls2)
  <2>1. ASSUME NEW x \in Classes, NEW y \in Classes, NEW i \in DOMAIN ls2[x], NEW k \in DOMAIN ls2[y], NEW w \in Nat,
               Covers(x, ls2[x][i].unit, w), Covers(y, ls2[y][k].unit, w)
        PROVE  x = y /\ i = k
    <3>1. /\ i \in DOMAIN ls[x] /\ k \in DOMAIN ls[y]
          /\ ls2[x][i].unit = ls[x][i].unit /\ ls2[y][k].unit = ls[y][k].unit
      BY Zenon DEF Uses
    <3>2. Covers(x, ls[x][i].unit, w) /\ Covers(y, ls[y][k].unit, w)
      BY <2>1, <3>1
    <3> QED BY <3>1, <3>2 DEF Apart
  <2> QED BY <2>1 DEF Apart
<1>4. Marked(ls2, word)
  <2>1. ASSUME NEW y \in Classes, NEW i \in DOMAIN ls2[y]
        PROVE  word[ls2[y][i].unit + UnitsOf(y) - 1] = y /\ (UnitsOf(y) = 2 => word[ls2[y][i].unit] = 0)
    <3>1. i \in DOMAIN ls[y] /\ ls2[y][i].unit = ls[y][i].unit
      BY Zenon DEF Uses
    <3> QED BY <3>1 DEF Marked
  <2> QED BY Zenon, <2>1 DEF Marked
<1>5. \A y \in Classes : \A i \in DOMAIN ls[y] : \A a, s :
        Holds(a, y, ls2[y][i], s) <=> Holds(a, y, ls[y][i], s)
  BY Zenon DEF Uses, Holds, SlotUnit
<1> QED BY <1>1, <1>2, <1>3, <1>4, <1>5

(* No slot of two caches is at one address. *)
LEMMA SameSlot ==
  ASSUME NEW ls, NEW word, NEW live, ListsOk(ls, word, live), NEW z \in Classes,
         NEW i \in DOMAIN ls[z], NEW j \in DOMAIN ls[z], NEW s,
         SlotUnit(z, ls[z][i], s) = SlotUnit(z, ls[z][j], s)
  PROVE  i = j
<1> DEFINE p == SlotUnit(z, ls[z][i], s)
           q == SlotUnit(z, ls[z][j], s)
<1>1. p - (p % UnitsOf(z)) = ls[z][i].unit
  BY Zenon, SlotBase DEF ListsOk
<1>2. q - (q % UnitsOf(z)) = ls[z][j].unit
  BY SMTT(30), SlotBase DEF ListsOk
<1> HIDE DEF p, q
<1>3. p = q
  BY DEF p, q
<1>4. ls[z][i].unit = ls[z][j].unit
  BY Zenon, <1>1, <1>2, <1>3
<1> QED BY <1>4, UnitFindsCache DEF ListsOk

(* Slot s of cache j of class z is free, and becomes allocation a. *)
Takes(ls, word, live, z, j, s, ls2, a) ==
  /\ ListsOk(ls, word, live) /\ z \in Classes /\ j \in DOMAIN ls[z]
  /\ s \in Slots(z) /\ s \notin ls[z][j].used /\ Uses(ls, ls2, z, j, ls[z][j].used \cup {s})
  /\ Holds(a, z, ls[z][j], s) /\ a.bytes \in Nat /\ a.bytes <= z
  /\ \A y \in Classes : \A i \in DOMAIN ls[y] : y # z \/ i # j => ls[y][i].used # {}

(* cache_malloc takes a slot nobody has. *)
LEMMA TakeOk ==
  ASSUME NEW ls, NEW word, NEW live, NEW z, NEW j, NEW s, NEW ls2, NEW a, Takes(ls, word, live, z, j, s, ls2, a)
  PROVE  ListsOk(ls2, word, live \cup {a}) /\ NoneEmpty(ls2)
<1> SUFFICES ASSUME ListsOk(ls, word, live), z \in Classes, j \in DOMAIN ls[z],
                    s \in Slots(z), s \notin ls[z][j].used, Uses(ls, ls2, z, j, ls[z][j].used \cup {s}),
                    Holds(a, z, ls[z][j], s), a.bytes \in Nat, a.bytes <= z,
                    \A y \in Classes : \A i \in DOMAIN ls[y] : y # z \/ i # j => ls[y][i].used # {}
             PROVE  ListsOk(ls2, word, live \cup {a}) /\ NoneEmpty(ls2)
  BY Zenon DEF Takes
<1> DEFINE U == ls[z][j].used \cup {s}
<1>1. U \in SUBSET Slots(z) /\ Uses(ls, ls2, z, j, U) /\ \A t : t \in U <=> t \in ls[z][j].used \/ t = s
  BY SMTT(30) DEF ListsOk, InPlace
<1> HIDE DEF U
<1>2. /\ ls2 \in Lists /\ InPlace(ls2) /\ Apart(ls2) /\ Marked(ls2, word)
      /\ \A y \in Classes : \A i \in DOMAIN ls[y] : \A b, t :
              Holds(b, y, ls2[y][i], t) <=> Holds(b, y, ls[y][i], t)
  BY Zenon, <1>1, UsesKeeps
<1>3. a.kind = "cache" /\ a.size = z /\ a.slot = s /\ a.unit = SlotUnit(z, ls[z][j], s)
  BY DEF Holds
<1>0. /\ \A y \in Classes : DOMAIN ls2[y] = DOMAIN ls[y]
      /\ \A y \in Classes : \A i \in DOMAIN ls[y] : y # z \/ i # j => ls2[y][i].used = ls[y][i].used
      /\ ls2[z][j].used = U
  BY SMTT(30), <1>1 DEF Uses
<1>4. /\ \A y \in Classes : DOMAIN ls2[y] = DOMAIN ls[y]
      /\ \A y \in Classes : \A i \in DOMAIN ls[y] : ls[y][i].used \subseteq ls2[y][i].used
      /\ \A y \in Classes : \A i \in DOMAIN ls[y] : \A t \in ls2[y][i].used :
            t \in ls[y][i].used \/ (y = z /\ i = j /\ t = s)
      /\ s \in ls2[z][j].used
  BY ZenonT(30), <1>0, <1>1
<1>5. LiveTypes(live \cup {a})
  <2>1. a.unit \in Nat
    <3>1. ls[z][j].unit \in Nat
      BY ListTypes DEF ListsOk
    <3>2. a.unit = ls[z][j].unit \/ a.unit = ls[z][j].unit + 1
      BY <1>3, <3>1 DEF SlotUnit
    <3> QED BY <3>1, <3>2
  <2>2. a.slot \in Nat
    BY <1>3 DEF Slots
  <2> QED BY SMTT(30), <1>3, <2>1, <2>2 DEF ListsOk, LiveTypes
<1>6. LiveUsed(ls2, live \cup {a})
  <2>1. ASSUME NEW b \in live, b.kind = "cache"
        PROVE  \E i \in DOMAIN ls2[b.size] : b.slot \in ls2[b.size][i].used /\ Holds(b, b.size, ls2[b.size][i], b.slot)
    <3>1. b.size \in Classes
      BY <2>1 DEF ListsOk, LiveTypes
    <3>2. PICK i \in DOMAIN ls[b.size] : b.slot \in ls[b.size][i].used /\ Holds(b, b.size, ls[b.size][i], b.slot)
      BY <2>1 DEF ListsOk, LiveUsed
    <3> QED BY Zenon, <1>2, <1>4, <3>1, <3>2
  <2>2. \E i \in DOMAIN ls2[z] : s \in ls2[z][i].used /\ Holds(a, z, ls2[z][i], s)
    BY Zenon, <1>2, <1>3, <1>4
  <2> QED BY Zenon, <1>3, <2>1, <2>2 DEF LiveUsed
<1>7. UsedLive(ls2, live \cup {a})
  <2>1. ASSUME NEW y \in Classes, NEW i \in DOMAIN ls2[y], NEW t \in ls2[y][i].used
        PROVE  \E b \in live \cup {a} : Holds(b, y, ls2[y][i], t)
    <3>1. i \in DOMAIN ls[y]
      BY <1>4
    <3>2. CASE t \in ls[y][i].used
      BY Zenon, <1>2, <3>1, <3>2 DEF ListsOk, UsedLive
    <3>3. CASE y = z /\ i = j /\ t = s
      BY Zenon, <1>2, <1>3, <3>3
    <3> QED BY <1>4, <3>1, <3>2, <3>3
  <2> QED BY Zenon, <2>1 DEF UsedLive
<1>8. LiveOnce(live \cup {a})
  <2>1. ASSUME NEW b \in live, b.kind = "cache", b.size = z, b.slot = s, b.unit = a.unit
        PROVE  FALSE
    <3>1. PICK i \in DOMAIN ls[z] : s \in ls[z][i].used /\ Holds(b, z, ls[z][i], s)
      BY <2>1 DEF ListsOk, LiveUsed
    <3>2. SlotUnit(z, ls[z][i], s) = SlotUnit(z, ls[z][j], s)
      BY <1>3, <2>1, <3>1 DEF Holds
    <3>3. i = j
      BY SMTT(30), <3>2, SameSlot
    <3> QED BY <3>1, <3>3
  <2>2. LiveOnce(live)
    BY DEF ListsOk
  <2> QED BY Zenon, <1>3, <2>1, <2>2 DEF LiveOnce
<1>9. NoneEmpty(ls2)
  BY ZenonT(30), <1>4 DEF NoneEmpty
<1> QED BY SMTT(30), <1>2, <1>5, <1>6, <1>7, <1>8, <1>9 DEF ListsOk

(* cache_free of a slot that is not the last of its cache. *)
LEMMA PutOk ==
  ASSUME NEW ls, NEW word, NEW live, ListsOk(ls, word, live), NoneEmpty(ls), NEW z \in Classes,
         NEW j \in DOMAIN ls[z], NEW s \in ls[z][j].used, ls[z][j].used # {s},
         NEW ls2, Uses(ls, ls2, z, j, ls[z][j].used \ {s}),
         NEW a \in live, Holds(a, z, ls[z][j], s)
  PROVE  ListsOk(ls2, word, live \ {a}) /\ NoneEmpty(ls2)
<1> DEFINE U == ls[z][j].used \ {s}
<1>1. U \in SUBSET Slots(z)
  BY DEF ListsOk, InPlace
<1>2. /\ ls2 \in Lists /\ InPlace(ls2) /\ Apart(ls2) /\ Marked(ls2, word)
      /\ \A y \in Classes : \A i \in DOMAIN ls[y] : \A b, t :
              Holds(b, y, ls2[y][i], t) <=> Holds(b, y, ls[y][i], t)
  BY SMTT(30), <1>1, UsesKeeps
<1>4. /\ \A y \in Classes : DOMAIN ls2[y] = DOMAIN ls[y]
      /\ \A y \in Classes : \A i \in DOMAIN ls[y] : \A t :
            t \in ls2[y][i].used <=> t \in ls[y][i].used /\ ~(y = z /\ i = j /\ t = s)
  BY ZenonT(30) DEF Uses
<1>5. LiveTypes(live \ {a}) /\ LiveOnce(live \ {a})
  BY Zenon DEF ListsOk, LiveTypes, LiveOnce
<1>6. LiveUsed(ls2, live \ {a})
  <2>1. ASSUME NEW b \in live \ {a}, b.kind = "cache"
        PROVE  \E i \in DOMAIN ls2[b.size] : b.slot \in ls2[b.size][i].used /\ Holds(b, b.size, ls2[b.size][i], b.slot)
    <3>1. b.size \in Classes
      BY <2>1 DEF ListsOk, LiveTypes
    <3>2. PICK i \in DOMAIN ls[b.size] : b.slot \in ls[b.size][i].used /\ Holds(b, b.size, ls[b.size][i], b.slot)
      BY <2>1 DEF ListsOk, LiveUsed
    <3>3. ~(b.size = z /\ i = j /\ b.slot = s)
      BY Zenon, <2>1, <3>2 DEF ListsOk, LiveOnce, Holds
    <3> QED BY Zenon, <1>2, <1>4, <3>1, <3>2, <3>3
  <2> QED BY Zenon, <2>1 DEF LiveUsed
<1>7. UsedLive(ls2, live \ {a})
  <2>1. ASSUME NEW y \in Classes, NEW i \in DOMAIN ls2[y], NEW t \in ls2[y][i].used
        PROVE  \E b \in live \ {a} : Holds(b, y, ls2[y][i], t)
    <3>1. i \in DOMAIN ls[y] /\ t \in ls[y][i].used /\ ~(y = z /\ i = j /\ t = s)
      BY Zenon, <1>4
    <3>2. PICK b \in live : Holds(b, y, ls[y][i], t)
      BY <3>1 DEF ListsOk, UsedLive
    <3>3. b # a
      <4>1. SUFFICES ASSUME b = a PROVE FALSE
        OBVIOUS
      <4>2. y = z /\ t = s /\ SlotUnit(z, ls[z][i], s) = SlotUnit(z, ls[z][j], s)
        BY Zenon, <3>2, <4>1 DEF Holds
      <4>3. i = j
        BY SMTT(30), <3>1, <4>2, SameSlot
      <4> QED BY <3>1, <4>2, <4>3
    <3> QED BY Zenon, <1>2, <3>1, <3>2, <3>3
  <2> QED BY Zenon, <2>1 DEF UsedLive
<1>8. NoneEmpty(ls2)
  <2>1. \E t \in ls[z][j].used : t # s
    BY Zenon
  <2>2. \A y \in Classes : \A i \in DOMAIN ls[y] : \E t \in ls2[y][i].used : TRUE
    BY Zenon, <1>4, <2>1 DEF NoneEmpty
  <2> QED BY Zenon, <1>4, <2>2 DEF NoneEmpty
<1> QED BY <1>2, <1>5, <1>6, <1>7, <1>8 DEF ListsOk

---------------------------------------------------------------------------
(* Cache j of class z leaves its list; Back is where a cache was before. *)
Back(z, j, y, i) == IF y = z /\ i >= j THEN i + 1 ELSE i
Unlinks(ls, ls2, z, j) ==
  /\ ls2 \in Lists
  /\ \A y \in Classes : \A i \in DOMAIN ls2[y] :
       /\ Back(z, j, y, i) \in DOMAIN ls[y] /\ ls2[y][i] = ls[y][Back(z, j, y, i)]
       /\ ~(y = z /\ Back(z, j, y, i) = j)
  /\ \A y \in Classes : \A i, k \in DOMAIN ls2[y] : Back(z, j, y, i) = Back(z, j, y, k) => i = k
  /\ \A y \in Classes : \A i \in DOMAIN ls[y] :
       ~(y = z /\ i = j) => \E k \in DOMAIN ls2[y] : ls2[y][k] = ls[y][i]

(* What unlinking a cache does to the lists. *)
LEMMA RemoveUnlinks ==
  ASSUME NEW ls \in Lists, NEW z \in Classes, NEW j \in DOMAIN ls[z]
  PROVE  Unlinks(ls, [ls EXCEPT ![z] = Unlinked(ls[z], j)], z, j)
<1> DEFINE l == ls[z]
           a == SubSeq(l, 1, j - 1)
           b == SubSeq(l, j + 1, Len(l))
           r == a \o b
           ls2 == [ls EXCEPT ![z] = r]
<1>1. l \in Seq(Entries) /\ Len(l) \in Nat /\ j \in 1 .. Len(l) /\ DOMAIN l = 1 .. Len(l)
  BY ListTypes
<1> HIDE DEF l
<1>2. /\ a \in Seq(Entries) /\ Len(a) = j - 1
      /\ \A i \in 1 .. (j - 1) : a[i] = l[i]
  BY <1>1
<1>3. /\ b \in Seq(Entries) /\ Len(b) = Len(l) - j
      /\ \A i \in 1 .. (Len(l) - j) : b[i] = l[i + j]
  BY SMTT(30), <1>1
<1> HIDE DEF a, b
<1>4. r \in Seq(Entries) /\ Len(r) = Len(a) + Len(b)
  BY <1>2, <1>3
<1>5. \A i \in 1 .. (Len(a) + Len(b)) : r[i] = IF i <= Len(a) THEN a[i] ELSE b[i - Len(a)]
  <2>1. a \in Seq(Entries) /\ b \in Seq(Entries)
    BY <1>2, <1>3
  <2> QED BY ONLY <2>1
<1> HIDE DEF r
<1>6. DOMAIN r = 1 .. (Len(l) - 1)
  BY <1>1, <1>2, <1>3, <1>4
<1>7. \A i \in 1 .. (Len(l) - 1) : r[i] = IF i < j THEN l[i] ELSE l[i + 1]
  <2>1. ASSUME NEW i \in 1 .. (Len(l) - 1), i < j PROVE r[i] = l[i]
    <3>1. i \in 1 .. (Len(a) + Len(b)) /\ i <= Len(a) /\ i \in 1 .. (j - 1)
      BY <1>1, <1>2, <1>3, <2>1
    <3>2. r[i] = a[i]
      BY <1>5, <3>1
    <3> QED BY <1>2, <3>1, <3>2
  <2>2. ASSUME NEW i \in 1 .. (Len(l) - 1), ~(i < j) PROVE r[i] = l[i + 1]
    <3>1. i - Len(a) \in 1 .. (Len(l) - j) /\ i - Len(a) + j = i + 1 /\ ~(i <= Len(a))
      BY <1>1, <1>2, <2>2
    <3>2. i \in 1 .. (Len(a) + Len(b))
      BY SMTT(30), <1>1, <1>2, <1>3, <2>2
    <3>3. r[i] = b[i - Len(a)]
      BY <1>5, <3>1, <3>2
    <3> QED BY <1>3, <3>1, <3>3
  <2> QED BY <2>1, <2>2
<1>8. ls2 \in Lists /\ ls2[z] = r /\ \A y \in Classes \ {z} : ls2[y] = ls[y]
  BY Zenon, <1>4 DEF Lists
<1> HIDE DEF ls2
<1>9. \A y \in Classes : DOMAIN ls[y] \subseteq Nat
  BY ListTypes
<1>10. ASSUME NEW y \in Classes, NEW i \in DOMAIN ls2[y]
       PROVE  /\ Back(z, j, y, i) \in DOMAIN ls[y] /\ ls2[y][i] = ls[y][Back(z, j, y, i)]
              /\ ~(y = z /\ Back(z, j, y, i) = j)
  <2>1. CASE y # z
    BY <1>8, <2>1 DEF Back
  <2>2. CASE y = z
    <3>1. i \in 1 .. (Len(l) - 1)
      BY <1>6, <1>8, <2>2
    <3>2. Back(z, j, y, i) = IF i < j THEN i ELSE i + 1
      BY <1>1, <2>2, <3>1 DEF Back
    <3>3. ls2[y][i] = l[Back(z, j, y, i)]
      BY <1>7, <1>8, <2>2, <3>1, <3>2
    <3>4. Back(z, j, y, i) \in 1 .. Len(l) /\ Back(z, j, y, i) # j
      BY <1>1, <3>1, <3>2
    <3> QED BY <1>1, <2>2, <3>3, <3>4 DEF l
  <2> QED BY <2>1, <2>2
<1>11. ASSUME NEW y \in Classes, NEW i \in DOMAIN ls2[y], NEW k \in DOMAIN ls2[y],
              Back(z, j, y, i) = Back(z, j, y, k)
       PROVE  i = k
  <2>1. i \in Nat /\ k \in Nat /\ j \in Nat
    BY <1>1, <1>6, <1>8, <1>9
  <2> QED BY <1>11, <2>1 DEF Back
<1>12. ASSUME NEW y \in Classes, NEW i \in DOMAIN ls[y], ~(y = z /\ i = j)
       PROVE  \E k \in DOMAIN ls2[y] : ls2[y][k] = ls[y][i]
  <2>1. CASE y # z
    BY <1>8, <2>1
  <2>2. CASE y = z
    <3>1. i \in 1 .. Len(l) /\ i # j
      BY <1>1, <1>12, <2>2 DEF l
    <3>2. CASE i < j
      <4>1. i \in 1 .. (Len(l) - 1)
        BY <1>1, <3>1, <3>2
      <4> QED BY SMTT(30), <1>6, <1>7, <1>8, <2>2, <3>2, <4>1 DEF l
    <3>3. CASE i > j
      <4>1. i - 1 \in 1 .. (Len(l) - 1) /\ ~(i - 1 < j) /\ (i - 1) + 1 = i
        BY <1>1, <3>1, <3>3
      <4>2. r[i - 1] = l[i]
        BY <1>7, <4>1
      <4>3. i - 1 \in DOMAIN ls2[y] /\ ls2[y][i - 1] = ls[y][i]
        BY <1>6, <1>8, <2>2, <4>1, <4>2 DEF l
      <4> QED BY <4>3
    <3> QED BY <1>1, <3>1, <3>2, <3>3
  <2> QED BY <2>1, <2>2
<1>13. Unlinks(ls, ls2, z, j)
  BY <1>8, <1>10, <1>11, <1>12 DEF Unlinks
<1> QED BY <1>13 DEF ls2, r, a, b, l, Unlinked

(* cache_free of the last slot of a cache unlinks the cache, and with it   *)
(* no allocation of another one.                                           *)
LEMMA UnlinkOk ==
  ASSUME NEW ls, NEW word, NEW live, ListsOk(ls, word, live), NoneEmpty(ls), NEW z \in Classes,
         NEW j \in DOMAIN ls[z], NEW s, ls[z][j].used = {s},
         NEW ls2, Unlinks(ls, ls2, z, j),
         NEW a \in live, Holds(a, z, ls[z][j], s)
  PROVE  ListsOk(ls2, word, live \ {a}) /\ NoneEmpty(ls2)
<1> DEFINE F(y, i) == Back(z, j, y, i)
<1>1. /\ ls2 \in Lists
      /\ \A y \in Classes : \A i \in DOMAIN ls2[y] :
           F(y, i) \in DOMAIN ls[y] /\ ls2[y][i] = ls[y][F(y, i)] /\ ~(y = z /\ F(y, i) = j)
      /\ \A y \in Classes : \A i, k \in DOMAIN ls2[y] : F(y, i) = F(y, k) => i = k
      /\ \A y \in Classes : \A i \in DOMAIN ls[y] :
           ~(y = z /\ i = j) => \E k \in DOMAIN ls2[y] : ls2[y][k] = ls[y][i]
  BY SMTT(30) DEF Unlinks
<1> HIDE DEF F
<1>2. InPlace(ls2)
  BY SMTT(30), <1>1 DEF ListsOk, InPlace
<1>3. Apart(ls2)
  <2>1. ASSUME NEW x \in Classes, NEW y \in Classes, NEW i \in DOMAIN ls2[x], NEW k \in DOMAIN ls2[y], NEW w \in Nat,
               Covers(x, ls2[x][i].unit, w), Covers(y, ls2[y][k].unit, w)
        PROVE  x = y /\ i = k
    <3>1. x = y /\ F(x, i) = F(y, k)
      BY SMTT(30), <1>1, <2>1 DEF ListsOk, Apart
    <3> QED BY <1>1, <3>1
  <2> QED BY <2>1 DEF Apart
<1>4. Marked(ls2, word)
  BY SMTT(30), <1>1 DEF ListsOk, Marked
<1>5. LiveTypes(live \ {a}) /\ LiveOnce(live \ {a})
  BY Zenon DEF ListsOk, LiveTypes, LiveOnce
<1>6. LiveUsed(ls2, live \ {a})
  <2>1. ASSUME NEW b \in live \ {a}, b.kind = "cache"
        PROVE  \E i \in DOMAIN ls2[b.size] : b.slot \in ls2[b.size][i].used /\ Holds(b, b.size, ls2[b.size][i], b.slot)
    <3>1. b.size \in Classes
      BY <2>1 DEF ListsOk, LiveTypes
    <3>2. PICK i \in DOMAIN ls[b.size] : b.slot \in ls[b.size][i].used /\ Holds(b, b.size, ls[b.size][i], b.slot)
      BY SMTT(30), <2>1 DEF ListsOk, LiveUsed
    <3>3. ~(b.size = z /\ i = j)
      BY Zenon, <2>1, <3>2 DEF ListsOk, LiveOnce, Holds
    <3>4. PICK k \in DOMAIN ls2[b.size] : ls2[b.size][k] = ls[b.size][i]
      BY SMTT(30), <1>1, <3>1, <3>2, <3>3
    <3> QED BY Zenon, <3>2, <3>4
  <2> QED BY Zenon, <2>1 DEF LiveUsed
<1>7. UsedLive(ls2, live \ {a})
  <2>1. ASSUME NEW y \in Classes, NEW i \in DOMAIN ls2[y], NEW t \in ls2[y][i].used
        PROVE  \E b \in live \ {a} : Holds(b, y, ls2[y][i], t)
    <3> DEFINE k == F(y, i)
    <3>1. k \in DOMAIN ls[y] /\ ls2[y][i] = ls[y][k] /\ ~(y = z /\ k = j)
      BY <1>1
    <3> HIDE DEF k
    <3>2. PICK b \in live : Holds(b, y, ls[y][k], t)
      BY SMTT(30), <3>1 DEF ListsOk, UsedLive
    <3>3. b # a
      <4>1. SUFFICES ASSUME b = a PROVE FALSE
        OBVIOUS
      <4>2. y = z /\ t = s /\ SlotUnit(z, ls[z][k], s) = SlotUnit(z, ls[z][j], s)
        BY Zenon, <3>2, <4>1 DEF Holds
      <4>3. k = j
        BY SMTT(30), <3>1, <4>2, SameSlot
      <4> QED BY <3>1, <4>2, <4>3
    <3> QED BY Zenon, <3>1, <3>2, <3>3
  <2> QED BY Zenon, <2>1 DEF UsedLive
<1>8. NoneEmpty(ls2)
  BY SMTT(30), <1>1 DEF NoneEmpty
<1>9. word \in [0 .. (CacheUnits - 1) -> Nat]
  BY SMTT(30) DEF ListsOk
<1> QED BY SMTT(30), <1>1, <1>2, <1>3, <1>4, <1>5, <1>6, <1>7, <1>8, <1>9 DEF ListsOk

---------------------------------------------------------------------------
(* A new cache at the end of the list of class z. *)
Adds(ls, ls2, z, e) ==
  /\ ls2 \in Lists
  /\ \A y \in Classes : \A i \in DOMAIN ls[y] : i \in DOMAIN ls2[y] /\ ls2[y][i] = ls[y][i]
  /\ Len(ls[z]) + 1 \in DOMAIN ls2[z] /\ ls2[z][Len(ls[z]) + 1] = e
  /\ \A y \in Classes : \A i \in DOMAIN ls2[y] : i \in DOMAIN ls[y] \/ (y = z /\ i = Len(ls[z]) + 1)

(* What linking a cache does to the lists. *)
LEMMA AppendAdds ==
  ASSUME NEW ls \in Lists, NEW z \in Classes, NEW e \in Entries
  PROVE  Adds(ls, [ls EXCEPT ![z] = Append(ls[z], e)], z, e)
<1> DEFINE l == ls[z]
           r == Append(l, e)
           ls2 == [ls EXCEPT ![z] = r]
<1>1. l \in Seq(Entries) /\ Len(l) \in Nat /\ DOMAIN l = 1 .. Len(l)
  BY ListTypes
<1> HIDE DEF l
<1>2. r \in Seq(Entries) /\ DOMAIN r = 1 .. (Len(l) + 1) /\ r[Len(l) + 1] = e
  BY <1>1
<1>3. \A i \in 1 .. Len(l) : r[i] = l[i]
  BY <1>1
<1> HIDE DEF r
<1>4. ls2 \in Lists /\ ls2[z] = r /\ \A y \in Classes \ {z} : ls2[y] = ls[y]
  BY Zenon, <1>2 DEF Lists
<1> HIDE DEF ls2
<1>5. \A i \in 1 .. (Len(l) + 1) : i \in 1 .. Len(l) \/ i = Len(l) + 1
  BY <1>1
<1>6. Len(l) + 1 \in 1 .. (Len(l) + 1) /\ \A i \in 1 .. Len(l) : i \in 1 .. (Len(l) + 1)
  BY <1>1
<1>7. ASSUME NEW y \in Classes, NEW i \in DOMAIN ls[y]
      PROVE  i \in DOMAIN ls2[y] /\ ls2[y][i] = ls[y][i]
  <2>1. CASE y # z
    BY Zenon, <1>4, <2>1
  <2>2. CASE y = z
    <3>1. i \in 1 .. Len(l)
      BY <1>1, <2>2 DEF l
    <3> QED BY Zenon, <1>2, <1>3, <1>4, <1>6, <2>2, <3>1 DEF l
  <2> QED BY <2>1, <2>2
<1>8. ASSUME NEW y \in Classes, NEW i \in DOMAIN ls2[y]
      PROVE  i \in DOMAIN ls[y] \/ (y = z /\ i = Len(l) + 1)
  <2>1. CASE y # z
    BY Zenon, <1>4, <2>1
  <2>2. CASE y = z
    BY Zenon, <1>1, <1>2, <1>4, <1>5, <2>2 DEF l
  <2> QED BY <2>1, <2>2
<1>9. Adds(ls, ls2, z, e)
  BY Zenon, <1>2, <1>4, <1>6, <1>7, <1>8 DEF Adds, l
<1> QED BY <1>9 DEF ls2, r, l

(* A run of units that no cache covers. *)
FreeRun(ls, z, u) ==
  /\ u \in Nat /\ u + UnitsOf(z) <= CacheUnits /\ u % UnitsOf(z) = 0
  /\ \A w \in Nat : Covers(z, u, w) =>
       \A y \in Classes : \A i \in DOMAIN ls[y] : ~Covers(y, ls[y][i].unit, w)

(* A new cache of class z at unit u: the lists and the ids before and      *)
(* after.                                                                  *)
News(ls, word, live, z, u, ls2, word2) ==
  /\ ListsOk(ls, word, live) /\ z \in Classes /\ FreeRun(ls, z, u)
  /\ Adds(ls, ls2, z, [unit |-> u, used |-> {}])
  /\ word2 \in [0 .. (CacheUnits - 1) -> Nat]
  /\ word2[u + UnitsOf(z) - 1] = z /\ (UnitsOf(z) = 2 => word2[u] = 0)
  /\ \A w \in 0 .. (CacheUnits - 1) : ~Covers(z, u, w) => word2[w] = word[w]

(* new_cache writes its id over pages that no cache has, so that the ids   *)
(* of the others stay.                                                     *)
LEMMA NewOk ==
  ASSUME NEW ls, NEW word, NEW live, NEW z, NEW u, NEW ls2, NEW word2, News(ls, word, live, z, u, ls2, word2)
  PROVE  ListsOk(ls2, word2, live)
<1> SUFFICES ASSUME ListsOk(ls, word, live), z \in Classes, FreeRun(ls, z, u),
                    Adds(ls, ls2, z, [unit |-> u, used |-> {}]),
                    word2 \in [0 .. (CacheUnits - 1) -> Nat],
                    word2[u + UnitsOf(z) - 1] = z, UnitsOf(z) = 2 => word2[u] = 0,
                    \A w \in 0 .. (CacheUnits - 1) : ~Covers(z, u, w) => word2[w] = word[w]
             PROVE  ListsOk(ls2, word2, live)
  BY Zenon DEF News
<1> DEFINE n == Len(ls[z]) + 1
           e == [unit |-> u, used |-> {}]
<1>1. /\ ls2 \in Lists
      /\ \A y \in Classes : \A i \in DOMAIN ls[y] : i \in DOMAIN ls2[y] /\ ls2[y][i] = ls[y][i]
      /\ n \in DOMAIN ls2[z] /\ ls2[z][n] = e
      /\ \A y \in Classes : \A i \in DOMAIN ls2[y] : i \in DOMAIN ls[y] \/ (y = z /\ i = n)
  BY SMTT(30) DEF Adds
<1>2. e.unit = u /\ e.used = {}
  OBVIOUS
<1> HIDE DEF n, e
<1>3. ls \in Lists /\ InPlace(ls) /\ Apart(ls) /\ Marked(ls, word)
  BY DEF ListsOk
<1>4. InPlace(ls2)
  <2>1. ASSUME NEW y \in Classes, NEW i \in DOMAIN ls2[y]
        PROVE  /\ ls2[y][i].unit + UnitsOf(y) <= CacheUnits /\ ls2[y][i].unit % UnitsOf(y) = 0
               /\ ls2[y][i].used \subseteq Slots(y)
    <3>1. CASE i \in DOMAIN ls[y]
      BY Zenon, <1>1, <1>3, <3>1 DEF InPlace
    <3>2. CASE y = z /\ i = n
      BY Zenon, <1>1, <1>2, <3>2 DEF FreeRun
    <3> QED BY SMTT(30), <1>1, <3>1, <3>2
  <2> QED BY Zenon, <2>1 DEF InPlace
<1>5. Apart(ls2)
  <2>1. ASSUME NEW x \in Classes, NEW y \in Classes, NEW i \in DOMAIN ls2[x], NEW k \in DOMAIN ls2[y], NEW w \in Nat,
               Covers(x, ls2[x][i].unit, w), Covers(y, ls2[y][k].unit, w)
        PROVE  x = y /\ i = k
    <3>1. CASE i \in DOMAIN ls[x] /\ k \in DOMAIN ls[y]
      <4>1. ls2[x][i] = ls[x][i] /\ ls2[y][k] = ls[y][k]
        BY SMTT(30), <1>1, <3>1
      <4> QED BY SMTT(30), <1>3, <2>1, <3>1, <4>1 DEF Apart
    <3>2. CASE i \in DOMAIN ls[x] /\ y = z /\ k = n
      BY ZenonT(30), <1>1, <1>2, <2>1, <3>2 DEF FreeRun
    <3>3. CASE k \in DOMAIN ls[y] /\ x = z /\ i = n
      BY ZenonT(30), <1>1, <1>2, <2>1, <3>3 DEF FreeRun
    <3>4. CASE x = z /\ i = n /\ y = z /\ k = n
      BY <3>4
    <3>5. (i \in DOMAIN ls[x] \/ (x = z /\ i = n)) /\ (k \in DOMAIN ls[y] \/ (y = z /\ k = n))
      BY SMTT(30), <1>1
    <3> QED BY ONLY <3>1, <3>2, <3>3, <3>4, <3>5
  <2> QED BY SMTT(30), <2>1 DEF Apart
<1>6. Marked(ls2, word2)
  <2>1. ASSUME NEW y \in Classes, NEW i \in DOMAIN ls2[y]
        PROVE  /\ word2[ls2[y][i].unit + UnitsOf(y) - 1] = y
               /\ UnitsOf(y) = 2 => word2[ls2[y][i].unit] = 0
    <3>1. CASE i \in DOMAIN ls[y]
      <4> DEFINE v == ls[y][i].unit
                 h == UnitsOf(y)
      <4>1. v \in Nat /\ h \in {1, 2} /\ v + h <= CacheUnits
        BY SMTT(30), <1>3, <3>1, ListTypes, Units DEF InPlace
      <4>2. word[v + h - 1] = y /\ (h = 2 => word[v] = 0)
        BY Zenon, <1>3, <3>1 DEF Marked
      <4>3. Covers(y, v, v + h - 1) /\ Covers(y, v, v)
        <5>1. Covers(y, v, v) <=> v <= v /\ v < v + h
          BY Zenon DEF Covers
        <5>2. Covers(y, v, v + h - 1) <=> v <= v + h - 1 /\ v + h - 1 < v + h
          BY Zenon DEF Covers
        <5> HIDE DEF v, h
        <5> QED BY <4>1, <5>1, <5>2
      <4> HIDE DEF h
      <4>4. v + h - 1 \in Nat /\ v \in Nat
        BY SMTT(30), <4>1
      <4>5. ~Covers(z, u, v + h - 1) /\ ~Covers(z, u, v)
        BY Zenon, <3>1, <4>3, <4>4 DEF FreeRun
      <4> HIDE DEF v
      <4>6. v + h - 1 \in 0 .. (CacheUnits - 1) /\ v \in 0 .. (CacheUnits - 1)
        BY <4>1, CacheAssumption
      <4>7. word2[v + h - 1] = word[v + h - 1] /\ word2[v] = word[v]
        BY Zenon, <4>5, <4>6
      <4>8. ls2[y][i].unit = v
        BY Zenon, <1>1, <3>1 DEF v
      <4> QED BY Zenon, <4>2, <4>7, <4>8 DEF h
    <3>2. CASE y = z /\ i = n
      BY Zenon, <1>1, <1>2, <3>2
    <3> QED BY SMTT(30), <1>1, <3>1, <3>2
  <2> QED BY Zenon, <2>1 DEF Marked
<1>7. LiveTypes(live) /\ LiveOnce(live)
  BY DEF ListsOk
<1>8. LiveUsed(ls2, live)
  <2>1. ASSUME NEW b \in live, b.kind = "cache"
        PROVE  \E i \in DOMAIN ls2[b.size] : b.slot \in ls2[b.size][i].used /\ Holds(b, b.size, ls2[b.size][i], b.slot)
    <3>1. b.size \in Classes
      BY <2>1 DEF ListsOk, LiveTypes
    <3>2. PICK i \in DOMAIN ls[b.size] : b.slot \in ls[b.size][i].used /\ Holds(b, b.size, ls[b.size][i], b.slot)
      BY SMTT(30), <2>1 DEF ListsOk, LiveUsed
    <3> QED BY Zenon, <1>1, <3>1, <3>2
  <2> QED BY Zenon, <2>1 DEF LiveUsed
<1>9. UsedLive(ls2, live)
  <2>1. ASSUME NEW y \in Classes, NEW i \in DOMAIN ls2[y], NEW t \in ls2[y][i].used
        PROVE  \E b \in live : Holds(b, y, ls2[y][i], t)
    <3>1. i \in DOMAIN ls[y] /\ ls2[y][i] = ls[y][i]
      BY Zenon, <1>1, <1>2, <2>1
    <3> QED BY Zenon, <3>1 DEF ListsOk, UsedLive
  <2> QED BY Zenon, <2>1 DEF UsedLive
<1> QED BY Zenon, <1>1, <1>4, <1>5, <1>6, <1>7, <1>8, <1>9 DEF ListsOk

---------------------------------------------------------------------------
(* find_empty_slot finds a slot that is not used. *)
LEMMA EmptySlots ==
  ASSUME NEW z \in Classes, NEW c, NEW p \in Nat, EmptyFrom(z, c, p) # {}
  PROVE  /\ Min(EmptyFrom(z, c, p)) \in Slots(z) /\ Min(EmptyFrom(z, c, p)) \notin c.used
         /\ Min(EmptyFrom(z, c, p)) \in Nat
<1> DEFINE T == EmptyFrom(z, c, p)
<1>1. CacheEntries[z] \in Nat
  BY CacheAssumption
<1>2. \A s \in T : s \in Nat /\ s \in Slots(z) /\ s \notin c.used
  BY <1>1 DEF EmptyFrom, Slots
<1> HIDE DEF T
<1>3. Min(T) \in T
  BY <1>2, Least DEF T
<1> QED BY <1>2, <1>3 DEF T

(* A free slot of a cache in the list is a hint. *)
LEMMA HintThere ==
  ASSUME NEW z \in Classes, NEW list, NEW j \in DOMAIN list, NEW s \in Slots(z), s \notin list[j].used,
         list[j].unit \in Nat, list[j].unit < CacheUnits
  PROVE  Hinted(z, list, [unit |-> list[j].unit, slot |-> s])
<1> DEFINE h == [unit |-> list[j].unit, slot |-> s]
<1>1. s \in Nat
  BY CacheAssumption DEF Slots
<1>2. h \in Hints /\ h.unit = list[j].unit /\ h.slot = s
  BY <1>1 DEF Hints
<1>3. h # NoHint
  <2>1. NoHint.unit = CacheUnits
    BY DEF NoHint
  <2> QED BY <1>2, <2>1, CacheAssumption
<1> HIDE DEF h
<1>4. Hinted(z, list, h)
  BY Zenon, <1>2, <1>3 DEF Hinted
<1> QED BY <1>4 DEF h

(* The search from the start of the list finds a free slot if there is     *)
(* one.                                                                    *)
LEMMA StartHint ==
  ASSUME NEW z \in Classes, NEW list \in Seq(Entries), \A j \in DOMAIN list : list[j].unit < CacheUnits
  PROVE  Hinted(z, list, HintFromStart(z, list))
<1> DEFINE J == {j \in DOMAIN list : EmptyFrom(z, list[j], 0) # {}}
<1>1. CASE J = {}
  <2>1. HintFromStart(z, list) = NoHint
    BY Zenon, <1>1 DEF HintFromStart
  <2>2. NoHint \in Hints
    BY CacheAssumption DEF NoHint, Hints
  <2> QED BY Zenon, <1>1, <2>1, <2>2 DEF Hinted
<1>2. CASE J # {}
  <2> DEFINE m == Min(J)
             s == Min(EmptyFrom(z, list[m], 0))
  <2>1. HintFromStart(z, list) = [unit |-> list[m].unit, slot |-> s]
    BY Zenon, <1>2 DEF HintFromStart
  <2>2. J \subseteq Nat
    OBVIOUS
  <2>3. m \in J
    <3> HIDE DEF J
    <3> QED BY Zenon, <1>2, <2>2, Least
  <2> HIDE DEF m
  <2>4. m \in DOMAIN list /\ EmptyFrom(z, list[m], 0) # {}
    BY <2>3
  <2>5. s \in Slots(z) /\ s \notin list[m].used
    BY <2>4, EmptySlots
  <2> HIDE DEF s
  <2>6. list[m] \in Entries
    BY <2>4
  <2>7. list[m].unit \in Nat /\ list[m].unit < CacheUnits
    BY <2>4, <2>6, EntryTypes
  <2> QED BY <2>1, <2>4, <2>5, <2>7, HintThere
<1> QED BY SMTT(30), <1>1, <1>2

(* cache_malloc's next hint: a later slot of the same cache, or a search   *)
(* from the start.  The slots before the taken one are searched only in    *)
(* the second case.                                                        *)
LEMMA MovedHint ==
  ASSUME NEW z \in Classes, NEW list \in Seq(Entries), \A j \in DOMAIN list : list[j].unit < CacheUnits,
         NEW j \in DOMAIN list, NEW s \in Nat
  PROVE  Hinted(z, list, NextHint(z, list, j, s))
<1>1. CASE EmptyFrom(z, list[j], s) = {}
  <2>1. NextHint(z, list, j, s) = HintFromStart(z, list)
    BY Zenon, <1>1 DEF NextHint
  <2> QED BY <2>1, StartHint
<1>2. CASE EmptyFrom(z, list[j], s) # {}
  <2> DEFINE m == Min(EmptyFrom(z, list[j], s))
  <2>1. NextHint(z, list, j, s) = [unit |-> list[j].unit, slot |-> m]
    BY Zenon, <1>2 DEF NextHint
  <2>2. m \in Slots(z) /\ m \notin list[j].used
    BY <1>2, EmptySlots
  <2> HIDE DEF m
  <2>3. list[j].unit \in Nat /\ list[j].unit < CacheUnits
    BY EntryTypes
  <2> QED BY <2>1, <2>2, <2>3, HintThere
<1> QED BY <1>1, <1>2

---------------------------------------------------------------------------
(* A step that changes the list and the hint of one class. *)
LEMMA Installed ==
  ASSUME cache \in [Classes -> [list : Seq(Entries), hint : Hints]],
         \A y \in Classes : Hinted(y, cache[y].list, cache[y].hint),
         NEW z \in Classes, NEW ls2 \in Lists, \A y \in Classes \ {z} : ls2[y] = AllLists[y],
         NEW hint2, Hinted(z, ls2[z], hint2),
         cache' = [cache EXCEPT ![z] = [list |-> ls2[z], hint |-> hint2]],
         ListsOk(ls2, cache_word', cache_live'), NoneEmpty(ls2), cache_panic' = "no"
  PROVE  CacheInv'
<1> DEFINE e == [list |-> ls2[z], hint |-> hint2]
<1>1. ls2[z] \in Seq(Entries) /\ hint2 \in Hints
  BY SMTT(30) DEF Lists, Hinted
<1>2. e \in [list : Seq(Entries), hint : Hints] /\ e.list = ls2[z] /\ e.hint = hint2
  BY SMTT(30), <1>1
<1> HIDE DEF e
<1>3. cache' = [cache EXCEPT ![z] = e]
  BY DEF e
<1>4. cache' \in [Classes -> [list : Seq(Entries), hint : Hints]]
  BY Zenon, <1>2, <1>3
<1>5. cache'[z] = e /\ \A y \in Classes \ {z} : cache'[y] = cache[y]
  BY Zenon, <1>3
<1>6. \A y \in Classes : cache'[y].list = ls2[y]
  BY Zenon, <1>2, <1>5 DEF AllLists
<1>7. AllLists' = ls2
  BY Zenon, <1>6 DEF AllLists, Lists
<1>8. \A y \in Classes : Hinted(y, cache'[y].list, cache'[y].hint)
  BY Zenon, <1>2, <1>5
<1> QED BY Zenon, <1>4, <1>7, <1>8 DEF CacheInv

(* A cache begins below the end of memory, so that no cache has the        *)
(* address of NoHint.                                                      *)
LEMMA UnitsBelow ==
  ASSUME NEW ls \in Lists, InPlace(ls), NEW z \in Classes
  PROVE  ls[z] \in Seq(Entries) /\ \A j \in DOMAIN ls[z] : ls[z][j].unit < CacheUnits
<1>1. ASSUME NEW j \in DOMAIN ls[z] PROVE ls[z][j].unit < CacheUnits
  <2>1. ls[z][j].unit \in Nat /\ UnitsOf(z) \in {1, 2} /\ ls[z][j].unit + UnitsOf(z) <= CacheUnits
    BY ListTypes, Units DEF InPlace
  <2> QED BY <2>1, CacheAssumption
<1> QED BY <1>1, ListTypes

(* cache_malloc once it has a cache with an empty slot. *)
LEMMA SlotTaken ==
  ASSUME CacheInv,
         NEW ls, ListsOk(ls, cache_word', cache_live), NEW z \in Classes, \A y \in Classes \ {z} : ls[y] = AllLists[y],
         NEW i \in DOMAIN ls[z], NEW unit, ls[z][i].unit = unit, NEW p \in Nat, EmptyFrom(z, ls[z][i], p) # {},
         \A y \in Classes : \A k \in DOMAIN ls[y] : y # z \/ k # i => ls[y][k].used # {},
         NEW bytes \in Nat, bytes <= z,
         TakeSlot(z, ls[z], unit, p, bytes)
  PROVE  CacheInv'
<1> DEFINE list == ls[z]
           j == CHOOSE k \in DOMAIN list : list[k].unit = unit
<1>1. ls \in Lists /\ Apart(ls) /\ InPlace(ls)
  BY SMTT(30) DEF ListsOk
<1>2. j \in DOMAIN list /\ list[j].unit = unit
  <2>1. \E k \in DOMAIN list : list[k].unit = unit
    OBVIOUS
  <2> QED BY Zenon, <2>1
<1> HIDE DEF j
<1>3. j = i
  BY SMTT(30), <1>1, <1>2, UnitFindsCache
<1> DEFINE s == Min(EmptyFrom(z, list[i], p))
           U == list[i].used \cup {s}
           taken == [list EXCEPT ![i].used = @ \cup {s}]
           a == [kind |-> "cache", unit |-> SlotUnit(z, list[i], s), slot |-> s, bytes |-> bytes, size |-> z]
           ls2 == [ls EXCEPT ![z] = taken]
<1>4. /\ cache' = [cache EXCEPT ![z] = [list |-> taken, hint |-> NextHint(z, taken, i, s)]]
      /\ cache_live' = cache_live \cup {a} /\ cache_panic' = cache_panic
  BY Zenon, <1>3 DEF TakeSlot, j
<1>5. s \in Slots(z) /\ s \notin list[i].used /\ s \in Nat
  BY SMTT(30), EmptySlots
<1>6. a.bytes = bytes /\ Holds(a, z, list[i], s)
  BY SMTT(30) DEF Holds
<1> HIDE DEF s, a
<1>7. U \in SUBSET Nat
  BY SMTT(30), <1>1, <1>5, ListTypes
<1>8. taken = [list EXCEPT ![i].used = U]
  BY Zenon
<1>9. Uses(ls, ls2, z, i, U)
  BY Zenon, <1>1, <1>7, <1>8, SetUsed
<1>10. ls \in [Classes -> Seq(Entries)]
  BY SMTT(30), <1>1 DEF Lists
<1>11. ls2[z] = taken /\ \A y \in Classes \ {z} : ls2[y] = ls[y]
  BY Zenon, <1>10
<1> HIDE DEF taken, ls2
<1>12. ListsOk(ls2, cache_word', cache_live') /\ NoneEmpty(ls2)
  <2>1. a.bytes \in Nat /\ a.bytes <= z
    BY Zenon, <1>6
  <2>2. ListsOk(ls2, cache_word', cache_live \cup {a}) /\ NoneEmpty(ls2)
    <3>1. Takes(ls, cache_word', cache_live, z, i, s, ls2, a)
      BY Zenon, <1>5, <1>6, <1>9, <2>1 DEF Takes
    <3> QED BY Zenon, <3>1, TakeOk
  <2> QED BY Zenon, <1>4, <2>2
<1>13. ls2 \in Lists /\ InPlace(ls2)
  BY SMTT(30), <1>12 DEF ListsOk
<1>14. i \in DOMAIN taken
  BY Zenon, <1>9, <1>11 DEF Uses
<1>15. Hinted(z, taken, NextHint(z, taken, i, s))
  BY SMTT(30), <1>5, <1>11, <1>13, <1>14, UnitsBelow, MovedHint
<1>16. /\ cache \in [Classes -> [list : Seq(Entries), hint : Hints]]
       /\ \A y \in Classes : Hinted(y, cache[y].list, cache[y].hint)
       /\ cache_panic = "no"
  BY SMTT(30) DEF CacheInv
<1>17. \A y \in Classes \ {z} : ls2[y] = AllLists[y]
  BY Zenon, <1>11
<1>18. cache' = [cache EXCEPT ![z] = [list |-> ls2[z], hint |-> NextHint(z, taken, i, s)]]
  BY Zenon, <1>4, <1>11
<1>19. cache_panic' = "no" /\ Hinted(z, ls2[z], NextHint(z, taken, i, s))
  BY Zenon, <1>4, <1>11, <1>15, <1>16
<1> QED BY Zenon, <1>12, <1>13, <1>16, <1>17, <1>18, <1>19, Installed

(* cache_malloc: the hint leads to a cache with an empty slot, and without *)
(* a hint a new cache is made.                                             *)
LEMMA MallocStep ==
  ASSUME CacheInv, NEW z \in Classes, NEW bytes \in Nat, bytes <= z, cache_malloc(z, bytes)
  PROVE  CacheInv'
<1> DEFINE ls == AllLists
           hint == cache[z].hint
<1>1. ListsOk(ls, cache_word, cache_live) /\ NoneEmpty(ls) /\ ls[z] = cache[z].list /\ ls \in Lists
  BY Zenon DEF CacheInv, AllLists, ListsOk
<1>2. Hinted(z, ls[z], hint)
  BY Zenon, <1>1 DEF CacheInv
<1>3. CASE /\ hint # NoHint
           /\ TakeSlot(z, cache[z].list, hint.unit, hint.slot, bytes)
           /\ UNCHANGED cache_word
  <2>1. hint \in Hints /\ hint.slot \in Nat
    BY <1>2 DEF Hinted, Hints
  <2>2. PICK i \in DOMAIN ls[z] : ls[z][i].unit = hint.unit /\ hint.slot \in Slots(z) /\ hint.slot \notin ls[z][i].used
    BY Zenon, <1>2, <1>3 DEF Hinted
  <2>3. hint.slot \in EmptyFrom(z, ls[z][i], hint.slot)
    <3>1. hint.slot \in hint.slot .. (CacheEntries[z] - 1)
      BY <2>1, <2>2, CacheAssumption DEF Slots
    <3> QED BY Zenon, <2>2, <3>1 DEF EmptyFrom
  <2>4. \A y \in Classes : \A k \in DOMAIN ls[y] : ls[y][k].used # {}
    BY Zenon, <1>1 DEF NoneEmpty
  <2>5. ListsOk(ls, cache_word', cache_live)
    BY Zenon, <1>1, <1>3
  <2>6. EmptyFrom(z, ls[z][i], hint.slot) # {} /\ TakeSlot(z, ls[z], hint.unit, hint.slot, bytes)
    BY Zenon, <1>1, <1>3, <2>3
  <2> HIDE DEF ls, hint
  <2>7. \A y \in Classes \ {z} : ls[y] = AllLists[y]
    BY Zenon DEF ls
  <2> QED BY ZenonT(30), <2>1, <2>2, <2>4, <2>5, <2>6, <2>7, SlotTaken
<1>4. ASSUME NEW u \in FreeRuns(z),
             TakeSlot(z, Append(cache[z].list, [unit |-> u, used |-> {}]), u, 0, bytes),
             cache_word' = NewCacheWord(z, u)
      PROVE  CacheInv'
  <2> DEFINE e == [unit |-> u, used |-> {}]
             n == Len(ls[z]) + 1
             ls1 == [ls EXCEPT ![z] = Append(ls[z], e)]
  <2>1. u \in Nat /\ UnitsOf(z) \in {1, 2} /\ u + UnitsOf(z) <= CacheUnits /\ u % UnitsOf(z) = 0
    <3>1. u \in 0 .. (CacheUnits - UnitsOf(z)) /\ u % UnitsOf(z) = 0
      BY DEF FreeRuns
    <3> DEFINE h == UnitsOf(z)
    <3>2. h \in {1, 2}
      BY Units
    <3> HIDE DEF h
    <3>3. u \in Nat /\ u + h <= CacheUnits
      BY <3>1, <3>2, CacheAssumption DEF h
    <3> QED BY <3>1, <3>2, <3>3 DEF h
  <2>2. FreeRun(ls, z, u)
    <3>1. ASSUME NEW w \in Nat, Covers(z, u, w), NEW y \in Classes, NEW k \in DOMAIN ls[y], Covers(y, ls[y][k].unit, w)
          PROVE  FALSE
      <4>1. w < u + UnitsOf(z)
        BY <3>1 DEF Covers
      <4>2. w \in 0 .. (CacheUnits - 1)
        BY <2>1, <4>1, CacheAssumption
      <4>3. ~CacheInUse(w)
        BY Zenon, <3>1, <4>2 DEF FreeRuns
      <4>4. ls[y] = cache[y].list
        BY Zenon DEF AllLists
      <4> QED BY Zenon, <3>1, <4>3, <4>4 DEF CacheInUse
    <3> QED BY Zenon, <2>1, <3>1 DEF FreeRun
  <2>3. e \in Entries /\ e.unit = u /\ e.used = {}
    BY <2>1 DEF Entries
  <2>4. Adds(ls, ls1, z, e)
    <3> HIDE DEF e, ls
    <3> QED BY SMTT(30), <1>1, <2>3, AppendAdds
  <2>5. /\ cache_word' \in [0 .. (CacheUnits - 1) -> Nat]
        /\ cache_word'[u + UnitsOf(z) - 1] = z
        /\ UnitsOf(z) = 2 => cache_word'[u] = 0
        /\ \A w \in 0 .. (CacheUnits - 1) : ~Covers(z, u, w) => cache_word'[w] = cache_word[w]
    <3> DEFINE h == UnitsOf(z)
    <3>1. cache_word \in [0 .. (CacheUnits - 1) -> Nat] /\ DOMAIN cache_word = 0 .. (CacheUnits - 1)
      BY <1>1 DEF ListsOk
    <3>2. cache_word' = [w \in 0 .. (CacheUnits - 1) |->
                           IF w = u + h - 1 THEN z ELSE IF w = u THEN 0 ELSE cache_word[w]]
      BY Zenon, <1>4, <3>1 DEF NewCacheWord
    <3>3. \A w : Covers(z, u, w) <=> u <= w /\ w < u + h
      BY Zenon DEF Covers
    <3> HIDE DEF h
    <3>4. h \in {1, 2} /\ u + h <= CacheUnits
      BY <2>1 DEF h
    <3>5. z \in Nat
      BY CacheAssumption
    <3>6. u + h - 1 \in 0 .. (CacheUnits - 1) /\ u \in 0 .. (CacheUnits - 1) /\ (h = 2 => u # u + h - 1)
      BY <2>1, <3>4, CacheAssumption
    <3>7. cache_word' \in [0 .. (CacheUnits - 1) -> Nat] /\ cache_word'[u + h - 1] = z /\ (h = 2 => cache_word'[u] = 0)
      BY <3>1, <3>2, <3>5, <3>6
    <3>8. ASSUME NEW w \in 0 .. (CacheUnits - 1), ~Covers(z, u, w)
          PROVE  cache_word'[w] = cache_word[w]
      <4>1. w # u + h - 1 /\ w # u
        BY <2>1, <3>3, <3>4, <3>8
      <4> QED BY Zenon, <3>2, <4>1
    <3> QED BY Zenon, <3>7, <3>8 DEF h
  <2>6. ListsOk(ls1, cache_word', cache_live)
    <3> HIDE DEF ls, ls1
    <3>1. Adds(ls, ls1, z, [unit |-> u, used |-> {}])
      BY Zenon, <2>4
    <3> HIDE DEF e
    <3>2. News(ls, cache_word, cache_live, z, u, ls1, cache_word')
      BY Zenon, <1>1, <2>2, <2>5, <3>1 DEF News
    <3> QED BY Zenon, <3>2, NewOk
  <2>7. ls1[z] = Append(ls[z], e) /\ \A y \in Classes \ {z} : ls1[y] = ls[y]
    BY Zenon, <1>1 DEF Lists
  <2>8. TakeSlot(z, ls1[z], u, 0, bytes)
    BY Zenon, <1>1, <1>4, <2>7
  <2>9. n \in DOMAIN ls1[z] /\ ls1[z][n] = e
    BY Zenon, <2>4 DEF Adds
  <2> HIDE DEF e, n, ls1, ls
  <2>10. EmptyFrom(z, ls1[z][n], 0) # {}
    <3>1. 0 \in 0 .. (CacheEntries[z] - 1)
      BY CacheAssumption
    <3>2. 0 \notin ls1[z][n].used
      BY Zenon, <2>3, <2>9
    <3> QED BY Zenon, <3>1, <3>2 DEF EmptyFrom
  <2>11. ASSUME NEW y \in Classes, NEW k \in DOMAIN ls1[y], y # z \/ k # n
         PROVE  ls1[y][k].used # {}
    <3>1. k \in DOMAIN ls[y] /\ ls1[y][k] = ls[y][k]
      BY Zenon, <2>4, <2>11 DEF Adds, n
    <3> QED BY Zenon, <1>1, <3>1 DEF NoneEmpty
  <2>12. ls1[z][n].unit = u /\ 0 \in Nat
    BY Zenon, <2>3, <2>9
  <2>13. \A y \in Classes \ {z} : ls1[y] = AllLists[y]
    BY Zenon, <2>7 DEF ls
  <2> QED BY Zenon, <2>6, <2>8, <2>9, <2>10, <2>11, <2>12, <2>13, SlotTaken
<1> QED BY Zenon, <1>3, <1>4 DEF cache_malloc

(* A hint is still good after a free, and is set if there was none. *)
LEMMA HintAfterPut ==
  ASSUME NEW ls \in Lists, InPlace(ls), NEW z \in Classes, NEW j \in DOMAIN ls[z], NEW s \in ls[z][j].used,
         NEW ls2, Uses(ls, ls2, z, j, ls[z][j].used \ {s}), NEW hint, Hinted(z, ls[z], hint)
  PROVE  Hinted(z, ls2[z], HintAfterFree(z, ls2[z], hint, ls[z][j].unit, s, FALSE))
<1>1. /\ ls2 \in Lists /\ DOMAIN ls2[z] = DOMAIN ls[z]
      /\ \A i \in DOMAIN ls[z] : ls2[z][i].unit = ls[z][i].unit /\ (i # j => ls2[z][i].used = ls[z][i].used)
      /\ ls2[z][j].used = ls[z][j].used \ {s}
  BY Zenon DEF Uses
<1>2. CASE hint = NoHint
  <2>1. HintAfterFree(z, ls2[z], hint, ls[z][j].unit, s, FALSE) = [unit |-> ls2[z][j].unit, slot |-> s]
    BY <1>1, <1>2 DEF HintAfterFree
  <2>2. s \in Slots(z)
    BY Zenon DEF InPlace
  <2>3. ls2[z][j].unit \in Nat /\ ls2[z][j].unit < CacheUnits
    BY SMTT(30), <1>1, UnitsBelow, ListTypes
  <2>4. j \in DOMAIN ls2[z] /\ s \notin ls2[z][j].used
    BY SMTT(30), <1>1
  <2>5. Hinted(z, ls2[z], [unit |-> ls2[z][j].unit, slot |-> s])
    BY Zenon, <2>2, <2>3, <2>4, HintThere
  <2> QED BY Zenon, <2>1, <2>5
<1>3. CASE hint # NoHint
  <2>1. HintAfterFree(z, ls2[z], hint, ls[z][j].unit, s, FALSE) = hint
    BY <1>3 DEF HintAfterFree
  <2>2. PICK i \in DOMAIN ls[z] : ls[z][i].unit = hint.unit /\ hint.slot \in Slots(z) /\ hint.slot \notin ls[z][i].used
    BY Zenon, <1>3 DEF Hinted
  <2>3. i \in DOMAIN ls2[z] /\ ls2[z][i].unit = hint.unit /\ hint.slot \notin ls2[z][i].used
    BY SMTT(30), <1>1, <2>2
  <2>4. hint \in Hints /\ hint.unit < CacheUnits
    BY Zenon, <1>3 DEF Hinted
  <2>5. Hinted(z, ls2[z], hint)
    BY Zenon, <1>3, <2>2, <2>3, <2>4 DEF Hinted
  <2> QED BY Zenon, <2>1, <2>5
<1> QED BY Zenon, <1>2, <1>3

(* A hint into the cache that is unlinked is replaced; any other hint is   *)
(* into a cache that stays.                                                *)
LEMMA HintAfterUnlink ==
  ASSUME NEW ls \in Lists, NEW z \in Classes, NEW j \in DOMAIN ls[z],
         NEW ls2, Unlinks(ls, ls2, z, j), InPlace(ls2), NEW s, NEW hint, Hinted(z, ls[z], hint)
  PROVE  Hinted(z, ls2[z], HintAfterFree(z, ls2[z], hint, ls[z][j].unit, s, TRUE))
<1> DEFINE u == ls[z][j].unit
<1>1. NoHint.unit = CacheUnits
  BY DEF NoHint
<1>2. ls2 \in Lists
  BY DEF Unlinks
<1>3. CASE hint.unit \in {u, NoHint.unit}
  <2>1. HintAfterFree(z, ls2[z], hint, u, s, TRUE) = HintFromStart(z, ls2[z])
    BY <1>3 DEF HintAfterFree
  <2>2. Hinted(z, ls2[z], HintFromStart(z, ls2[z]))
    BY Zenon, <1>2, UnitsBelow, StartHint
  <2> QED BY Zenon, <2>1, <2>2
<1>4. CASE hint.unit \notin {u, NoHint.unit}
  <2>1. HintAfterFree(z, ls2[z], hint, u, s, TRUE) = hint
    BY <1>4 DEF HintAfterFree
  <2>2. hint # NoHint /\ hint.unit # u
    BY <1>4
  <2>3. PICK i \in DOMAIN ls[z] : ls[z][i].unit = hint.unit /\ hint.slot \in Slots(z) /\ hint.slot \notin ls[z][i].used
    BY Zenon, <2>2 DEF Hinted
  <2>4. PICK k \in DOMAIN ls2[z] : ls2[z][k] = ls[z][i]
    BY ZenonT(30), <2>2, <2>3 DEF Unlinks
  <2>5. hint \in Hints /\ hint.unit < CacheUnits
    BY Zenon, <2>2 DEF Hinted
  <2>6. Hinted(z, ls2[z], hint)
    BY Zenon, <2>2, <2>3, <2>4, <2>5 DEF Hinted
  <2> QED BY Zenon, <2>1, <2>6
<1> QED BY Zenon, <1>3, <1>4

(* cache_free finds what it looks for, and frees that slot and no other. *)
LEMMA FreeStep ==
  ASSUME CacheInv, NEW a \in cache_live, a.kind = "cache", cache_free(a), UNCHANGED cache_word
  PROVE  CacheInv'
<1> DEFINE ls == AllLists
           z == a.size
           hint == cache[z].hint
           base == a.unit - (a.unit % UnitsOf(z))
<1>1. ListsOk(ls, cache_word, cache_live) /\ NoneEmpty(ls) /\ ls \in Lists /\ InPlace(ls) /\ Apart(ls)
  BY Zenon DEF CacheInv, ListsOk
<1>2. z \in Classes /\ SizeFromPtr(a.unit) = z
  <2>1. /\ z \in Classes
        /\ (IF cache_word[a.unit] # 0 THEN cache_word[a.unit] ELSE cache_word[(a.unit - (a.unit % 2)) + 1]) = z
    <3> HIDE DEF ls
    <3> QED BY SMTT(30), <1>1, FreedClass
  <2> QED BY ONLY <2>1 DEF SizeFromPtr
<1>3. PICK i \in DOMAIN ls[z] : ls[z][i].unit = base /\ a.slot \in ls[z][i].used /\ Holds(a, z, ls[z][i], a.slot)
  BY Zenon, <1>1, FreedClass
<1>4. ls[z] = cache[z].list /\ Hinted(z, ls[z], hint)
  BY Zenon, <1>2 DEF CacheInv, AllLists
<1> DEFINE J == {j \in DOMAIN cache[z].list : cache[z].list[j].unit = base}
           c == cache[z].list[Min(J)]
           empty == c.used = {a.slot}
           list == IF empty THEN Unlinked(cache[z].list, Min(J))
                   ELSE [cache[z].list EXCEPT ![Min(J)].used = @ \ {a.slot}]
           Freed(size) ==
             LET b == a.unit - (a.unit % UnitsOf(size))
                 I == {j \in DOMAIN cache[size].list : cache[size].list[j].unit = b}
                 d == cache[size].list[Min(I)]
                 last == d.used = {a.slot}
                 rest == IF last THEN Unlinked(cache[size].list, Min(I))
                         ELSE [cache[size].list EXCEPT ![Min(I)].used = @ \ {a.slot}]
             IN IF I = {} \/ a.slot \notin d.used
                THEN cache_panic' = "double_free" /\ UNCHANGED <<cache, cache_live, cache_freeing>>
                ELSE /\ cache' = [cache EXCEPT ![size] =
                            [list |-> rest, hint |-> HintAfterFree(size, rest, cache[size].hint, b, a.slot, last)]]
                     /\ cache_live' = cache_live \ {a}
                     /\ cache_freeing' = IF last THEN cache_freeing \cup {[size |-> size, unit |-> b]} ELSE cache_freeing
                     /\ UNCHANGED cache_panic
<1>5. IF J = {} \/ a.slot \notin c.used
      THEN cache_panic' = "double_free" /\ UNCHANGED <<cache, cache_live, cache_freeing>>
      ELSE /\ cache' = [cache EXCEPT ![z] =
                          [list |-> list, hint |-> HintAfterFree(z, list, hint, base, a.slot, empty)]]
           /\ cache_live' = cache_live \ {a}
           /\ cache_freeing' = IF empty THEN cache_freeing \cup {[size |-> z, unit |-> base]} ELSE cache_freeing
           /\ UNCHANGED cache_panic
  <2>1. Freed(SizeFromPtr(a.unit))
    BY Zenon DEF cache_free
  <2> HIDE DEF Freed
  <2>2. Freed(z)
    BY Zenon, <1>2, <2>1
  <2> QED BY Zenon, <2>2 DEF Freed
<1> HIDE DEF Freed
<1>6. J # {} /\ Min(J) = i
  <2>1. i \in J
    BY Zenon, <1>3, <1>4
  <2>2. \A j \in J : j \in DOMAIN ls[z] /\ ls[z][j].unit = ls[z][i].unit
    BY Zenon, <1>3, <1>4
  <2> HIDE DEF J, ls, z
  <2>3. \A j \in J : j = i
    BY SMTT(30), <1>1, <1>2, <1>3, <2>2, UnitFindsCache
  <2>4. J \subseteq Nat
    BY SMTT(30), <1>1, <1>2, <2>2, ListTypes
  <2>5. Min(J) \in J
    <3>1. J # {}
      BY <2>1
    <3> QED BY Zenon, <2>4, <3>1, Least
  <2> QED BY <2>1, <2>3, <2>5
<1>7. c = ls[z][i]
  BY Zenon, <1>4, <1>6
<1>8. /\ cache' = [cache EXCEPT ![z] =
                     [list |-> list, hint |-> HintAfterFree(z, list, hint, base, a.slot, empty)]]
      /\ cache_live' = cache_live \ {a} /\ cache_panic' = cache_panic
  BY Zenon, <1>3, <1>5, <1>6, <1>7
<1>9. list = IF empty THEN Unlinked(ls[z], i) ELSE [ls[z] EXCEPT ![i].used = ls[z][i].used \ {a.slot}]
  BY Zenon, <1>4, <1>6
<1>10. empty <=> ls[z][i].used = {a.slot}
  BY Zenon, <1>7
<1>11. /\ cache \in [Classes -> [list : Seq(Entries), hint : Hints]]
       /\ \A y \in Classes : Hinted(y, cache[y].list, cache[y].hint)
       /\ cache_panic = "no"
  BY DEF CacheInv
<1>12. ListsOk(ls, cache_word', cache_live) /\ ls \in [Classes -> Seq(Entries)] /\ ls = AllLists
  BY Zenon, <1>1 DEF Lists
<1> HIDE DEF ls, z, base, J, c, list, hint
<1>13. CASE empty
  <2> DEFINE ls2 == [ls EXCEPT ![z] = Unlinked(ls[z], i)]
  <2>1. Unlinks(ls, ls2, z, i)
    BY Zenon, <1>1, <1>2, <1>3, RemoveUnlinks
  <2>2. ls2[z] = list /\ \A y \in Classes \ {z} : ls2[y] = ls[y]
    BY Zenon, <1>2, <1>9, <1>12, <1>13
  <2> HIDE DEF ls2
  <2>3. ls[z][i].used = {a.slot}
    BY Zenon, <1>10, <1>13
  <2>4. ListsOk(ls2, cache_word', cache_live \ {a}) /\ NoneEmpty(ls2)
    BY Zenon, <1>1, <1>2, <1>3, <1>12, <2>1, <2>3, UnlinkOk
  <2>5. ls2 \in Lists /\ InPlace(ls2)
    BY Zenon, <2>4 DEF ListsOk
  <2>6. Hinted(z, ls2[z], HintAfterFree(z, ls2[z], hint, base, a.slot, TRUE))
    BY Zenon, <1>1, <1>2, <1>3, <1>4, <2>1, <2>5, HintAfterUnlink
  <2>7. HintAfterFree(z, list, hint, base, a.slot, empty) = HintAfterFree(z, ls2[z], hint, base, a.slot, TRUE)
    BY Zenon, <1>13, <2>2
  <2>8. cache' = [cache EXCEPT ![z] = [list |-> ls2[z], hint |-> HintAfterFree(z, ls2[z], hint, base, a.slot, TRUE)]]
    BY Zenon, <1>8, <2>2, <2>7
  <2>9. ListsOk(ls2, cache_word', cache_live') /\ cache_panic' = "no" /\ \A y \in Classes \ {z} : ls2[y] = AllLists[y]
    BY Zenon, <1>8, <1>11, <1>12, <2>2, <2>4
  <2> QED BY Zenon, <1>2, <1>11, <2>4, <2>5, <2>6, <2>8, <2>9, Installed
<1>14. CASE ~empty
  <2> DEFINE U == ls[z][i].used \ {a.slot}
             ls2 == [ls EXCEPT ![z] = [ls[z] EXCEPT ![i].used = U]]
  <2>1. U \in SUBSET Nat
    BY SMTT(30), <1>1, <1>2, <1>3, ListTypes
  <2>2. Uses(ls, ls2, z, i, U)
    <3> HIDE DEF U
    <3> QED BY Zenon, <1>1, <1>2, <1>3, <2>1, SetUsed
  <2>3. ls2[z] = list /\ \A y \in Classes \ {z} : ls2[y] = ls[y]
    BY Zenon, <1>2, <1>9, <1>12, <1>14
  <2> HIDE DEF ls2
  <2>4. ls[z][i].used # {a.slot}
    BY Zenon, <1>10, <1>14
  <2>5. ListsOk(ls2, cache_word', cache_live \ {a}) /\ NoneEmpty(ls2)
    BY Zenon, <1>1, <1>2, <1>3, <1>12, <2>2, <2>4, PutOk
  <2>6. ls2 \in Lists
    BY Zenon, <2>5 DEF ListsOk
  <2>7. Hinted(z, ls2[z], HintAfterFree(z, ls2[z], hint, base, a.slot, FALSE))
    BY Zenon, <1>1, <1>2, <1>3, <1>4, <2>2, HintAfterPut
  <2>8. HintAfterFree(z, list, hint, base, a.slot, empty) = HintAfterFree(z, ls2[z], hint, base, a.slot, FALSE)
    BY <1>14, <2>3 DEF HintAfterFree
  <2>9. cache' = [cache EXCEPT ![z] = [list |-> ls2[z], hint |-> HintAfterFree(z, ls2[z], hint, base, a.slot, FALSE)]]
    BY Zenon, <1>8, <2>3, <2>8
  <2>10. ListsOk(ls2, cache_word', cache_live') /\ cache_panic' = "no" /\ \A y \in Classes \ {z} : ls2[y] = AllLists[y]
    BY Zenon, <1>8, <1>11, <1>12, <2>3, <2>5
  <2> QED BY Zenon, <1>2, <1>11, <2>5, <2>6, <2>7, <2>9, <2>10, Installed
<1> QED BY Zenon, <1>13, <1>14

(* kmalloc, with the large allocations that bypass the caches. *)
LEMMA CacheKmallocStep ==
  ASSUME CacheInv, kmalloc
  PROVE  CacheInv'
<1>1. PICK bytes \in CacheWants :
        \/ /\ bytes > Max(Classes)
           /\ cache_live' = cache_live \cup
                {[kind |-> "dynamic", unit |-> CacheUnits, slot |-> 0, bytes |-> bytes, size |-> bytes]}
           /\ UNCHANGED <<cache, cache_word, cache_panic>>
        \/ bytes <= Max(Classes) /\ cache_malloc(ClassFor(bytes), bytes)
  BY Zenon DEF kmalloc
<1>2. CASE bytes <= Max(Classes) /\ cache_malloc(ClassFor(bytes), bytes)
  <2>1. bytes \in Nat /\ ClassFor(bytes) \in Classes /\ bytes <= ClassFor(bytes)
    BY Zenon, <1>2, CacheAssumption
  <2> QED BY Zenon, <1>2, <2>1, MallocStep
<1>3. CASE /\ cache_live' = cache_live \cup
                {[kind |-> "dynamic", unit |-> CacheUnits, slot |-> 0, bytes |-> bytes, size |-> bytes]}
           /\ UNCHANGED <<cache, cache_word, cache_panic>>
  <2> DEFINE d == [kind |-> "dynamic", unit |-> CacheUnits, slot |-> 0, bytes |-> bytes, size |-> bytes]
  <2>1. d.kind # "cache" /\ cache_live' = cache_live \cup {d}
    BY <1>3
  <2> HIDE DEF d
  <2>2. AllLists' = AllLists
    BY Zenon, <1>3 DEF AllLists
  <2>3. ListsOk(AllLists, cache_word, cache_live)
    BY DEF CacheInv
  <2>4. LiveTypes(cache_live \cup {d}) /\ LiveOnce(cache_live \cup {d})
    BY Zenon, <2>1, <2>3 DEF ListsOk, LiveTypes, LiveOnce
  <2>5. LiveUsed(AllLists, cache_live \cup {d})
    BY Zenon, <2>1, <2>3 DEF ListsOk, LiveUsed
  <2>6. UsedLive(AllLists, cache_live \cup {d})
    BY Zenon, <2>3 DEF ListsOk, UsedLive
  <2>7. ListsOk(AllLists, cache_word, cache_live \cup {d})
    BY Zenon, <2>3, <2>4, <2>5, <2>6 DEF ListsOk
  <2>8. ListsOk(AllLists', cache_word', cache_live') /\ NoneEmpty(AllLists')
    BY Zenon, <1>3, <2>1, <2>2, <2>7 DEF CacheInv
  <2>9. /\ cache' \in [Classes -> [list : Seq(Entries), hint : Hints]] /\ cache_panic' = "no"
        /\ \A z \in Classes : Hinted(z, cache'[z].list, cache'[z].hint)
    BY Zenon, <1>3 DEF CacheInv
  <2> QED BY Zenon, <2>8, <2>9 DEF CacheInv
<1> QED BY <1>1, <1>2, <1>3

(* kfree of either kind of allocation. *)
LEMMA CacheKfreeStep ==
  ASSUME CacheInv, kfree
  PROVE  CacheInv'
<1>0. UNCHANGED cache_word
  BY Zenon DEF kfree
<1>1. PICK a \in cache_live :
        \/ a.kind = "cache" /\ cache_free(a)
        \/ /\ a.kind = "dynamic"
           /\ cache_live' = cache_live \ {a}
           /\ UNCHANGED <<cache, cache_freeing, cache_panic>>
  BY Zenon DEF kfree
<1>2. CASE a.kind = "cache" /\ cache_free(a)
  BY Zenon, <1>0, <1>2, FreeStep
<1>3. CASE a.kind = "dynamic" /\ cache_live' = cache_live \ {a} /\ UNCHANGED <<cache, cache_freeing, cache_panic>>
  <2>1. a.kind # "cache"
    BY <1>3
  <2>2. AllLists' = AllLists
    BY Zenon, <1>3 DEF AllLists
  <2>3. ListsOk(AllLists, cache_word, cache_live)
    BY DEF CacheInv
  <2>4. LiveTypes(cache_live \ {a}) /\ LiveOnce(cache_live \ {a})
    BY Zenon, <2>3 DEF ListsOk, LiveTypes, LiveOnce
  <2>5. LiveUsed(AllLists, cache_live \ {a})
    BY Zenon, <2>3 DEF ListsOk, LiveUsed
  <2>6. UsedLive(AllLists, cache_live \ {a})
    <3>1. ASSUME NEW z \in Classes, NEW j \in DOMAIN AllLists[z], NEW s \in AllLists[z][j].used
          PROVE  \E b \in cache_live \ {a} : Holds(b, z, AllLists[z][j], s)
      <4>1. PICK b \in cache_live : Holds(b, z, AllLists[z][j], s)
        BY Zenon, <2>3 DEF ListsOk, UsedLive
      <4>2. b # a
        BY Zenon, <2>1, <4>1 DEF Holds
      <4> QED BY Zenon, <4>1, <4>2
    <3> QED BY Zenon, <3>1 DEF UsedLive
  <2>7. ListsOk(AllLists, cache_word, cache_live \ {a})
    BY Zenon, <2>3, <2>4, <2>5, <2>6 DEF ListsOk
  <2>8. ListsOk(AllLists', cache_word', cache_live') /\ NoneEmpty(AllLists')
    BY Zenon, <1>0, <1>3, <2>2, <2>7 DEF CacheInv
  <2>9. /\ cache' \in [Classes -> [list : Seq(Entries), hint : Hints]] /\ cache_panic' = "no"
        /\ \A z \in Classes : Hinted(z, cache'[z].list, cache'[z].hint)
    BY Zenon, <1>3 DEF CacheInv
  <2> QED BY Zenon, <2>8, <2>9 DEF CacheInv
<1> QED BY <1>1, <1>2, <1>3

(* cache_malloc_init: empty lists and no hints. *)
LEMMA CacheStarts == CacheInit => CacheInv
<1> SUFFICES ASSUME CacheInit PROVE CacheInv
  OBVIOUS
<1>1. /\ cache = [z \in Classes |-> [list |-> <<>>, hint |-> NoHint]]
      /\ cache_word = [u \in 0..(CacheUnits - 1) |-> 0]
      /\ cache_live = {} /\ cache_panic = "no"
  BY DEF CacheInit
<1>2. NoHint \in Hints
  BY CacheAssumption DEF NoHint, Hints
<1> HIDE DEF NoHint
<1>3. \A z \in Classes : cache[z].list = <<>> /\ cache[z].hint = NoHint
  BY <1>1
<1>4. [list |-> <<>>, hint |-> NoHint] \in [list : Seq(Entries), hint : Hints]
  BY <1>2
<1>5. cache \in [Classes -> [list : Seq(Entries), hint : Hints]]
  BY Zenon, <1>1, <1>4
<1>6. AllLists = [z \in Classes |-> <<>>]
  BY Zenon, <1>3 DEF AllLists
<1>7. \A z \in Classes : AllLists[z] = <<>> /\ DOMAIN AllLists[z] = {}
  BY <1>6
<1>8. AllLists \in Lists
  <2>1. <<>> \in Seq(Entries)
    OBVIOUS
  <2> QED BY Zenon, <1>6, <2>1 DEF Lists
<1>9. InPlace(AllLists) /\ Apart(AllLists) /\ Marked(AllLists, cache_word) /\ NoneEmpty(AllLists)
  BY Zenon, <1>7 DEF InPlace, Apart, Marked, NoneEmpty
<1>10. LiveTypes(cache_live) /\ LiveOnce(cache_live) /\ LiveUsed(AllLists, cache_live) /\ UsedLive(AllLists, cache_live)
  BY Zenon, <1>1, <1>7 DEF LiveTypes, LiveOnce, LiveUsed, UsedLive
<1>11. cache_word \in [0..(CacheUnits - 1) -> Nat]
  BY <1>1
<1>12. \A z \in Classes : Hinted(z, cache[z].list, cache[z].hint)
  <2>1. DOMAIN <<>> = {}
    OBVIOUS
  <2> QED BY Zenon, <1>2, <1>3, <2>1 DEF Hinted
<1> QED BY Zenon, <1>1, <1>5, <1>8, <1>9, <1>10, <1>11, <1>12 DEF CacheInv, ListsOk

(* Every step of kmalloc, kfree and raw_kfree keeps the lists, hints, ids  *)
(* and allocations in agreement, in whatever order they come.              *)
THEOREM CacheInvariant == CacheSpec => []CacheInv
<1>1. CacheInv /\ [CacheNext]_cacheVars => CacheInv'
  <2> SUFFICES ASSUME CacheInv, [CacheNext]_cacheVars PROVE CacheInv'
    OBVIOUS
  <2>1. ASSUME UNCHANGED <<cache, cache_word, cache_live, cache_panic>> PROVE CacheInv'
    BY Zenon, <2>1 DEF CacheInv, AllLists
  <2>2. CASE CacheRawKfree
    BY Zenon, <2>1, <2>2 DEF CacheRawKfree
  <2>3. CASE UNCHANGED cacheVars
    BY Zenon, <2>1, <2>3 DEF cacheVars
  <2> QED BY Zenon, <2>2, <2>3, CacheKmallocStep, CacheKfreeStep DEF CacheNext
<1> QED BY <1>1, CacheStarts, PTL DEF CacheSpec

---------------------------------------------------------------------------
(* The allocations whose address lies in cache j of class z. *)
Mine(ls, live, z, j) ==
  {a \in live : a.kind = "cache" /\ a.unit - (a.unit % UnitsOf(z)) = ls[z][j].unit /\ a.size = z}

(* The bitmap of a cache is exactly the slots of its allocations. *)
LEMMA SlotsMatch ==
  ASSUME NEW ls, NEW word, NEW live, ListsOk(ls, word, live), NEW z \in Classes, NEW j \in DOMAIN ls[z]
  PROVE  /\ ls[z][j].used = {a.slot : a \in Mine(ls, live, z, j)}
         /\ Cardinality(Mine(ls, live, z, j)) = Cardinality(ls[z][j].used)
         /\ \A a \in Mine(ls, live, z, j) : a.bytes <= z
<1> DEFINE mine == Mine(ls, live, z, j)
<1>0. \A a : a \in mine <=> /\ a \in live /\ a.kind = "cache" /\ a.size = z
                            /\ a.unit - (a.unit % UnitsOf(z)) = ls[z][j].unit
  BY Zenon DEF Mine
<1> HIDE DEF mine
<1> DEFINE c == ls[z][j]
           g == [s \in c.used |-> CHOOSE a \in mine : a.slot = s]
<1>1. /\ ls \in Lists /\ InPlace(ls) /\ Apart(ls) /\ LiveTypes(live)
      /\ LiveUsed(ls, live) /\ UsedLive(ls, live) /\ LiveOnce(live)
  BY DEF ListsOk
<1>2. \A a \in mine : a \in live /\ a.kind = "cache" /\ a.size = z
  BY Zenon, <1>0
<1>3. \A a \in mine : a.slot \in c.used /\ Holds(a, z, c, a.slot)
  <2> SUFFICES ASSUME NEW a \in mine PROVE a.slot \in c.used /\ Holds(a, z, c, a.slot)
    BY Zenon
  <2>1. PICK k \in DOMAIN ls[z] : a.slot \in ls[z][k].used /\ Holds(a, z, ls[z][k], a.slot)
    BY Zenon, <1>1, <1>2 DEF LiveUsed
  <2>2. a.unit = SlotUnit(z, ls[z][k], a.slot) /\ a.unit - (a.unit % UnitsOf(z)) = ls[z][j].unit
    BY Zenon, <1>0, <2>1 DEF Holds
  <2>3. SlotUnit(z, ls[z][k], a.slot) - (SlotUnit(z, ls[z][k], a.slot) % UnitsOf(z)) = ls[z][k].unit
    BY Zenon, <1>1, SlotBase
  <2>4. ls[z][k].unit = ls[z][j].unit
    BY Zenon, <2>2, <2>3
  <2>5. k = j
    BY Zenon, <1>1, <2>4, UnitFindsCache
  <2> QED BY Zenon, <2>1, <2>5
<1>4. \A s \in c.used : \E a \in mine : a.slot = s
  <2> SUFFICES ASSUME NEW s \in c.used PROVE \E a \in mine : a.slot = s
    BY Zenon
  <2>1. PICK a \in live : Holds(a, z, c, s)
    BY Zenon, <1>1 DEF UsedLive
  <2>2. a.kind = "cache" /\ a.size = z /\ a.slot = s /\ a.unit = SlotUnit(z, ls[z][j], s)
    BY Zenon, <2>1 DEF Holds
  <2>3. SlotUnit(z, ls[z][j], s) - (SlotUnit(z, ls[z][j], s) % UnitsOf(z)) = ls[z][j].unit
    BY Zenon, <1>1, SlotBase
  <2>4. a \in mine
    BY Zenon, <1>0, <2>2, <2>3
  <2> QED BY Zenon, <2>2, <2>4
<1>5. \A a, b \in mine : a.slot = b.slot => a = b
  <2> SUFFICES ASSUME NEW a \in mine, NEW b \in mine, a.slot = b.slot PROVE a = b
    BY Zenon
  <2>1. a.unit = SlotUnit(z, c, a.slot) /\ b.unit = SlotUnit(z, c, b.slot)
    BY Zenon, <1>3 DEF Holds
  <2>2. a.unit = b.unit /\ a.size = b.size
    BY Zenon, <1>2, <2>1
  <2> QED BY Zenon, <1>1, <1>2, <2>2 DEF LiveOnce
<1>6. c.used = {a.slot : a \in mine}
  BY <1>3, <1>4
<1>7. IsFiniteSet(c.used)
  <2> DEFINE n == CacheEntries[z] - 1
  <2>1. n \in Int /\ 0 \in Int
    BY CacheAssumption
  <2>2. c.used \in SUBSET (0 .. n)
    BY Zenon, <1>1 DEF InPlace, Slots
  <2> HIDE DEF n, c
  <2>3. IsFiniteSet(0 .. n)
    BY Zenon, <2>1, FS_Interval
  <2> QED BY Zenon, <2>2, <2>3, FS_Subset
<1>8. \A s \in c.used : g[s] \in mine /\ g[s].slot = s
  <2> SUFFICES ASSUME NEW s \in c.used PROVE g[s] \in mine /\ g[s].slot = s
    BY Zenon
  <2>1. \E a \in mine : a.slot = s
    BY Zenon, <1>4
  <2>2. g[s] = CHOOSE a \in mine : a.slot = s
    BY Zenon
  <2> QED BY Zenon, <2>1, <2>2
<1>9. g \in [c.used -> mine]
  BY Zenon, <1>8
<1> HIDE DEF g
<1>10. ExistsBijection(c.used, mine)
  <2>0. \A s, t \in c.used : g[s] = g[t] => s = t
    BY <1>8
  <2>1. g \in Injection(c.used, mine)
    BY Zenon, <1>9, <2>0 DEF Injection, IsInjective
  <2>2. \A a \in mine : \E s \in c.used : g[s] = a
    <3> SUFFICES ASSUME NEW a \in mine PROVE \E s \in c.used : g[s] = a
      BY Zenon
    <3>1. a.slot \in c.used
      BY Zenon, <1>3
    <3>2. g[a.slot] \in mine /\ g[a.slot].slot = a.slot
      BY Zenon, <1>8, <3>1
    <3>3. g[a.slot] = a
      BY Zenon, <1>5, <3>2
    <3> QED BY Zenon, <3>1, <3>3
  <2>3. g \in Surjection(c.used, mine)
    BY Zenon, <1>9, <2>2 DEF Surjection
  <2> QED BY Zenon, <2>1, <2>3 DEF Bijection, ExistsBijection
<1>11. Cardinality(mine) = Cardinality(c.used)
  BY Zenon, <1>7, <1>10, FS_Bijection
<1>12. \A a \in mine : a.bytes <= z
  BY Zenon, <1>1, <1>2 DEF LiveTypes
<1> QED BY Zenon, <1>6, <1>11, <1>12 DEF mine

(* What the invariant says about lists is what is promised to the callers. *)
LEMMA InvConsistent == CacheInv => CacheConsistent
<1> SUFFICES ASSUME CacheInv PROVE CacheConsistent
  OBVIOUS
<1>1. ListsOk(AllLists, cache_word, cache_live) /\ NoneEmpty(AllLists)
  BY DEF CacheInv
<1>2. \A z \in Classes : AllLists[z] = cache[z].list
  BY Zenon DEF AllLists
<1>3. CacheSlotsMatch
  <2>1. ASSUME NEW z \in Classes, NEW j \in DOMAIN cache[z].list
        PROVE  LET c == cache[z].list[j]
                   mine == {a \in cache_live : a.kind = "cache" /\ a.unit - (a.unit % UnitsOf(z)) = c.unit /\ a.size = z}
               IN /\ c.used = {a.slot : a \in mine} /\ c.used # {}
                  /\ Cardinality(mine) = Cardinality(c.used)
                  /\ \A a \in mine : a.bytes <= z
    <3> DEFINE c == cache[z].list[j]
               mine == {a \in cache_live : a.kind = "cache" /\ a.unit - (a.unit % UnitsOf(z)) = c.unit /\ a.size = z}
    <3>1. j \in DOMAIN AllLists[z] /\ AllLists[z][j] = c /\ c.used # {}
      BY Zenon, <1>1, <1>2 DEF NoneEmpty
    <3>2. mine = Mine(AllLists, cache_live, z, j)
      BY Zenon, <3>1 DEF Mine
    <3> HIDE DEF mine
    <3>3. /\ AllLists[z][j].used = {a.slot : a \in mine}
          /\ Cardinality(mine) = Cardinality(AllLists[z][j].used)
          /\ \A a \in mine : a.bytes <= z
      <4> DEFINE ls == AllLists
      <4>1. ListsOk(ls, cache_word, cache_live) /\ j \in DOMAIN ls[z]
        BY Zenon, <1>1, <3>1
      <4>2. mine = Mine(ls, cache_live, z, j)
        BY Zenon, <3>2
      <4> HIDE DEF ls
      <4>3. /\ ls[z][j].used = {a.slot : a \in Mine(ls, cache_live, z, j)}
            /\ Cardinality(Mine(ls, cache_live, z, j)) = Cardinality(ls[z][j].used)
            /\ \A a \in Mine(ls, cache_live, z, j) : a.bytes <= z
        BY Zenon, <4>1, SlotsMatch
      <4> QED BY Zenon, <4>2, <4>3 DEF ls
    <3>4. /\ c.used = {a.slot : a \in mine} /\ c.used # {}
          /\ Cardinality(mine) = Cardinality(c.used)
          /\ \A a \in mine : a.bytes <= z
      BY Zenon, <3>1, <3>3
    <3> QED BY Zenon, <3>4 DEF mine
  <2> QED BY Zenon, <2>1 DEF CacheSlotsMatch
<1>4. CacheHintIsFree
  <2>1. ASSUME NEW z \in Classes
        PROVE  IF cache[z].hint = NoHint THEN \A j \in DOMAIN cache[z].list : EmptyFrom(z, cache[z].list[j], 0) = {}
               ELSE \E j \in DOMAIN cache[z].list :
                      cache[z].list[j].unit = cache[z].hint.unit /\ cache[z].hint.slot \notin cache[z].list[j].used
    BY Zenon DEF CacheInv, Hinted
  <2> QED BY Zenon, <2>1 DEF CacheHintIsFree
<1> QED BY Zenon, <1>3, <1>4 DEF CacheConsistent, CacheInv

(* kmalloc never hands out a slot twice, kfree never fails, and the hint   *)
(* names a free slot (cache_malloc.c), for any classes and any history.    *)
THEOREM CacheIsConsistent == CacheSpec => []CacheConsistent
BY CacheInvariant, InvConsistent, PTL
====
