-------------------------------- MODULE Kvec -------------------------------
(***************************************************************************)
(* The growing array of the kernel (lib/data_structures/kvec.c), used for  *)
(* printed text, expired events, threads to free and ranges to commit.     *)
(* Its container is a block of kmalloc whose size                          *)
(* is a power of two; it doubles when it is full, halves when no more than *)
(* a quarter of it is used, and is freed when the last element is popped.  *)
(* A new block holds arbitrary bytes: cells no element was written to are  *)
(* absent from the function that stands for it.                            *)
(***************************************************************************)
EXTENDS Naturals, SequencesExt

CONSTANTS KvecSizes,      \* element sizes, T_size_
          KvecMinItems,   \* MIN_VEC_ITEMS
          KvecMinOrder,   \* MIN_ORDER
          KvecMax         \* bound on the elements

VARIABLES kvec,           \* T_size_, container_bytes_, i_ and the container
          kvec_pushed,    \* the elements as a sequence
          kvec_panic      \* whether an ASSERT of downsize_vec failed

kvecVars == <<kvec, kvec_pushed, kvec_panic>>

NoContainer == <<>>

pow2_bytes_for(size, amount) ==
    2 ^ CHOOSE o \in KvecMinOrder .. KvecMinOrder + size * amount :
            /\ size * amount <= 2 ^ o
            /\ o = KvecMinOrder \/ size * amount > 2 ^ (o - 1)

ASSUME KvecAssumption ==
    /\ KvecSizes \subseteq Nat \ {0}
    /\ \A size \in KvecSizes : pow2_bytes_for(size, KvecMinItems) \in Nat

(* The first n elements, copied to a new block. *)
CopyOf(k, n) == [j \in 1 .. n |-> k.container[j]]

(* A bug: the copy leaves out the last element. *)
upsize_vecShort(k) ==
    LET bytes == IF k.bytes # 0 THEN k.bytes * 2 ELSE pow2_bytes_for(k.size, KvecMinItems)
    IN  [k EXCEPT !.bytes = bytes, !.container = CopyOf(k, IF k.i = 0 THEN 0 ELSE k.i - 1)]

upsize_vec(k) ==
    LET bytes == IF k.bytes # 0 THEN k.bytes * 2 ELSE pow2_bytes_for(k.size, KvecMinItems)
    IN  [k EXCEPT !.bytes = bytes, !.container = CopyOf(k, k.i)]

DownsizeFails(k) == k.i * k.size > k.bytes \div 2

downsize_vec(k) ==
    CASE k.i = 0 -> [k EXCEPT !.bytes = 0, !.container = NoContainer]
      [] k.i # 0 /\ k.bytes \div 2 < pow2_bytes_for(k.size, KvecMinItems) -> k
      [] OTHER -> [k EXCEPT !.bytes = @ \div 2, !.container = CopyOf(k, k.i)]

PushFits(k) == k.i * k.size + k.size <= k.bytes

kvec_push(v) ==
    /\ Len(kvec_pushed) < KvecMax /\ ~kvec_panic
    /\ LET k == IF PushFits(kvec) THEN kvec ELSE upsize_vec(kvec)
       IN  /\ kvec' = [k EXCEPT !.container = [j \in DOMAIN @ \cup {k.i + 1} |->
                                                  IF j = k.i + 1 THEN v ELSE k.container[j]],
                                !.i = @ + 1]
    /\ kvec_pushed' = Append(kvec_pushed, v)
    /\ UNCHANGED kvec_panic

DownsizeWanted(k) == k.i <= (k.bytes \div k.size) \div 4

kvec_pop ==
    /\ kvec.i # 0 /\ ~kvec_panic
    /\ LET k == [kvec EXCEPT !.i = @ - 1]
       IN  /\ kvec' = IF DownsizeWanted(k) /\ ~DownsizeFails(k) THEN downsize_vec(k) ELSE k
           /\ kvec_panic' = (DownsizeWanted(k) /\ DownsizeFails(k))
    /\ kvec_pushed' = Front(kvec_pushed)

kvec_set(i, v) ==
    /\ i \in 1 .. kvec.i /\ ~kvec_panic
    /\ kvec' = [kvec EXCEPT !.container[i] = v]
    /\ kvec_pushed' = [kvec_pushed EXCEPT ![i] = v]
    /\ UNCHANGED kvec_panic

KvecInit ==
    /\ kvec \in [size : KvecSizes, bytes : {0}, i : {0}, container : {NoContainer}]
    /\ kvec_pushed = <<>> /\ kvec_panic = FALSE

KvecNext == \/ \E v \in {0, 1} : kvec_push(v)
            \/ kvec_pop
            \/ \E i \in 1 .. KvecMax : kvec_set(i, 0)

KvecSpec == KvecInit /\ [][KvecNext]_kvecVars

---------------------------------------------------------------------------
(* Properties *)

(* The elements are those pushed, through every doubling and halving of    *)
(* the container (kvec.c).                                          *)
KvecKeepsElements ==
    /\ kvec.i = Len(kvec_pushed)
    /\ \A j \in 1 .. kvec.i : j \in DOMAIN kvec.container /\ kvec.container[j] = kvec_pushed[j]

(* The assertion of downsize_vec that what is left fits half of the        *)
(* container (kvec.c:66) never fails.                                      *)
KvecNoPanic == ~kvec_panic
=============================================================================
