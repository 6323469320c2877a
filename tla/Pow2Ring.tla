------------------------------ MODULE Pow2Ring -----------------------------
(***************************************************************************)
(* The ring buffer of power-of-two size (lib/buffer/pow2_ring.rs), as it   *)
(* is exported to C and as a Rust type, with and without overwriting.  One *)
(* slot always stays free, so that head = tail means empty.                *)
(***************************************************************************)
EXTENDS Naturals, SequencesExt

CONSTANTS RingSizes,      \* powers of two
          RingValues,
          RingOps         \* bound on the operations

(* new rejects a size that is not a power of two; the mask size - 1 is a   *)
(* remainder for these, and what follows needs no more than the remainder. *)
ASSUME RingAssumption == RingSizes \subseteq Nat \ {0} /\ RingOps \in Nat

VARIABLES ring,           \* size, overwrite, language, buf, head, tail
          ring_queue,     \* what a bounded queue would hold
          ring_last,      \* last result, and that of the bounded queue
          ring_ops

ringVars == <<ring, ring_queue, ring_last, ring_ops>>

(* i & mask(), mask() being size - 1 *)
Masked(i) == i % ring.size

RingEmpty == ring.head = ring.tail

RingFull == Masked(ring.head + 1) = ring.tail

Stored(v) == [ring EXCEPT !.buf[ring.head] = v, !.head = Masked(@ + 1)]

(* A bug: overwriting does not drop the oldest element. *)
StoredOverKeepsTail(v) == Stored(v)

(* The oldest element is dropped, and head moves over the free slot. *)
StoredOver(v) == [Stored(v) EXCEPT !.tail = Masked(@ + 1)]

(* The C version reports that nothing was overwritten, the Rust version    *)
(* that the value was stored.                                              *)
ringPush(v) ==
    /\ ring' = CASE ~RingFull -> Stored(v)
                 [] RingFull /\ ring.overwrite -> StoredOver(v)
                 [] OTHER -> ring
    /\ ring_last' = [code |-> IF ring.lang = "C" THEN ~RingFull ELSE ~RingFull \/ ring.overwrite,
                     queue |-> IF ring.lang = "C" THEN Len(ring_queue) < ring.size - 1
                               ELSE Len(ring_queue) < ring.size - 1 \/ ring.overwrite]
    /\ ring_queue' = IF Len(ring_queue) < ring.size - 1 THEN Append(ring_queue, v)
                     ELSE IF ring.overwrite THEN Tail(Append(ring_queue, v)) ELSE ring_queue

ringPop ==
    /\ ring' = IF RingEmpty THEN ring ELSE [ring EXCEPT !.tail = Masked(@ + 1)]
    /\ ring_last' = [code |-> IF RingEmpty THEN "none" ELSE <<ring.buf[ring.tail]>>,
                     queue |-> IF ring_queue = <<>> THEN "none" ELSE <<Head(ring_queue)>>]
    /\ ring_queue' = IF ring_queue = <<>> THEN ring_queue ELSE Tail(ring_queue)

RingInit ==
    /\ \E n \in RingSizes :
          ring \in [size : {n}, overwrite : BOOLEAN, lang : {"C", "Rust"},
                    buf : {[i \in 0 .. n - 1 |-> 0]}, head : {0}, tail : {0}]
    /\ ring_queue = <<>> /\ ring_ops = 0
    /\ ring_last = [code |-> "none", queue |-> "none"]

RingNext ==
    /\ ring_ops < RingOps
    /\ ring_ops' = ring_ops + 1
    /\ ringPop \/ \E v \in RingValues : ringPush(v)

RingSpec == RingInit /\ [][RingNext]_ringVars

---------------------------------------------------------------------------
(* Properties *)

(* The ring holds, from tail to head, what a queue of at most size - 1     *)
(* elements would hold, and push and pop answer what that queue would, for *)
(* every size from 1 on and in both languages (pow2_ring.rs).              *)
RingIsQueue ==
    /\ ring_queue = [i \in 1 .. Masked(ring.head + ring.size - ring.tail) |-> ring.buf[Masked(ring.tail + i - 1)]]
    /\ ring_last.code = ring_last.queue
=============================================================================
