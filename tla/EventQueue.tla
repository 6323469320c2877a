----------------------------- MODULE EventQueue -----------------------------
(***************************************************************************)
(* What the timer events of a clock promise (include/kernel/time.h): "It   *)
(* allows for virtual timer events (multiple events creation even if only  *)
(* one event is allowed from hardware side)".  An event added to the queue *)
(* is called back at most once, not before it expires and not before one   *)
(* that expires earlier; an event that is cancelled never is.  Timer is    *)
(* shown to implement this.                                                *)
(***************************************************************************)
EXTENDS Integers

CONSTANT Events    \* records with fields id and expires

VARIABLES queue,   \* the events that wait
          called,  \* the ids of the events that were called back
          now      \* the time of the clock

qvars == <<queue, called, now>>

QInit == queue = {} /\ called = {} /\ now = 0

Add == \E e \in Events : /\ e.id \notin called \cup {q.id : q \in queue}
                         /\ queue' = queue \cup {e}
                         /\ UNCHANGED <<called, now>>

Call == \E e \in queue : /\ e.expires <= now
                         /\ \A q \in queue : e.expires <= q.expires
                         /\ queue' = queue \ {e}
                         /\ called' = called \cup {e.id}
                         /\ UNCHANGED now

Drop == \E e \in queue : queue' = queue \ {e} /\ UNCHANGED <<called, now>>

Advance == now' >= now /\ UNCHANGED <<queue, called>>

QNext == Add \/ Call \/ Drop \/ Advance

QSpec == QInit /\ [][QNext]_qvars
=============================================================================
