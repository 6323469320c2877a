----------------------------- MODULE TimerProofs -----------------------------
(***************************************************************************)
(* Proofs about Timer: creating an event with interrupts masked finds a    *)
(* head to set the timer for, timer_cancel_event finds its event, and the  *)
(* list with the interrupt handler implements EventQueue, for every clock  *)
(* rate, set of delays and bound on ticks and events.                      *)
(***************************************************************************)
EXTENDS Timer, TLAPS

(* A list in which the node e was put behind the first i events, and one   *)
(* without its event at place i.                                           *)
With(s, e, i) == SubSeq(s, 1, i) \o <<e>> \o SubSeq(s, i + 1, Len(s))
Less(s, i) == SubSeq(s, 1, i - 1) \o SubSeq(s, i + 1, Len(s))

(* The events of a list; a list sorted by expiry, with no id twice. *)
Elems(s) == {s[i] : i \in DOMAIN s}
Sorted(s) == \A i, j \in DOMAIN s : i < j => s[i].expires <= s[j].expires
Distinct(s) == \A i, j \in DOMAIN s : i # j => s[i].id # s[j].id

(* Types. *)
Times == 0 .. TickToNs(MaxTick)
Nodes == [id : 0 .. MaxNodes, kind : Kinds, expires : Times]

TimerTypes ==
    /\ tick \in 0 .. MaxTick
    /\ events \in Seq(Nodes) /\ expired \in Seq(Nodes) /\ node \in Nodes
    /\ uid \in Nat \ {0} /\ prehandle \in 0 .. MaxNodes
    /\ fired \subseteq 1 .. MaxNodes

(* handle_events walks the list from its head and stops at the first event *)
(* that is not due: right only if the list is sorted.  What it took off    *)
(* goes before what it left.                                               *)
InOrder ==
    /\ Sorted(events) /\ Sorted(expired)
    /\ \A x \in Elems(expired) : x.expires <= ClockNow
    /\ \A x \in Elems(expired), y \in Elems(events) : x.expires <= y.expires

(* An id names one event, which was not called back yet; the node that is  *)
(* about to be inserted has one that no event has.                         *)
OneId ==
    /\ Distinct(events) /\ Distinct(expired)
    /\ \A x \in Elems(expired), y \in Elems(events) : x.id # y.id
    /\ \A x \in Elems(events) \cup Elems(expired) : 0 < x.id /\ x.id < uid /\ x.id \notin fired
    /\ \A n \in fired : n < uid
    /\ at = "insert" =>
         /\ 0 < node.id /\ node.id < uid /\ node.id \notin fired
         /\ \A x \in Elems(events) \cup Elems(expired) : x.id # node.id

(* runqueue.preemptive_event names an event of the scheduler that is       *)
(* waiting, or that the handler is about to call.                          *)
HandleWaits ==
    prehandle # 0 => \E x \in Elems(events) \cup Elems(expired) : x.id = prehandle /\ x.kind = "preempt"

(* The scheduler creates with interrupts masked: between the insertion and *)
(* the end of the creation its node stays in the list.                     *)
Masking ==
    /\ irqat = "none" => expired = <<>>
    /\ irqat # "none" => Unmasked
    /\ at \in {"check", "arm", "notify"} /\ node.kind = "preempt" => node \in Elems(events)
    /\ at \in {"test", "wfi", "waiting"} => node.kind = "sleep"

(* The kernel stops for want of a head only, and only in ksleep. *)
Crashes ==
    /\ crash \in {NoCrash, "no_head"}
    /\ MaskedCreateIsSafe
    /\ crash # NoCrash => irqat = "none"

(* The inductive invariant. *)
TimerInv == TimerTypes /\ InOrder /\ OneId /\ HandleWaits /\ Masking /\ Crashes

---------------------------------------------------------------------------
(* What insertion into the list puts where. *)
LEMMA WithProperties ==
    ASSUME NEW S, NEW s \in Seq(S), NEW e \in S, NEW i \in 0 .. Len(s)
    PROVE  /\ With(s, e, i) \in Seq(S)
           /\ Len(With(s, e, i)) = Len(s) + 1
           /\ \A j \in 1 .. (Len(s) + 1) :
                With(s, e, i)[j] = IF j <= i THEN s[j] ELSE IF j = i + 1 THEN e ELSE s[j - 1]
<1> DEFINE a == SubSeq(s, 1, i)
           b == SubSeq(s, i + 1, Len(s))
           c == a \o <<e>>
<1>1. a \in Seq(S) /\ Len(a) = i /\ \A j \in 1 .. i : a[j] = s[j]
  OBVIOUS
<1>2. b \in Seq(S) /\ Len(b) = Len(s) - i /\ \A j \in 1 .. (Len(s) - i) : b[j] = s[j + i]
  OBVIOUS
<1> HIDE DEF a, b
<1>3. c \in Seq(S) /\ Len(c) = i + 1 /\ \A j \in 1 .. (i + 1) : c[j] = IF j <= i THEN s[j] ELSE e
  BY <1>1
<1> HIDE DEF c
<1> DEFINE r == With(s, e, i)
<1>4. r = c \o b
  BY DEF With, a, b, c
<1> HIDE DEF r
<1>5. r \in Seq(S) /\ Len(r) = Len(s) + 1
  <2>1. c \in Seq(S) /\ b \in Seq(S)
    BY <1>2, <1>3
  <2>2. r \in Seq(S) /\ Len(r) = Len(c) + Len(b)
    BY ONLY <2>1, <1>4
  <2> QED BY <1>2, <1>3, <2>2
<1>6. \A j \in 1 .. (Len(s) + 1) : r[j] = IF j <= i + 1 THEN c[j] ELSE b[j - (i + 1)]
  BY SMTT(30), <1>2, <1>3, <1>4, <1>5
<1>7. \A j \in 1 .. (Len(s) + 1) : r[j] = IF j <= i THEN s[j] ELSE IF j = i + 1 THEN e ELSE s[j - 1]
  <2> TAKE j \in 1 .. (Len(s) + 1)
  <2>1. CASE j <= i + 1
    <3>1. r[j] = c[j]
      BY <1>6, <2>1
    <3> QED BY <1>3, <2>1, <3>1
  <2>2. CASE j > i + 1
    <3>1. r[j] = b[j - (i + 1)]
      BY <1>6, <2>2
    <3>2. j - (i + 1) \in 1 .. (Len(s) - i) /\ (j - (i + 1)) + i = j - 1
      BY <2>2
    <3> QED BY SMTT(30), <1>2, <2>2, <3>1, <3>2
  <2> QED BY <2>1, <2>2
<1> QED BY <1>5, <1>7 DEF r

(* What removal from the list leaves where. *)
LEMMA LessProperties ==
    ASSUME NEW S, NEW s \in Seq(S), NEW i \in DOMAIN s
    PROVE  /\ Less(s, i) \in Seq(S)
           /\ Len(Less(s, i)) = Len(s) - 1
           /\ \A j \in 1 .. (Len(s) - 1) : Less(s, i)[j] = IF j < i THEN s[j] ELSE s[j + 1]
<1> DEFINE a == SubSeq(s, 1, i - 1)
           b == SubSeq(s, i + 1, Len(s))
<1>1. a \in Seq(S) /\ Len(a) = i - 1 /\ \A j \in 1 .. (i - 1) : a[j] = s[j]
  OBVIOUS
<1>2. b \in Seq(S) /\ Len(b) = Len(s) - i /\ \A j \in 1 .. (Len(s) - i) : b[j] = s[j + i]
  OBVIOUS
<1> HIDE DEF a, b
<1> DEFINE r == Less(s, i)
<1>3. r = a \o b
  BY DEF Less, a, b
<1> HIDE DEF r
<1>4. r \in Seq(S) /\ Len(r) = Len(s) - 1
  <2>1. a \in Seq(S) /\ b \in Seq(S)
    BY <1>1, <1>2
  <2>2. r \in Seq(S) /\ Len(r) = Len(a) + Len(b)
    BY ONLY <2>1, <1>3
  <2> QED BY <1>1, <1>2, <2>2
<1>5. \A j \in 1 .. (Len(s) - 1) : r[j] = IF j <= i - 1 THEN a[j] ELSE b[j - (i - 1)]
  BY SMTT(30), <1>1, <1>2, <1>3, <1>4
<1>6. \A j \in 1 .. (Len(s) - 1) : r[j] = IF j < i THEN s[j] ELSE s[j + 1]
  <2> TAKE j \in 1 .. (Len(s) - 1)
  <2>1. CASE j < i
    <3>1. r[j] = a[j]
      BY <1>5, <2>1
    <3> QED BY <1>1, <2>1, <3>1
  <2>2. CASE j >= i
    <3>1. r[j] = b[j - (i - 1)]
      BY <1>5, <2>2
    <3>2. j - (i - 1) \in 1 .. (Len(s) - i) /\ (j - (i - 1)) + i = j + 1
      BY <2>2
    <3> QED BY <1>2, <2>2, <3>1, <3>2
  <2> QED BY <2>1, <2>2
<1> QED BY <1>4, <1>6 DEF r

(* The fields of an event. *)
LEMMA NodeTypes ==
    ASSUME NEW x \in Nodes
    PROVE  x.id \in Nat /\ x.expires \in Nat /\ x.id \in 0 .. MaxNodes /\ x.expires \in Times
BY TimerAssumption DEF Nodes, Times

(* Inserting behind the last event that does not expire later keeps the    *)
(* list sorted, although the walk looks at one neighbour only.             *)
LEMMA InsertSorts ==
    ASSUME NEW s \in Seq(Nodes), NEW e \in Nodes, NEW i \in 0 .. Len(s), Sorted(s),
           \A j \in 1 .. i : s[j].expires <= e.expires,
           i < Len(s) => s[i + 1].expires > e.expires
    PROVE  Sorted(With(s, e, i))
<1> DEFINE r == With(s, e, i)
<1>1. /\ r \in Seq(Nodes) /\ Len(r) = Len(s) + 1
      /\ \A j \in 1 .. Len(s) + 1 : r[j] = IF j <= i THEN s[j] ELSE IF j = i + 1 THEN e ELSE s[j - 1]
  BY WithProperties
<1> HIDE DEF r
<1>2. \A j \in DOMAIN s : s[j].expires \in Nat /\ (j > i => e.expires <= s[j].expires)
  <2>1. \A j \in DOMAIN s : s[j].expires \in Nat
    BY NodeTypes
  <2>2. e.expires \in Nat
    BY NodeTypes
  <2> QED BY SMTT(30), <2>1, <2>2 DEF Sorted
<1>3. SUFFICES ASSUME NEW p \in 1 .. Len(r), NEW q \in 1 .. Len(r), p < q
               PROVE  r[p].expires <= r[q].expires
  BY <1>1 DEF Sorted, r
<1>4. e.expires \in Nat
  BY NodeTypes
<1>5. CASE q <= i
  BY <1>1, <1>3, <1>5 DEF Sorted
<1>6. CASE q = i + 1
  BY SMTT(30), <1>1, <1>3, <1>6
<1>7. CASE q > i + 1
  <2>1. r[q] = s[q - 1] /\ q - 1 \in DOMAIN s /\ q - 1 > i
    BY <1>1, <1>7
  <2>2. CASE p = i + 1
    <3>1. r[p] = e
      BY <1>1, <2>2
    <3> QED BY <1>2, <2>1, <3>1
  <2>3. CASE p <= i
    <3>1. r[p] = s[p] /\ p \in DOMAIN s /\ p < q - 1
      BY <1>1, <1>7, <2>3
    <3> QED BY <2>1, <3>1 DEF Sorted
  <2>4. CASE p > i + 1
    <3>1. r[p] = s[p - 1] /\ p - 1 \in DOMAIN s /\ p - 1 < q - 1
      BY <1>1, <1>3, <2>4
    <3> QED BY <2>1, <3>1 DEF Sorted
  <2> QED BY <2>2, <2>3, <2>4
<1> QED BY <1>1, <1>5, <1>6, <1>7

(* Insertion adds the node and nothing else; ids stay apart. *)
LEMMA InsertElems ==
    ASSUME NEW s \in Seq(Nodes), NEW e \in Nodes, NEW i \in 0 .. Len(s)
    PROVE  /\ Elems(With(s, e, i)) = Elems(s) \cup {e}
           /\ Distinct(s) /\ (\A x \in Elems(s) : x.id # e.id) => Distinct(With(s, e, i))
<1> DEFINE r == With(s, e, i)
           f(j) == IF j <= i THEN j ELSE j - 1
<1>1. /\ r \in Seq(Nodes) /\ Len(r) = Len(s) + 1
      /\ \A j \in 1 .. Len(s) + 1 : r[j] = IF j <= i THEN s[j] ELSE IF j = i + 1 THEN e ELSE s[j - 1]
  BY WithProperties
<1> HIDE DEF r
<1>2. \A j \in DOMAIN r : j # i + 1 => f(j) \in DOMAIN s /\ r[j] = s[f(j)]
  BY <1>1
<1>3. r[i + 1] = e /\ i + 1 \in DOMAIN r
  BY <1>1
<1>4. \A j \in DOMAIN s : \E k \in DOMAIN r : r[k] = s[j]
  <2> TAKE j \in DOMAIN s
  <2>1. CASE j <= i
    <3>1. j \in DOMAIN r /\ r[j] = s[j]
      BY <1>1, <2>1
    <3> QED BY <3>1
  <2>2. CASE j > i
    <3>1. j + 1 \in DOMAIN r /\ r[j + 1] = s[j]
      BY <1>1, <2>2
    <3> QED BY <3>1
  <2> QED BY <2>1, <2>2
<1>5. Elems(r) = Elems(s) \cup {e}
  BY <1>2, <1>3, <1>4 DEF Elems
<1>6. ASSUME Distinct(s), \A x \in Elems(s) : x.id # e.id PROVE Distinct(r)
  <2>1. SUFFICES ASSUME NEW p \in DOMAIN r, NEW q \in DOMAIN r, p # q PROVE r[p].id # r[q].id
    BY DEF Distinct
  <2>2. CASE p = i + 1
    BY <1>2, <1>3, <1>6, <2>1, <2>2 DEF Elems
  <2>3. CASE q = i + 1
    BY <1>2, <1>3, <1>6, <2>1, <2>3 DEF Elems
  <2>4. CASE p # i + 1 /\ q # i + 1
    <3>1. f(p) # f(q)
      BY <1>1, <2>1, <2>4
    <3> QED BY <1>2, <1>6, <2>1, <2>4, <3>1 DEF Distinct
  <2> QED BY <2>2, <2>3, <2>4
<1> QED BY <1>5, <1>6 DEF r

(* Removal takes one event out and keeps the order of the others. *)
LEMMA RemoveElems ==
    ASSUME NEW s \in Seq(Nodes), NEW i \in DOMAIN s, Distinct(s)
    PROVE  /\ Elems(Less(s, i)) = Elems(s) \ {s[i]}
           /\ Distinct(Less(s, i))
           /\ Sorted(s) => Sorted(Less(s, i))
<1> DEFINE r == Less(s, i)
           f(j) == IF j < i THEN j ELSE j + 1
<1>1. /\ r \in Seq(Nodes) /\ Len(r) = Len(s) - 1
      /\ \A j \in 1 .. (Len(s) - 1) : r[j] = IF j < i THEN s[j] ELSE s[j + 1]
  BY LessProperties
<1> HIDE DEF r
<1>2. \A j \in DOMAIN r : f(j) \in DOMAIN s /\ f(j) # i /\ r[j] = s[f(j)]
  BY <1>1
<1>3. \A j \in DOMAIN s : j # i => \E k \in DOMAIN r : r[k] = s[j]
  <2> TAKE j \in DOMAIN s
  <2>1. CASE j < i
    BY <1>1, <2>1
  <2>2. CASE j > i
    <3>1. j - 1 \in DOMAIN r /\ r[j - 1] = s[j]
      BY <1>1, <2>2
    <3> QED BY <3>1
  <2> QED BY <2>1, <2>2
<1>4. \A j \in DOMAIN s : j # i => s[j] # s[i]
  BY DEF Distinct
<1>5. Elems(r) = Elems(s) \ {s[i]}
  BY <1>2, <1>3, <1>4 DEF Elems
<1>6. \A p, q \in DOMAIN r : p < q => f(p) < f(q)
  BY <1>1
<1>7. \A p, q \in DOMAIN r : p # q => f(p) # f(q)
  BY <1>1
<1>8. Distinct(r)
  BY <1>2, <1>7 DEF Distinct
<1>9. Sorted(s) => Sorted(r)
  BY <1>2, <1>6 DEF Sorted
<1> QED BY <1>5, <1>8, <1>9 DEF r

(* The head of a sorted list expires first; taking it leaves the others. *)
LEMMA HeadElems ==
    ASSUME NEW s \in Seq(Nodes), s # <<>>, Distinct(s), Sorted(s)
    PROVE  /\ Tail(s) \in Seq(Nodes) /\ Head(s) \in Nodes /\ Head(s) \in Elems(s)
           /\ Elems(Tail(s)) = Elems(s) \ {Head(s)}
           /\ Distinct(Tail(s)) /\ Sorted(Tail(s))
           /\ \A x \in Elems(s) : Head(s).expires <= x.expires
           /\ \A x \in Elems(s) : x # Head(s) => x.id # Head(s).id
<1> DEFINE r == Tail(s)
<1>1. /\ r \in Seq(Nodes) /\ Len(r) = Len(s) - 1 /\ Len(s) > 0 /\ Head(s) = s[1]
      /\ \A j \in 1 .. (Len(s) - 1) : r[j] = s[j + 1]
  OBVIOUS
<1>2. Head(s) \in Nodes /\ Head(s) \in Elems(s)
  BY <1>1 DEF Elems
<1> HIDE DEF r
<1>3. \A j \in DOMAIN s : j # 1 => j - 1 \in DOMAIN r /\ r[j - 1] = s[j]
  BY <1>1
<1>4. \A j \in DOMAIN r : j + 1 \in DOMAIN s /\ j + 1 # 1 /\ r[j] = s[j + 1]
  BY <1>1
<1>5. \A j \in DOMAIN s : j # 1 => s[j] # s[1] /\ s[j].id # s[1].id
  BY <1>1 DEF Distinct
<1>6. Elems(r) = Elems(s) \ {s[1]}
  BY <1>1, <1>3, <1>4, <1>5 DEF Elems
<1>7. Distinct(r)
  BY <1>1, <1>4 DEF Distinct
<1>8. Sorted(r)
  <2>1. SUFFICES ASSUME NEW p \in DOMAIN r, NEW q \in DOMAIN r, p < q
                 PROVE  r[p].expires <= r[q].expires
    BY DEF Sorted
  <2>2. p + 1 < q + 1
    BY <1>1, <2>1
  <2> QED BY <1>4, <2>1, <2>2 DEF Sorted
<1>9. \A x \in Elems(s) : s[1].expires <= x.expires
  <2>1. s[1].expires \in Nat
    BY <1>1, NodeTypes
  <2>2. \A j \in DOMAIN s : s[1].expires <= s[j].expires
    BY SMTT(30), <1>1, <2>1 DEF Sorted
  <2> QED BY <2>2 DEF Elems
<1>10. \A x \in Elems(s) : x # s[1] => x.id # s[1].id
  BY <1>5 DEF Elems
<1> QED BY <1>1, <1>2, <1>6, <1>7, <1>8, <1>9, <1>10 DEF r

(* The event put behind those to be called keeps their order. *)
LEMMA AppendElems ==
    ASSUME NEW s \in Seq(Nodes), NEW e \in Nodes, Distinct(s), Sorted(s),
           \A x \in Elems(s) : x.id # e.id /\ x.expires <= e.expires
    PROVE  /\ Append(s, e) \in Seq(Nodes)
           /\ Elems(Append(s, e)) = Elems(s) \cup {e}
           /\ Distinct(Append(s, e)) /\ Sorted(Append(s, e))
<1> DEFINE r == Append(s, e)
<1>1. /\ r \in Seq(Nodes) /\ Len(r) = Len(s) + 1
      /\ \A j \in 1 .. Len(s) : r[j] = s[j]
      /\ r[Len(s) + 1] = e
  OBVIOUS
<1> HIDE DEF r
<1>2. \A j \in DOMAIN r : (j \in DOMAIN s /\ r[j] = s[j]) \/ (j = Len(s) + 1 /\ r[j] = e)
  BY <1>1
<1>3. \A j \in DOMAIN s : j \in DOMAIN r /\ r[j] = s[j]
  BY <1>1
<1>4. Elems(r) = Elems(s) \cup {e}
  <2>1. Len(s) + 1 \in DOMAIN r
    BY <1>1
  <2> QED BY <1>1, <1>2, <1>3, <2>1 DEF Elems
<1>5. \A j \in DOMAIN s : s[j].id # e.id /\ s[j].expires <= e.expires
  BY DEF Elems
<1>6. Distinct(r)
  BY <1>1, <1>2, <1>5 DEF Distinct
<1>7. Sorted(r)
  BY <1>1, <1>2, <1>5 DEF Sorted
<1> QED BY <1>1, <1>4, <1>6, <1>7 DEF r

(* tick_to_ns rounds down, and yet never goes back. *)
LEMMA ClockGoes ==
    ASSUME NEW t \in Nat
    PROVE  TickToNs(t) \in Nat /\ TickToNs(t) <= TickToNs(t + 1)
<1> DEFINE P == 2 ^ Shift
           x == t * Mult
<1>1. P \in Nat \ {0} /\ Mult \in Nat
  BY TimerAssumption
<1>2. x \in Nat /\ (t + 1) * Mult = x + Mult
  BY <1>1
<1> HIDE DEF P, x
<1>3. x \div P \in Nat /\ x \div P <= (x + Mult) \div P
  BY <1>1, <1>2
<1> QED BY <1>2, <1>3 DEF TickToNs, P, x

---------------------------------------------------------------------------
(* The steps *)

(* A clock starts with an empty list. *)
LEMMA TimerInitInv == ASSUME TimerInit PROVE TimerInv
<1>1. TickToNs(0) \in Nat /\ ClockNow \in Nat
  BY ClockGoes DEF TimerInit, ClockNow
<1>2. Elems(<<>>) = {} /\ Sorted(<<>>) /\ Distinct(<<>>)
  BY DEF Elems, Sorted, Distinct
<1>3. TickToNs(MaxTick) \in Nat
  BY ClockGoes, TimerAssumption
<1>4. TimerTypes
  BY <1>3, TimerAssumption DEF TimerInit, TimerTypes, Nodes, Times, NoNode, Kinds
<1>5. InOrder /\ OneId /\ HandleWaits
  BY <1>2 DEF TimerInit, InOrder, OneId, HandleWaits
<1>6. Masking /\ Crashes
  BY DEF TimerInit, Masking, Crashes, MaskedCreateIsSafe, NoCrash
<1> QED BY <1>4, <1>5, <1>6 DEF TimerInv

(* timer_create_event: the new id is larger than every other. *)
LEMMA CreateInv ==
    ASSUME TimerInv, NEW k \in Kinds, NEW d \in Delays, Create(k, d)
    PROVE  TimerInv'
<1> USE DEF TimerInv
<1>1. /\ at = "idle" /\ at' = "insert" /\ irqat = "none" /\ crash = NoCrash
      /\ uid <= MaxNodes /\ ClockNow + d <= TickToNs(MaxTick)
      /\ node' = [id |-> uid, kind |-> k, expires |-> ClockNow + d] /\ uid' = uid + 1
      /\ UNCHANGED <<tick, events, prehandle, irqat, expired, fired, crash>>
  BY DEF Create, Main
<1>2. ClockNow \in Nat /\ d \in Nat /\ TickToNs(MaxTick) \in Nat
  <2>1. tick \in Nat /\ MaxTick \in Nat /\ d \in Nat
    BY TimerAssumption DEF TimerTypes
  <2> QED BY <2>1, ClockGoes DEF ClockNow
<1>3. node' \in Nodes
  BY <1>1, <1>2 DEF TimerTypes, Nodes, Times
<1>4. TimerTypes'
  BY <1>1, <1>3 DEF TimerTypes
<1>5. InOrder'
  BY <1>1 DEF InOrder, ClockNow
<1>6. OneId'
  <2>1. /\ \A x \in Elems(events) \cup Elems(expired) : x.id \in Nat /\ 0 < x.id /\ x.id < uid /\ x.id \notin fired
        /\ \A n \in fired : n < uid /\ n \in Nat
    BY SMTT(30), NodeTypes DEF OneId, TimerTypes, Elems
  <2>2. node'.id = uid /\ uid \in Nat \ {0}
    BY <1>1 DEF TimerTypes
  <2>3. /\ \A x \in Elems(events') \cup Elems(expired') : 0 < x.id /\ x.id < uid' /\ x.id \notin fired'
        /\ \A n \in fired' : n < uid'
    BY <1>1, <2>1, <2>2
  <2>4. /\ 0 < node'.id /\ node'.id < uid' /\ node'.id \notin fired'
        /\ \A x \in Elems(events') \cup Elems(expired') : x.id # node'.id
    BY <1>1, <2>1, <2>2
  <2> QED BY <1>1, <2>3, <2>4 DEF OneId
<1>7. HandleWaits'
  BY <1>1 DEF HandleWaits
<1>8. Masking' /\ Crashes'
  BY <1>1 DEF Masking, Crashes, MaskedCreateIsSafe, Unmasked
<1> QED BY <1>4, <1>5, <1>6, <1>7, <1>8

(* The insertion into the list keeps it sorted and the ids apart. *)
LEMMA InsertInv == ASSUME TimerInv, Insert PROVE TimerInv'
<1> USE DEF TimerInv
<1>1. /\ at = "insert" /\ at' = "check" /\ irqat = "none" /\ crash = NoCrash
      /\ UNCHANGED <<tick, node, uid, prehandle, irqat, expired, fired, crash>>
  BY DEF Insert, Main
<1>2. PICK i \in 0 .. Len(events) : Passes(node, i) /\ events' = With(events, node, i)
  BY Zenon DEF Insert, With
<1>3. events \in Seq(Nodes) /\ node \in Nodes /\ expired = <<>>
  BY <1>1 DEF TimerTypes, Masking
<1>4. events' \in Seq(Nodes)
  BY <1>2, <1>3, WithProperties
<1>5. Sorted(events')
  BY <1>2, <1>3, InsertSorts DEF Passes, InOrder
<1>6. Elems(events') = Elems(events) \cup {node} /\ Distinct(events')
  BY <1>1, <1>2, <1>3, InsertElems DEF OneId
<1>7. Elems(expired) = {}
  BY <1>3 DEF Elems
<1>8. TimerTypes'
  BY <1>1, <1>4 DEF TimerTypes
<1>9. InOrder'
  BY <1>1, <1>5, <1>7 DEF InOrder
<1>10. OneId'
  BY <1>1, <1>6, <1>7 DEF OneId
<1>11. HandleWaits'
  BY <1>1, <1>6 DEF HandleWaits
<1>12. Masking' /\ Crashes'
  BY <1>1, <1>6 DEF Masking, Crashes, MaskedCreateIsSafe, Unmasked
<1> QED BY <1>8, <1>9, <1>10, <1>11, <1>12

(* Steps that leave both lists and the node alone. *)
LEMMA ListsKept ==
    ASSUME TimerInv, UNCHANGED <<tick, events, node, uid, expired, fired>>, at' # "insert"
    PROVE  InOrder' /\ OneId' /\ (prehandle' = prehandle => TimerTypes' /\ HandleWaits')
<1> USE DEF TimerInv
<1>1. InOrder' /\ OneId'
  BY DEF InOrder, OneId, ClockNow
<1>2. prehandle' = prehandle => TimerTypes' /\ HandleWaits'
  BY DEF TimerTypes, HandleWaits
<1> QED BY <1>1, <1>2

(* The end of a creation: the scheduler keeps an id that is waiting. *)
LEMMA CreatedInv ==
    ASSUME TimerInv, Created, at \in {"check", "notify"},
           irqat = "none", crash = NoCrash,
           UNCHANGED <<tick, events, node, uid, irqat, expired, fired, crash>>
    PROVE  TimerInv'
<1> USE DEF TimerInv
<1>1. at' # "insert"
  BY DEF Created
<1>2. InOrder' /\ OneId' /\ (prehandle' = prehandle => TimerTypes' /\ HandleWaits')
  BY <1>1, ListsKept
<1>3. CASE node.kind = "sleep"
  BY <1>2, <1>3 DEF Created, Masking, Crashes, MaskedCreateIsSafe, Unmasked
<1>4. CASE node.kind = "preempt"
  <2>1. prehandle' = node.id /\ at' = "idle" /\ node \in Elems(events)
    BY <1>4 DEF Created, Masking
  <2>2. node.id \in 0 .. MaxNodes
    BY NodeTypes DEF TimerTypes
  <2>3. TimerTypes'
    BY <2>1, <2>2 DEF TimerTypes
  <2>4. HandleWaits'
    BY <1>4, <2>1 DEF HandleWaits
  <2>5. Masking' /\ Crashes'
    BY <1>4, <2>1 DEF Masking, Crashes, MaskedCreateIsSafe, Unmasked
  <2> QED BY <1>2, <2>3, <2>4, <2>5
<1>5. node.kind \in Kinds
  BY DEF TimerTypes, Nodes
<1> QED BY <1>3, <1>4, <1>5 DEF Kinds

(* The test for the head of the list. *)
LEMMA CheckHeadInv == ASSUME TimerInv, CheckHead PROVE TimerInv'
<1> USE DEF TimerInv
<1>1. /\ at = "check" /\ irqat = "none" /\ crash = NoCrash
      /\ UNCHANGED <<tick, events, node, uid, irqat, expired, fired, crash>>
  BY DEF CheckHead
<1>2. CASE Created
  BY <1>1, <1>2, CreatedInv
<1>3. CASE at' = "arm" /\ UNCHANGED prehandle
  <2>1. InOrder' /\ OneId' /\ TimerTypes' /\ HandleWaits'
    BY <1>1, <1>3, ListsKept
  <2> QED BY <1>1, <1>3, <2>1 DEF Masking, Crashes, MaskedCreateIsSafe, Unmasked
<1> QED BY <1>2, <1>3 DEF CheckHead

(* setup_head_timer: with interrupts masked the list still has the node. *)
LEMMA ArmInv == ASSUME TimerInv, Arm PROVE TimerInv'
<1> USE DEF TimerInv
<1>1. /\ at = "arm" /\ at' = "notify" /\ irqat = "none" /\ crash = NoCrash
      /\ UNCHANGED <<tick, events, node, uid, prehandle, irqat, expired, fired>>
      /\ crash' = IF events = <<>> THEN "no_head" ELSE crash
  BY DEF Arm, Main
<1>2. InOrder' /\ OneId' /\ TimerTypes' /\ HandleWaits'
  BY <1>1, ListsKept
<1>3. node.kind = "preempt" => events # <<>>
  BY <1>1 DEF Masking, Elems
<1>4. node.kind \in Kinds
  BY DEF TimerTypes, Nodes
<1>5. Crashes'
  BY <1>1, <1>3, <1>4 DEF Crashes, MaskedCreateIsSafe, Kinds
<1>6. Masking'
  BY <1>1 DEF Masking, Unmasked
<1> QED BY <1>2, <1>5, <1>6

(* The timer is set. *)
LEMMA ArmNotifyInv == ASSUME TimerInv, ArmNotify PROVE TimerInv'
BY CreatedInv DEF ArmNotify

(* timer_cancel_event finds the event that the handle names: no interrupt  *)
(* is in progress, so what is not called back waits in the list.           *)
LEMMA CancelFinds ==
    ASSUME TimerInv, Cancel
    PROVE  \E i \in DOMAIN events : /\ events[i].id = prehandle
                                    /\ events' = Less(events, i)
                                    /\ crash' = crash
<1> USE DEF TimerInv
<1>1. expired = <<>> /\ prehandle # 0
  BY DEF Cancel, Main, Masking
<1>2. Elems(expired) = {}
  BY <1>1 DEF Elems
<1>3. \E x \in Elems(events) : x.id = prehandle
  BY <1>1, <1>2 DEF HandleWaits
<1>4. prehandle \in IdsOf(events)
  BY <1>3 DEF Elems, IdsOf
<1> QED BY Zenon, <1>4 DEF Cancel, Unlink, Less

(* timer_cancel_event forgets the event and the handle together. *)
LEMMA CancelInv == ASSUME TimerInv, Cancel PROVE TimerInv'
<1> USE DEF TimerInv
<1>1. /\ at = "idle" /\ at' = "idle" /\ irqat = "none" /\ crash = NoCrash /\ prehandle' = 0
      /\ UNCHANGED <<tick, node, uid, irqat, expired, fired>>
  BY DEF Cancel, Main
<1>2. PICK i \in DOMAIN events :
        events[i].id = prehandle /\ events' = Less(events, i) /\ crash' = crash
  BY CancelFinds
<1>3. events \in Seq(Nodes) /\ expired = <<>>
  BY <1>1 DEF TimerTypes, Masking
<1>4. events' \in Seq(Nodes)
  BY <1>2, <1>3, LessProperties
<1>5. Elems(events') = Elems(events) \ {events[i]} /\ Distinct(events') /\ Sorted(events')
  BY <1>2, <1>3, RemoveElems DEF OneId, InOrder
<1>6. Elems(expired) = {}
  BY <1>3 DEF Elems
<1>7. TimerTypes'
  BY <1>1, <1>4, TimerAssumption DEF TimerTypes
<1>8. InOrder'
  BY <1>1, <1>5, <1>6 DEF InOrder
<1>9. OneId'
  BY SMTT(30), <1>1, <1>5, <1>6 DEF OneId
<1>10. HandleWaits' /\ Masking' /\ Crashes'
  BY <1>1, <1>2 DEF HandleWaits, Masking, Crashes, MaskedCreateIsSafe, Unmasked
<1> QED BY <1>7, <1>8, <1>9, <1>10

(* The loop of ksleep changes no event. *)
LEMMA WaitInv == ASSUME TimerInv, Test \/ Wfi \/ OtherInterrupt PROVE TimerInv'
<1> USE DEF TimerInv
<1>1. /\ irqat = "none" /\ crash = NoCrash
      /\ at \in {"test", "wfi", "waiting"} /\ at' \in {"idle", "test", "wfi", "waiting"}
      /\ UNCHANGED <<tick, events, node, uid, prehandle, irqat, expired, fired, crash>>
  BY DEF Test, Wfi, OtherInterrupt, Main
<1>2. InOrder' /\ OneId' /\ TimerTypes' /\ HandleWaits'
  BY <1>1, ListsKept
<1> QED BY <1>1, <1>2 DEF Masking, Crashes, MaskedCreateIsSafe, Unmasked

(* Entering the handler, ending its walk and leaving it change no event;   *)
(* an interrupt comes in only where it is not masked.                      *)
LEMMA IrqEdgeInv ==
    ASSUME TimerInv, IrqEnter \/ PopDone \/ IrqExit
    PROVE  TimerInv'
<1> USE DEF TimerInv
<1>1. UNCHANGED <<tick, events, node, uid, prehandle, expired, fired, crash>>
  BY DEF IrqEnter, PopDone, IrqExit
<1>2. /\ at' = at \/ (at = "waiting" /\ at' = "test")
      /\ irqat' # "none" => Unmasked
      /\ irqat' = "none" => expired = <<>>
      /\ crash = NoCrash
  BY Zenon DEF IrqEnter, PopDone, IrqExit, Masking, Crashes
<1>3. TimerTypes'
  BY <1>1 DEF TimerTypes
<1>4. InOrder' /\ HandleWaits'
  BY <1>1 DEF InOrder, HandleWaits, ClockNow
<1>5. OneId'
  BY SMTT(30), <1>1, <1>2 DEF OneId
<1>6. Masking'
  BY <1>1, <1>2 DEF Masking, Unmasked
<1>7. Crashes'
  BY <1>1, <1>2 DEF Crashes, MaskedCreateIsSafe
<1> QED BY <1>3, <1>4, <1>5, <1>6, <1>7

(* handle_events takes due events off in the order they expire. *)
LEMMA PopExpiredInv == ASSUME TimerInv, PopExpired PROVE TimerInv'
<1> USE DEF TimerInv
<1> DEFINE h == Head(events)
<1>1. /\ irqat = "pop" /\ events # <<>> /\ h.expires <= ClockNow
      /\ expired' = Append(expired, h) /\ events' = Tail(events)
      /\ UNCHANGED <<tick, at, node, uid, prehandle, irqat, fired, crash>>
  BY DEF PopExpired, Due
<1>2. events \in Seq(Nodes) /\ expired \in Seq(Nodes) /\ Distinct(events) /\ Sorted(events)
      /\ Distinct(expired) /\ Sorted(expired)
  BY DEF TimerTypes, InOrder, OneId
<1>3. /\ Tail(events) \in Seq(Nodes) /\ h \in Nodes /\ h \in Elems(events)
      /\ Elems(Tail(events)) = Elems(events) \ {h}
      /\ Distinct(Tail(events)) /\ Sorted(Tail(events))
      /\ \A x \in Elems(events) : h.expires <= x.expires
      /\ \A x \in Elems(events) : x # h => x.id # h.id
  BY SMTT(30), <1>1, <1>2, HeadElems
<1> HIDE DEF h
<1>4. \A x \in Elems(expired) : x.id # h.id /\ x.expires <= h.expires
  BY <1>3 DEF OneId, InOrder
<1>5. /\ Append(expired, h) \in Seq(Nodes)
      /\ Elems(Append(expired, h)) = Elems(expired) \cup {h}
      /\ Distinct(Append(expired, h)) /\ Sorted(Append(expired, h))
  BY <1>2, <1>3, <1>4, AppendElems
<1>6. /\ Elems(events') = Elems(events) \ {h} /\ Elems(expired') = Elems(expired) \cup {h}
      /\ ClockNow' = ClockNow
  BY <1>1, <1>3, <1>5 DEF ClockNow
<1>7. TimerTypes'
  BY <1>1, <1>3, <1>5 DEF TimerTypes
<1>8. InOrder'
  <2>1. Sorted(events') /\ Sorted(expired')
    BY <1>1, <1>3, <1>5
  <2>2. \A x \in Elems(expired') : x.expires <= ClockNow'
    BY <1>1, <1>6 DEF InOrder
  <2>3. \A x \in Elems(expired'), y \in Elems(events') : x.expires <= y.expires
    BY <1>3, <1>6 DEF InOrder
  <2> QED BY <2>1, <2>2, <2>3 DEF InOrder
<1>9. OneId'
  <2>1. Distinct(events') /\ Distinct(expired')
    BY <1>1, <1>3, <1>5
  <2>2. \A x \in Elems(expired'), y \in Elems(events') : x.id # y.id
    BY <1>3, <1>6 DEF OneId
  <2>3. Elems(events') \cup Elems(expired') = Elems(events) \cup Elems(expired)
    BY <1>3, <1>6
  <2> QED BY <1>1, <2>1, <2>2, <2>3 DEF OneId
<1>10. HandleWaits'
  <2>1. Elems(events') \cup Elems(expired') = Elems(events) \cup Elems(expired)
    BY <1>3, <1>6
  <2> QED BY <1>1, <2>1 DEF HandleWaits
<1>11. Masking'
  <2>1. Unmasked /\ irqat' = irqat /\ irqat # "none"
    BY <1>1 DEF Masking
  <2>2. at \notin {"check", "arm", "notify"} \/ node.kind # "preempt"
    BY <2>1 DEF Unmasked
  <2> QED BY <1>1, <2>1, <2>2 DEF Masking, Unmasked
<1>12. Crashes'
  BY <1>1 DEF Crashes, MaskedCreateIsSafe
<1> QED BY <1>7, <1>8, <1>9, <1>10, <1>11, <1>12

(* A callback is called once, for the event that expires first. *)
LEMMA CallbackInv == ASSUME TimerInv, Callback PROVE TimerInv'
<1> USE DEF TimerInv
<1> DEFINE h == Head(expired)
<1>1. /\ irqat = "call" /\ expired # <<>>
      /\ expired' = Tail(expired) /\ fired' = fired \cup {h.id}
      /\ UNCHANGED <<tick, events, at, node, uid, irqat, crash>>
      /\ h.kind = "sleep" => prehandle' = prehandle
      /\ h.kind # "sleep" => prehandle' = 0
  BY DEF Callback
<1>2. expired \in Seq(Nodes) /\ Distinct(expired) /\ Sorted(expired)
  BY DEF TimerTypes, InOrder, OneId
<1>3. /\ Tail(expired) \in Seq(Nodes) /\ h \in Nodes /\ h \in Elems(expired)
      /\ Elems(Tail(expired)) = Elems(expired) \ {h}
      /\ Distinct(Tail(expired)) /\ Sorted(Tail(expired))
      /\ \A x \in Elems(expired) : x # h => x.id # h.id
  BY <1>1, <1>2, HeadElems
<1> HIDE DEF h
<1>4. /\ Elems(expired') = Elems(expired) \ {h} /\ Elems(events') = Elems(events)
      /\ ClockNow' = ClockNow
  BY <1>1, <1>3 DEF ClockNow
<1>5. h.id \in Nat /\ h.id \in 0 .. MaxNodes /\ 0 < h.id /\ h.id < uid /\ h.kind \in Kinds
  BY <1>3, NodeTypes DEF OneId, Nodes
<1>6. h.id \in 1 .. MaxNodes
  BY <1>5, TimerAssumption
<1>7. prehandle' \in 0 .. MaxNodes
  BY <1>1, TimerAssumption DEF TimerTypes
<1>8. TimerTypes'
  BY Zenon, <1>1, <1>3, <1>6, <1>7 DEF TimerTypes
<1>9. InOrder'
  BY SMTT(30), <1>1, <1>3, <1>4 DEF InOrder
<1>10. OneId'
  <2>1. Distinct(events') /\ Distinct(expired')
    BY <1>1, <1>3 DEF OneId
  <2>2. \A x \in Elems(expired'), y \in Elems(events') : x.id # y.id
    BY <1>4 DEF OneId
  <2>3. \A x \in Elems(events) \cup (Elems(expired) \ {h}) : x.id # h.id
    BY <1>3 DEF OneId
  <2>4. \A x \in Elems(events') \cup Elems(expired') : 0 < x.id /\ x.id < uid' /\ x.id \notin fired'
    BY <1>1, <1>4, <2>3 DEF OneId
  <2>5. \A n \in fired' : n < uid'
    BY <1>1, <1>5 DEF OneId
  <2>6. at' # "insert" \/ node.kind = "sleep"
    BY <1>1 DEF Masking, Unmasked
  <2>7. at' = "insert" => /\ 0 < node'.id /\ node'.id < uid' /\ node'.id \notin fired'
                          /\ \A x \in Elems(events') \cup Elems(expired') : x.id # node'.id
    BY <1>1, <1>3, <1>4 DEF OneId
  <2> QED BY <2>1, <2>2, <2>4, <2>5, <2>7 DEF OneId
<1>11. HandleWaits'
  <2>1. CASE h.kind # "sleep"
    BY <1>1, <2>1 DEF HandleWaits
  <2>2. CASE h.kind = "sleep"
    BY <1>1, <1>4, <2>2 DEF HandleWaits
  <2> QED BY <2>1, <2>2
<1>12. Masking' /\ Crashes'
  BY <1>1 DEF Masking, Unmasked, Crashes, MaskedCreateIsSafe
<1> QED BY <1>8, <1>9, <1>10, <1>11, <1>12

(* Time goes on; what was due stays due. *)
LEMMA TickInv == ASSUME TimerInv, Tick PROVE TimerInv' /\ ClockNow <= ClockNow'
<1> USE DEF TimerInv
<1>1. /\ tick \in Nat /\ tick < MaxTick /\ MaxTick \in Nat /\ tick' = tick + 1
      /\ UNCHANGED <<events, at, node, uid, prehandle, irqat, expired, fired, crash>>
  BY TimerAssumption DEF Tick, TimerTypes
<1>2. ClockNow \in Nat /\ ClockNow' \in Nat /\ ClockNow <= ClockNow'
  BY <1>1, ClockGoes DEF ClockNow
<1>3. TimerTypes'
  BY <1>1 DEF TimerTypes
<1>4. InOrder'
  <2>1. \A x \in Elems(expired) : x.expires \in Nat
    BY NodeTypes DEF TimerTypes, Elems
  <2>2. \A x \in Elems(expired') : x.expires <= ClockNow'
    BY <1>1, <1>2, <2>1 DEF InOrder
  <2> QED BY <1>1, <2>2 DEF InOrder
<1>5. OneId' /\ HandleWaits' /\ Masking' /\ Crashes'
  BY SMTT(30), <1>1 DEF OneId, HandleWaits, Masking, Unmasked, Crashes, MaskedCreateIsSafe
<1> QED BY <1>2, <1>3, <1>4, <1>5

(* Every step keeps the invariant. *)
LEMMA TimerStepInv == ASSUME TimerInv, [TimerNext]_tvars PROVE TimerInv'
<1>1. CASE \E k \in Kinds, d \in Delays : Create(k, d)
  BY <1>1, CreateInv
<1>2. CASE MainStep
  BY <1>2, InsertInv, CheckHeadInv, ArmInv, ArmNotifyInv, WaitInv DEF MainStep
<1>3. CASE Cancel \/ OtherInterrupt
  BY <1>3, CancelInv, WaitInv
<1>4. CASE IrqStep
  BY <1>4, IrqEdgeInv, PopExpiredInv, CallbackInv DEF IrqStep
<1>5. CASE Tick
  BY <1>5, TickInv
<1>6. CASE UNCHANGED tvars
  BY SMTT(30), <1>6 DEF tvars, TimerInv, TimerTypes, InOrder, OneId, HandleWaits, Masking, Unmasked,
              Crashes, MaskedCreateIsSafe, ClockNow
<1> QED BY <1>1, <1>2, <1>3, <1>4, <1>5, <1>6 DEF TimerNext

(* TimerInv is an invariant of a clock with its list, the scheduler's      *)
(* event, ksleep and the interrupt handler.                                *)
THEOREM TimerInvariant == TimerSpec => []TimerInv
<1>1. TimerInit => TimerInv
  BY TimerInitInv
<1>2. TimerInv /\ [TimerNext]_tvars => TimerInv'
  BY TimerStepInv
<1> QED BY <1>1, <1>2, PTL DEF TimerSpec

(* setup_head_timer has a head to set the timer for whenever the scheduler *)
(* creates its event, for every clock rate and every set of delays: only a *)
(* creation with interrupts enabled (ksleep) can lose the race.            *)
THEOREM TimerMaskedCreateIsSafe == TimerSpec => []MaskedCreateIsSafe
<1>1. TimerInv => MaskedCreateIsSafe
  BY DEF TimerInv, Crashes
<1> QED BY <1>1, TimerInvariant, PTL

(* timer_cancel_event finds its event. *)
CancelFindsItsEvent == crash # "no_event"

(* schedule() never cancels an event that is gone (timer_cancel_event):    *)
(* the handle is forgotten by the callback that runs before.               *)
THEOREM TimerCancelFindsItsEvent == TimerSpec => []CancelFindsItsEvent
<1>1. TimerInv => CancelFindsItsEvent
  BY DEF TimerInv, Crashes, CancelFindsItsEvent, NoCrash
<1> QED BY <1>1, TimerInvariant, PTL

---------------------------------------------------------------------------
(* The refinement *)

(* An event as the queue of EventQueue has it; the events a clock holds. *)
EventOf(x) == [id |-> x.id, expires |-> x.expires]
EventsOf(S) == {EventOf(x) : x \in S}
Held == Elems(events) \cup Elems(expired)

(* The queue that the refinement maps two lists to, element by element. *)
LEMMA WaitingElems ==
    ASSUME NEW s \in Seq(Nodes), NEW t \in Seq(Nodes)
    PROVE  Waiting(s \o t) = EventsOf(Elems(s) \cup Elems(t))
<1> DEFINE r == s \o t
<1>1. /\ r \in Seq(Nodes) /\ Len(r) = Len(s) + Len(t)
      /\ Len(s) \in Nat /\ Len(t) \in Nat
      /\ DOMAIN r = 1 .. (Len(s) + Len(t)) /\ DOMAIN s = 1 .. Len(s) /\ DOMAIN t = 1 .. Len(t)
  OBVIOUS
<1>2. \A j \in 1 .. (Len(s) + Len(t)) : r[j] = IF j <= Len(s) THEN s[j] ELSE t[j - Len(s)]
  OBVIOUS
<1> HIDE DEF r
<1>3. \A j \in DOMAIN s : j \in DOMAIN r /\ r[j] = s[j]
  BY <1>1, <1>2
<1>4. \A j \in DOMAIN t : j + Len(s) \in DOMAIN r /\ r[j + Len(s)] = t[j]
  BY <1>1, <1>2
<1>5. \A j \in DOMAIN r : \/ j \in DOMAIN s /\ r[j] = s[j]
                          \/ j - Len(s) \in DOMAIN t /\ r[j] = t[j - Len(s)]
  BY <1>1, <1>2
<1>6. Elems(r) = Elems(s) \cup Elems(t)
  <2>1. ASSUME NEW x \in Elems(r) PROVE x \in Elems(s) \cup Elems(t)
    BY <1>5, <2>1 DEF Elems
  <2>2. ASSUME NEW x \in Elems(s) \cup Elems(t) PROVE x \in Elems(r)
    BY <1>3, <1>4, <2>2 DEF Elems
  <2> QED BY <2>1, <2>2
<1>7. Waiting(r) = EventsOf(Elems(r))
  BY Zenon DEF Waiting, EventsOf, EventOf, Elems
<1> QED BY <1>6, <1>7 DEF r

(* The abstract queue is what the two lists of the clock hold. *)
LEMMA QueueIsHeld ==
    ASSUME TimerTypes, TimerTypes'
    PROVE  /\ Waiting(events \o expired) = EventsOf(Held)
           /\ Waiting(events \o expired)' = EventsOf(Held')
<1>1. /\ events \in Seq(Nodes) /\ expired \in Seq(Nodes)
      /\ events' \in Seq(Nodes) /\ expired' \in Seq(Nodes)
  BY DEF TimerTypes
<1>2. Waiting(events \o expired) = EventsOf(Held)
  BY Zenon, <1>1, WaitingElems DEF Held
<1>3. Waiting(events' \o expired') = EventsOf(Held')
  BY Zenon, <1>1, WaitingElems DEF Held
<1> QED BY <1>2, <1>3

(* An id is held once, and not after its callback. *)
LEMMA HeldOnce ==
    ASSUME TimerInv
    PROVE  /\ Held \subseteq Nodes
           /\ \A x, y \in Held : x # y => x.id # y.id
           /\ \A x \in Held : x.id \notin fired
<1> USE DEF TimerInv
<1>1. Held \subseteq Nodes /\ \A x \in Held : x.id \notin fired
  BY SMTT(30) DEF TimerTypes, OneId, Held, Elems
<1>2. ASSUME NEW x \in Elems(events), NEW y \in Elems(events), x # y PROVE x.id # y.id
  BY SMTT(30), <1>2 DEF OneId, Distinct, Elems
<1>3. ASSUME NEW x \in Elems(expired), NEW y \in Elems(expired), x # y PROVE x.id # y.id
  BY <1>3 DEF OneId, Distinct, Elems
<1>4. \A x \in Elems(expired), y \in Elems(events) : x.id # y.id
  BY DEF OneId
<1>5. \A x, y \in Held : x # y => x.id # y.id
  BY <1>2, <1>3, <1>4 DEF Held
<1> QED BY <1>1, <1>5

(* Taking one event out takes its image out of the queue. *)
LEMMA EventsOfRest ==
    ASSUME NEW S, NEW x \in S, \A y \in S : y # x => y.id # x.id
    PROVE  EventsOf(S \ {x}) = EventsOf(S) \ {EventOf(x)} /\ EventOf(x) \in EventsOf(S)
<1>1. \A y \in S : y # x => EventOf(y) # EventOf(x)
  BY DEF EventOf
<1> QED BY <1>1 DEF EventsOf

(* The insertion into the list is the Add of EventQueue. *)
LEMMA InsertAdds == ASSUME TimerInv, Insert PROVE Queue!Add
<1> USE DEF TimerInv
<1>1. /\ at = "insert" /\ irqat = "none"
      /\ UNCHANGED <<tick, node, expired, fired>>
  BY DEF Insert, Main
<1>2. PICK i \in 0 .. Len(events) : Passes(node, i) /\ events' = With(events, node, i)
  BY Zenon DEF Insert, With
<1>3. events \in Seq(Nodes) /\ node \in Nodes /\ TimerTypes'
  BY InsertInv DEF TimerTypes
<1>4. Elems(events') = Elems(events) \cup {node}
  BY SMTT(30), <1>1, <1>2, <1>3, InsertElems DEF OneId
<1>5. Held' = Held \cup {node}
  BY <1>1, <1>4 DEF Held
<1> DEFINE e == EventOf(node)
<1>6. e \in [id : 1 .. MaxNodes, expires : 0 .. TickToNs(MaxTick)]
  <2>1. node.id \in Nat /\ node.id \in 0 .. MaxNodes /\ node.expires \in Times /\ 0 < node.id
    BY <1>1, <1>3, NodeTypes DEF OneId
  <2>2. node.id \in 1 .. MaxNodes
    BY <2>1, TimerAssumption
  <2> QED BY SMTT(30), <2>1, <2>2 DEF EventOf, Times
<1>7. Waiting(events \o expired)' = EventsOf(Held') /\ Waiting(events \o expired) = EventsOf(Held)
  BY <1>3, QueueIsHeld
<1>8. Waiting(events \o expired)' = Waiting(events \o expired) \cup {e}
  BY <1>5, <1>7 DEF EventsOf
<1>9. e.id = node.id /\ \A q \in EventsOf(Held) : \E x \in Held : q.id = x.id
  BY DEF EventOf, EventsOf
<1>10. e.id \notin fired /\ \A q \in EventsOf(Held) : q.id # e.id
  BY Zenon, <1>1, <1>9 DEF OneId, Held
<1>11. e.id \notin fired \cup {q.id : q \in Waiting(events \o expired)}
  BY <1>7, <1>10
<1>12. ClockNow' = ClockNow
  BY <1>1 DEF ClockNow
<1> QED BY SMTT(30), <1>1, <1>6, <1>8, <1>11, <1>12 DEF Queue!Add

(* timer_cancel_event is the Drop of EventQueue. *)
LEMMA CancelDrops == ASSUME TimerInv, Cancel PROVE Queue!Drop
<1> USE DEF TimerInv
<1>1. UNCHANGED <<tick, expired, fired>>
  BY SMTT(30) DEF Cancel
<1>2. PICK i \in DOMAIN events :
        events[i].id = prehandle /\ events' = Less(events, i) /\ crash' = crash
  BY CancelFinds
<1> DEFINE x == events[i]
<1>3. events \in Seq(Nodes) /\ TimerTypes'
  BY CancelInv DEF TimerTypes
<1>4. Elems(events') = Elems(events) \ {x} /\ x \in Elems(events)
  BY Zenon, <1>2, <1>3, RemoveElems DEF OneId, Elems
<1>5. x \notin Elems(expired)
  BY SMTT(30), <1>4 DEF OneId
<1>6. Held' = Held \ {x} /\ x \in Held
  BY <1>1, <1>4, <1>5 DEF Held
<1> HIDE DEF x
<1>7. EventsOf(Held') = EventsOf(Held) \ {EventOf(x)} /\ EventOf(x) \in EventsOf(Held)
  BY Zenon, <1>6, HeldOnce, EventsOfRest
<1>8. Waiting(events \o expired)' = EventsOf(Held') /\ Waiting(events \o expired) = EventsOf(Held)
  BY <1>3, QueueIsHeld
<1>9. ClockNow' = ClockNow
  BY <1>1 DEF ClockNow
<1> QED BY <1>1, <1>7, <1>8, <1>9 DEF Queue!Drop

(* A callback is the Call of EventQueue: due, and none is earlier. *)
LEMMA CallbackCalls == ASSUME TimerInv, Callback PROVE Queue!Call
<1> USE DEF TimerInv
<1> DEFINE h == Head(expired)
<1>1. /\ expired # <<>> /\ expired' = Tail(expired) /\ fired' = fired \cup {h.id}
      /\ UNCHANGED <<tick, events>>
  BY DEF Callback
<1>2. expired \in Seq(Nodes) /\ Distinct(expired) /\ Sorted(expired) /\ TimerTypes'
  BY SMTT(30), CallbackInv DEF TimerTypes, InOrder, OneId
<1>3. /\ h \in Elems(expired) /\ Elems(Tail(expired)) = Elems(expired) \ {h}
      /\ \A x \in Elems(expired) : h.expires <= x.expires
  BY SMTT(30), <1>1, <1>2, HeadElems
<1> HIDE DEF h
<1>4. h \notin Elems(events)
  BY SMTT(30), <1>3 DEF OneId
<1>5. Held' = Held \ {h} /\ h \in Held
  BY <1>1, <1>3, <1>4 DEF Held
<1>6. EventsOf(Held') = EventsOf(Held) \ {EventOf(h)} /\ EventOf(h) \in EventsOf(Held)
  BY Zenon, <1>5, HeldOnce, EventsOfRest
<1>7. Waiting(events \o expired)' = EventsOf(Held') /\ Waiting(events \o expired) = EventsOf(Held)
  BY <1>2, QueueIsHeld
<1>8. h.expires <= ClockNow /\ \A x \in Held : h.expires <= x.expires
  BY <1>3 DEF InOrder, Held
<1>9. /\ EventOf(h).expires <= ClockNow /\ EventOf(h).id = h.id
      /\ \A q \in EventsOf(Held) : EventOf(h).expires <= q.expires
  BY SMTT(30), <1>8 DEF EventOf, EventsOf
<1>10. ClockNow' = ClockNow
  BY <1>1 DEF ClockNow
<1> QED BY SMTT(30), <1>1, <1>6, <1>7, <1>9, <1>10 DEF Queue!Call

(* A step that holds the same events at the same time is no step of the    *)
(* queue.                                                                  *)
LEMMA HeldStutters ==
    ASSUME TimerInv, TimerInv', Held' = Held, fired' = fired, tick' = tick
    PROVE  UNCHANGED Queue!qvars
<1>1. Waiting(events \o expired)' = EventsOf(Held') /\ Waiting(events \o expired) = EventsOf(Held)
  BY QueueIsHeld DEF TimerInv
<1>2. ClockNow' = ClockNow
  BY DEF ClockNow
<1> QED BY <1>1, <1>2 DEF Queue!qvars

(* What handle_events takes off the list it still holds. *)
LEMMA PopKeepsHeld == ASSUME TimerInv, PopExpired PROVE Held' = Held
<1> USE DEF TimerInv
<1> DEFINE h == Head(events)
<1>1. events # <<>> /\ expired' = Append(expired, h) /\ events' = Tail(events)
  BY DEF PopExpired, Due
<1>2. events \in Seq(Nodes) /\ expired \in Seq(Nodes) /\ Distinct(events) /\ Sorted(events)
      /\ Distinct(expired) /\ Sorted(expired)
  BY DEF TimerTypes, InOrder, OneId
<1>3. h \in Nodes /\ h \in Elems(events) /\ Elems(Tail(events)) = Elems(events) \ {h}
  BY SMTT(30), <1>1, <1>2, HeadElems
<1> HIDE DEF h
<1>4. \A x \in Elems(expired) : x.id # h.id /\ x.expires <= h.expires
  BY SMTT(30), <1>3 DEF OneId, InOrder
<1>5. Elems(Append(expired, h)) = Elems(expired) \cup {h}
  BY <1>2, <1>3, <1>4, AppendElems
<1> QED BY <1>1, <1>3, <1>5 DEF Held

(* Every step of the clock is a step of EventQueue or none. *)
LEMMA TimerStepRefines ==
    ASSUME TimerInv, [TimerNext]_tvars
    PROVE  [Queue!QNext]_Queue!qvars
<1>1. TimerInv'
  BY TimerStepInv
<1>2. CASE Insert
  BY <1>2, InsertAdds DEF Queue!QNext
<1>3. CASE Cancel
  BY <1>3, CancelDrops DEF Queue!QNext
<1>4. CASE Callback
  BY <1>4, CallbackCalls DEF Queue!QNext
<1>5. CASE Tick
  <2>1. ClockNow' >= ClockNow
    BY <1>5, TickInv, <1>1
  <2>2. UNCHANGED <<events, expired, fired>>
    BY <1>5 DEF Tick
  <2> QED BY <2>1, <2>2 DEF Queue!QNext, Queue!Advance
<1>6. CASE PopExpired
  BY SMTT(30), <1>1, <1>6, PopKeepsHeld, HeldStutters DEF PopExpired
<1>7. CASE UNCHANGED <<tick, events, expired, fired>>
  <2>1. Held' = Held
    BY <1>7 DEF Held
  <2> QED BY <1>1, <1>7, <2>1, HeldStutters
<1>8. ASSUME (\E k \in Kinds, d \in Delays : Create(k, d)) \/ CheckHead \/ Arm \/ ArmNotify
             \/ Test \/ Wfi \/ OtherInterrupt \/ IrqEnter \/ PopDone \/ IrqExit \/ UNCHANGED tvars
      PROVE  UNCHANGED <<tick, events, expired, fired>>
  BY Zenon, <1>8 DEF Create, CheckHead, Arm, ArmNotify, Test, Wfi, OtherInterrupt, IrqEnter, PopDone,
              IrqExit, tvars
<1> QED BY <1>2, <1>3, <1>4, <1>5, <1>6, <1>7, <1>8 DEF TimerNext, MainStep, IrqStep

(* The events of a clock are a queue: each is called back at most once,    *)
(* not before it expires, not before one that expires earlier, and not     *)
(* after timer_cancel_event.  The list, the one comparator of the hardware *)
(* and the handler implement it for every clock rate and set of delays.    *)
THEOREM TimerRefinesEventQueue == TimerSpec => RefinesEventQueue
<1>1. TimerInit => Queue!QInit
  <2>1. ASSUME TimerInit PROVE Waiting(events \o expired) = {}
    <3>1. Elems(<<>>) = {} /\ <<>> \in Seq(Nodes)
      BY DEF Elems
    <3>2. Waiting(<<>> \o <<>>) = EventsOf(Elems(<<>>) \cup Elems(<<>>))
      BY Zenon, <3>1, WaitingElems
    <3> QED BY <2>1, <3>1, <3>2 DEF TimerInit, EventsOf
  <2>2. ASSUME TimerInit PROVE ClockNow = 0
    <3> DEFINE P == 2 ^ Shift
    <3>1. P \in Nat \ {0} /\ 0 * Mult = 0
      BY TimerAssumption
    <3> HIDE DEF P
    <3>2. 0 \div P = 0
      BY <3>1
    <3> QED BY <2>2, <3>1, <3>2 DEF TimerInit, ClockNow, TickToNs, P
  <2> QED BY Zenon, <2>1, <2>2 DEF TimerInit, Queue!QInit
<1>2. TimerInv /\ [TimerNext]_tvars => [Queue!QNext]_Queue!qvars
  BY TimerStepRefines
<1> QED BY <1>1, <1>2, TimerInvariant, PTL DEF TimerSpec, RefinesEventQueue, Queue!QSpec
=============================================================================
