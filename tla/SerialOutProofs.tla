-------------------------- MODULE SerialOutProofs --------------------------
(***************************************************************************)
(* For any CPUs, FIFO size and writes, as long as the kernel and threads   *)
(* do not print from two CPUs: what the term accepts is sent in order and  *)
(* completely, and no character is lost in a full FIFO.  The inductive     *)
(* invariant is IInv of SerialOut.                                         *)
(***************************************************************************)
EXTENDS SerialOut, SequenceTheorems, TLAPS

(* Sending the head of the FIFO keeps the order of the queues. *)
LEMMA TransmitKeepsOrder ==
    ASSUME wire \in Seq(Nat), fifo \in Seq(Nat), buf \in Seq(Nat), fifo # <<>>
    PROVE  Append(wire, Head(fifo)) \o Tail(fifo) \o buf = wire \o fifo \o buf
BY SMTT(30)

(* Concatenation of queues of characters is associative. *)
LEMMA QueuesAssociate ==
    ASSUME NEW w \in Seq(Nat), NEW f \in Seq(Nat), NEW b \in Seq(Nat)
    PROVE  (w \o f) \o b = w \o (f \o b)
BY ConcatAssociative, SMTT(60)

(* The head of one queue moves to the end of the queue before it. *)
LEMMA MoveHead ==
    ASSUME NEW f \in Seq(Nat), NEW b \in Seq(Nat), b # <<>>
    PROVE  Append(f, Head(b)) \o Tail(b) = f \o b
BY SMTT(30)

(* The same behind what is on the wire already. *)
LEMMA MoveHeadBehind ==
    ASSUME NEW w \in Seq(Nat), NEW f \in Seq(Nat), NEW b \in Seq(Nat), b # <<>>
    PROVE  w \o Append(f, Head(b)) \o Tail(b) = w \o f \o b
<1>1. Append(f, Head(b)) \in Seq(Nat) /\ Tail(b) \in Seq(Nat)
  OBVIOUS
<1>2. PICK g \in Seq(Nat) : g = Append(f, Head(b))
  BY Zenon, <1>1
<1>3. PICK t \in Seq(Nat) : t = Tail(b)
  BY Zenon, <1>1
<1>4. g \o t = f \o b
  BY Zenon, <1>2, <1>3, MoveHead
<1>5. (w \o g) \o t = w \o (g \o t)
  BY QueuesAssociate, SMTT(60)
<1>6. (w \o f) \o b = w \o (f \o b)
  BY QueuesAssociate, SMTT(60)
<1> QED BY <1>2, <1>3, <1>4, <1>5, <1>6, Zenon

(* Handing the head of the buffer to the FIFO keeps the order of the queues. *)
LEMMA NotifyKeepsOrder ==
    ASSUME wire \in Seq(Nat), fifo \in Seq(Nat), buf \in Seq(Nat), buf # <<>>
    PROVE  wire \o Append(fifo, Head(buf)) \o Tail(buf) = wire \o fifo \o buf
BY MoveHeadBehind, ZenonT(30)

(* A character written past an empty buffer comes last. *)
LEMMA DirectKeepsOrder ==
    ASSUME wire \in Seq(Nat), fifo \in Seq(Nat), buf = <<>>, NEW e \in Nat
    PROVE  Append(wire \o fifo \o buf, e) = wire \o Append(fifo, e) \o buf
<1>1. Append(wire \o fifo \o <<>>, e) = wire \o Append(fifo, e) \o <<>>
  BY ONLY SMTT(30), wire \in Seq(Nat), fifo \in Seq(Nat), e \in Nat
<1> QED BY Zenon, <1>1

(* Characters added to the buffer come last. *)
LEMMA PushKeepsOrder ==
    ASSUME wire \in Seq(Nat), fifo \in Seq(Nat), buf \in Seq(Nat), NEW m \in Seq(Nat)
    PROVE  /\ (wire \o fifo \o buf) \o m = wire \o fifo \o (buf \o m)
           /\ buf \o m \in Seq(Nat)
           /\ m # <<>> => buf \o m # <<>>
<1>1. (wire \o fifo \o buf) \o m = wire \o fifo \o (buf \o m)
  <2>1. wire \o fifo \in Seq(Nat)
    BY ConcatProperties, Zenon
  <2> QED BY <2>1, QueuesAssociate, ZenonT(30)
<1>2. buf \o m \in Seq(Nat)
  BY ConcatProperties, Zenon
<1>3. m # <<>> => buf \o m # <<>>
  BY ConcatEqualIffEmpty, SMTT(60)
<1> QED BY <1>1, <1>2, <1>3

(* What taking the head off a queue and adding to one does to their types. *)
LEMMA QueueTypes ==
    ASSUME NEW s \in Seq(Nat), NEW e \in Nat
    PROVE  /\ Append(s, e) \in Seq(Nat) /\ Len(Append(s, e)) = Len(s) + 1
           /\ s # <<>> => Head(s) \in Nat /\ Tail(s) \in Seq(Nat) /\ Len(Tail(s)) = Len(s) - 1
           /\ s # <<>> /\ Len(s) # 1 => Tail(s) # <<>>
           /\ Len(s) \in Nat
<1>1. Append(s, e) \in Seq(Nat) /\ Len(Append(s, e)) = Len(s) + 1
  OBVIOUS
<1>2. s # <<>> => Head(s) \in Nat /\ Tail(s) \in Seq(Nat) /\ Len(Tail(s)) = Len(s) - 1
  OBVIOUS
<1>3. Len(s) \in Nat
  OBVIOUS
<1>4. s # <<>> /\ Len(s) # 1 => Tail(s) # <<>>
  <2>1. Len(<<>>) = 0
    OBVIOUS
  <2>2. ASSUME s # <<>>, Tail(s) = <<>> PROVE Len(s) = 1
    <3>1. Len(Tail(s)) = 0
      BY Zenon, <2>1, <2>2
    <3> QED BY <1>2, <1>3, <2>2, <3>1
  <2> QED BY <2>2
<1> QED BY <1>1, <1>2, <1>3, <1>4

(* The characters of a write are numbers. *)
LEMMA MessageType ==
    ASSUME NEW n \in Nat \ {0}, accepted \in Seq(Nat)
    PROVE  Message(n) \in Seq(Nat) /\ Message(n) # <<>>
<1>1. Len(accepted) \in Nat
  BY LenProperties
<1>2. Message(n) \in [1 .. n -> Nat]
  BY <1>1 DEF Message
<1>3. Message(n) \in Seq(Nat) /\ Len(Message(n)) = n
  BY <1>2
<1> QED BY <1>3, EmptySeq

(* The initial states satisfy the invariant. *)
LEMMA InitIInv == ASSUME Init PROVE IInv
<1>1. FifoSize \in Nat
  BY SerialOutAssumption DEF SerialOutAssumption
<1>2. <<>> \in Seq(Nat) /\ Len(<<>>) = 0 /\ <<>> \o <<>> = <<>>
  BY EmptySeq, ConcatEmptySeq
<1>3. TypeOK
  <2>1. todo \in [CPUS -> Seq(Nat)]
    BY <1>2 DEF Init
  <2>2. Len(fifo) + kfifo <= FifoSize
    BY <1>1, <1>2 DEF Init
  <2> QED BY Zenon, <1>2, <2>1, <2>2 DEF Init, TypeOK, PCs
<1>4. InOrder
  BY <1>2 DEF Init, InOrder
<1> QED BY <1>3, <1>4 DEF Init, IInv

(* The steps between which a CPU relies on the queues: under the lock of   *)
(* the term, and all of them.                                              *)
Locked(c) == pc[c] \in {"w_try", "w_put", "n_try", "n_put"}
Busy(c) == pc[c] \in {"w_try", "w_put", "n_try", "n_put", "k_try", "k_put"}

(* The invariant apart from the types and the order of the queues. *)
Control ==
    /\ ~dropped
    /\ \A c \in CPUS :
         /\ pc[c] # "idle" => c \in use.writers \cup use.printers \cup {IrqCpu}
         /\ pc[c] \in {"k_try", "k_put"} => c \in use.printers
         /\ pc[c] \in {"w_try", "w_put", "n_try", "n_put"} => tlock = c
         /\ pc[c] \in {"w_try", "w_put"} => buf = <<>> /\ todo[c] # <<>>
         /\ pc[c] \in {"n_try", "n_put"} => buf # <<>>
         /\ pc[c] \in {"w_put", "n_put", "k_put"} => Len(fifo) + kfifo < FifoSize

(* The parts of IInv when only one lock is used. *)
LEMMA IInvParts == OneLock => (IInv <=> TypeOK /\ Control /\ InOrder)
BY DEF IInv, Control

(* After a step the parts make up IInv. *)
LEMMA IInvPartsPrimed == TypeOK' /\ Control' /\ InOrder' => IInv'
BY DEF IInv, Control

(* Only one CPU at a time relies on the queues: by the lock of the term, or *)
(* because there is only one.                                              *)
LEMMA OneAtATime ==
    ASSUME OneLock, Control, NEW c \in CPUS, NEW d \in CPUS, Busy(c), Busy(d)
    PROVE  c = d
<1>1. CASE use.printers = {}
  BY <1>1 DEF Control, Busy
<1>2. CASE Alone
  BY <1>2 DEF Control, Busy, Alone
<1> QED BY <1>1, <1>2 DEF OneLock

(* When the FIFO has room for a character. *)
LEMMA Room ==
    ASSUME TypeOK
    PROVE  /\ Len(fifo) \in Nat /\ FifoSize \in Nat /\ kfifo \in Nat
           /\ ~TxFull <=> Len(fifo) + kfifo < FifoSize
<1>1. Len(fifo) \in Nat /\ FifoSize \in Nat /\ kfifo \in Nat
  BY SerialOutAssumption DEF SerialOutAssumption, TypeOK
<1> QED BY <1>1 DEF TxFull

(* write() takes the lock, or buffers all it has. *)
LEMMA WriteLockIInv ==
    ASSUME OneLock, TypeOK, Control, InOrder, NEW c \in CPUS, NEW n \in 1 .. MaxLen, WriteLock(c, n)
    PROVE  IInv'
<1>0. c \in use.writers \cup use.printers \cup {IrqCpu}
  BY DEF WriteLock
<1> DEFINE m == Message(n)
<1>1. m \in Seq(Nat) /\ m # <<>>
  <2>1. n \in Nat \ {0}
    BY SerialOutAssumption DEF SerialOutAssumption
  <2> QED BY <2>1, MessageType DEF TypeOK
<1>2. tlock = NoCpu /\ NoCpu \notin CPUS
  BY SerialOutAssumption DEF SerialOutAssumption, WriteLock
<1>3. \A d \in CPUS : ~Locked(d)
  BY <1>2 DEF Control, Locked
<1> HIDE DEF m
<1>4. CASE buf = <<>>
  <2>1. /\ tlock' = c /\ todo' = [todo EXCEPT ![c] = m] /\ pc' = [pc EXCEPT ![c] = "w_try"]
        /\ UNCHANGED <<buf, accepted, finished, notify, trdyen, fifo, kfifo, iolock, wire, printed, dropped, use>>
    BY <1>4 DEF WriteLock, Goto, m
  <2>2. TypeOK'
    BY SMTT(30), <1>1, <2>1 DEF TypeOK, PCs
  <2>3. Control'
    BY SMTT(30), <1>0, <1>1, <1>3, <1>4, <2>1 DEF Control, Locked, TypeOK
  <2>4. InOrder'
    BY <2>1 DEF InOrder
  <2> QED BY <2>2, <2>3, <2>4, IInvPartsPrimed
<1>5. CASE buf # <<>>
  <2>1. /\ buf' = buf \o m /\ accepted' = accepted \o m /\ todo' = [todo EXCEPT ![c] = <<>>]
        /\ tlock' = NoCpu /\ finished' = [finished EXCEPT ![c] = FALSE]
        /\ pc' = [pc EXCEPT ![c] = "notify"]
        /\ UNCHANGED <<notify, trdyen, fifo, kfifo, iolock, wire, printed, dropped, use>>
    BY SMTT(30), <1>5 DEF WriteLock, Push, Finish, Goto, m
  <2>2. buf \o m \in Seq(Nat) /\ accepted \o m \in Seq(Nat) /\ <<>> \in Seq(Nat)
    BY <1>1, PushKeepsOrder DEF TypeOK
  <2>3. TypeOK'
    BY SMTT(30), <2>1, <2>2 DEF TypeOK, PCs
  <2>4. Control'
    BY SMTT(30), <1>0, <1>3, <2>1 DEF Control, Locked, TypeOK
  <2>5. InOrder'
    <3>1. (wire \o fifo \o buf) \o m = wire \o fifo \o (buf \o m)
      BY Zenon, <1>1, PushKeepsOrder DEF TypeOK
    <3> QED BY <2>1, <3>1 DEF InOrder
  <2> QED BY <2>3, <2>4, <2>5, IInvPartsPrimed
<1> QED BY <1>4, <1>5

(* A full FIFO: the rest of the write is buffered; else its room is kept.  *)
LEMMA WriteTryIInv ==
    ASSUME OneLock, TypeOK, Control, InOrder, NEW c \in CPUS, WriteTry(c)
    PROVE  IInv'
<1>0. c \in use.writers \cup use.printers \cup {IrqCpu}
  BY DEF WriteTry, Control
<1> DEFINE m == todo[c]
<1>1. m \in Seq(Nat) /\ m # <<>> /\ buf = <<>> /\ tlock = c
  BY DEF Control, TypeOK, WriteTry
<1>2. c # NoCpu /\ \A d \in CPUS \ {c} : ~Busy(d)
  BY <1>1, OneAtATime, SerialOutAssumption DEF SerialOutAssumption, Busy, WriteTry
<1> HIDE DEF m
<1>3. CASE ~TxFull
  <2>1. /\ pc' = [pc EXCEPT ![c] = "w_put"]
        /\ UNCHANGED <<buf, accepted, todo, finished, tlock, notify, trdyen, fifo, kfifo, iolock, wire,
                       printed, dropped, use>>
    BY <1>3 DEF WriteTry, Goto
  <2>2. Len(fifo) + kfifo < FifoSize
    BY <1>3, Room
  <2>3. TypeOK'
    BY <2>1 DEF TypeOK, PCs
  <2>4. Control'
    BY <1>0, <1>1, <1>2, <2>1, <2>2 DEF Control, Busy, TypeOK, m
  <2>5. InOrder'
    BY <2>1 DEF InOrder
  <2> QED BY <2>3, <2>4, <2>5, IInvPartsPrimed
<1>4. CASE TxFull
  <2>1. /\ buf' = buf \o m /\ accepted' = accepted \o m /\ todo' = [todo EXCEPT ![c] = <<>>]
        /\ tlock' = NoCpu /\ finished' = [finished EXCEPT ![c] = FALSE]
        /\ pc' = [pc EXCEPT ![c] = "notify"]
        /\ UNCHANGED <<notify, trdyen, fifo, kfifo, iolock, wire, printed, dropped, use>>
    BY <1>4 DEF WriteTry, Push, Finish, Goto, m
  <2>2. buf \o m \in Seq(Nat) /\ accepted \o m \in Seq(Nat) /\ <<>> \in Seq(Nat)
    BY <1>1, PushKeepsOrder DEF TypeOK
  <2>3. TypeOK'
    BY SMTT(30), <2>1, <2>2 DEF TypeOK, PCs
  <2>4. Control'
    BY SMTT(30), <1>0, <1>2, <2>1 DEF Control, Busy, TypeOK
  <2>5. InOrder'
    <3>1. (wire \o fifo \o buf) \o m = wire \o fifo \o (buf \o m)
      BY <1>1, PushKeepsOrder DEF TypeOK
    <3> QED BY <2>1, <3>1 DEF InOrder
  <2> QED BY <2>3, <2>4, <2>5, IInvPartsPrimed
<1> QED BY <1>3, <1>4

(* A character is written past the empty buffer into the room that is left. *)
LEMMA WritePutIInv ==
    ASSUME OneLock, TypeOK, Control, InOrder, NEW c \in CPUS, WritePut(c)
    PROVE  IInv'
<1>0. c \in use.writers \cup use.printers \cup {IrqCpu}
  BY DEF WritePut, Control
<1> DEFINE m == todo[c]
           e == Head(m)
<1>1. m \in Seq(Nat) /\ m # <<>> /\ buf = <<>> /\ tlock = c /\ Len(fifo) + kfifo < FifoSize
  BY DEF Control, TypeOK, WritePut
<1>2. c # NoCpu /\ \A d \in CPUS \ {c} : ~Busy(d)
  BY <1>1, OneAtATime, SerialOutAssumption DEF SerialOutAssumption, Busy, WritePut
<1>3. ~TxFull /\ Len(fifo) \in Nat /\ kfifo \in Nat /\ FifoSize \in Nat
  BY <1>1, Room
<1> HIDE DEF m
<1>4. e \in Nat /\ Tail(m) \in Seq(Nat) /\ (Len(m) # 1 => Tail(m) # <<>>)
  BY Zenon, <1>1, QueueTypes
<1> HIDE DEF e
<1>5. /\ fifo' = Append(fifo, e) /\ dropped' = (dropped \/ TxFull)
      /\ accepted' = Append(accepted, e)
      /\ todo' = [todo EXCEPT ![c] = Tail(m)]
      /\ UNCHANGED <<buf, notify, trdyen, kfifo, iolock, wire, printed, use>>
  BY <1>3 DEF WritePut, Put, m, e
<1>6. \/ /\ tlock' = NoCpu /\ finished' = [finished EXCEPT ![c] = TRUE]
         /\ pc' = [pc EXCEPT ![c] = "notify"]
      \/ /\ Tail(m) # <<>> /\ pc' = [pc EXCEPT ![c] = "w_try"]
         /\ UNCHANGED <<tlock, finished>>
  BY SMTT(30), <1>4 DEF WritePut, Finish, Goto, m
<1>7. /\ Append(fifo, e) \in Seq(Nat) /\ Len(Append(fifo, e)) = Len(fifo) + 1
      /\ Append(accepted, e) \in Seq(Nat)
  BY <1>4, QueueTypes DEF TypeOK
<1>8. ~dropped' /\ dropped' \in BOOLEAN
  BY Zenon, <1>3, <1>5 DEF Control
<1>9. TypeOK'
  <2>1. Len(fifo') + kfifo' <= FifoSize
    BY <1>1, <1>3, <1>5, <1>7 DEF Control
  <2>2. todo' \in [CPUS -> Seq(Nat)]
    BY <1>4, <1>5 DEF TypeOK
  <2>3. /\ pc' \in [CPUS -> PCs] /\ finished' \in [CPUS -> BOOLEAN]
        /\ tlock' \in CPUS \cup {NoCpu}
    BY Zenon, <1>6 DEF TypeOK, PCs
  <2> QED BY SMTT(30), <1>5, <1>7, <1>8, <2>1, <2>2, <2>3 DEF TypeOK
<1>10. Control'
  BY SMTT(30), <1>0, <1>1, <1>2, <1>5, <1>6, <1>8 DEF Control, Busy, TypeOK
<1>11. InOrder'
  <2>1. Append(wire \o fifo \o buf, e) = wire \o Append(fifo, e) \o buf
    BY Zenon, <1>1, <1>4, DirectKeepsOrder DEF TypeOK
  <2> QED BY <1>5, <2>1 DEF InOrder
<1> QED BY <1>9, <1>10, <1>11, IInvPartsPrimed

(* The steps that leave the queues alone and neither take nor free the lock. *)
LEMMA SignalIInv ==
    ASSUME OneLock, TypeOK, Control, InOrder, NEW c \in CPUS,
           Notify(c) \/ IrqTake(c) \/ IrqHandle(c) \/ HandleTrdy(c)
    PROVE  IInv'
<1>0. c \in use.writers \cup use.printers \cup {IrqCpu}
  BY DEF Notify, IrqTake, IrqHandle, HandleTrdy, Control
<1>1. /\ UNCHANGED <<buf, tlock, fifo, kfifo, iolock, todo, finished, wire, accepted, printed, dropped, use>>
      /\ notify' \in BOOLEAN /\ trdyen' \in BOOLEAN
  BY Zenon DEF Notify, IrqTake, IrqHandle, HandleTrdy, TypeOK
<1>2. \E l \in {"idle", "irq", "trdy", "n_lock"} : pc' = [pc EXCEPT ![c] = l]
  BY SMTT(30) DEF Notify, IrqTake, IrqHandle, HandleTrdy, Goto
<1>3. TypeOK'
  BY <1>1, <1>2 DEF TypeOK, PCs
<1>4. Control'
  BY SMTT(30), <1>0, <1>1, <1>2 DEF Control, TypeOK
<1>5. InOrder'
  BY <1>1 DEF InOrder
<1> QED BY <1>3, <1>4, <1>5, IInvPartsPrimed

(* The interrupt handler takes the lock, or finds nothing to send. *)
LEMMA NotifyLockIInv ==
    ASSUME OneLock, TypeOK, Control, InOrder, NEW c \in CPUS, NotifyLock(c)
    PROVE  IInv'
<1>0. c \in use.writers \cup use.printers \cup {IrqCpu}
  BY DEF NotifyLock, Control
<1>1. /\ UNCHANGED <<buf, notify, trdyen, fifo, kfifo, iolock, todo, wire, accepted, printed, dropped, use>>
      /\ \/ /\ tlock' = NoCpu /\ finished' = [finished EXCEPT ![c] = TRUE]
            /\ pc' = [pc EXCEPT ![c] = "notify"]
         \/ /\ buf # <<>> /\ tlock' = c /\ pc' = [pc EXCEPT ![c] = "n_try"]
            /\ UNCHANGED finished
  BY DEF NotifyLock, Finish, Goto
<1>2. \A d \in CPUS : ~Locked(d)
  BY SerialOutAssumption DEF SerialOutAssumption, NotifyLock, Control, Locked
<1>3. TypeOK'
  BY Zenon, <1>1 DEF TypeOK, PCs
<1>4. Control'
  BY SMTT(30), <1>0, <1>1, <1>2 DEF Control, Locked, TypeOK
<1>5. InOrder'
  BY <1>1 DEF InOrder
<1> QED BY <1>3, <1>4, <1>5, IInvPartsPrimed

(* The interrupt handler finds room, or gives the lock back. *)
LEMMA NotifyTryIInv ==
    ASSUME OneLock, TypeOK, Control, InOrder, NEW c \in CPUS, NotifyTry(c)
    PROVE  IInv'
<1>0. c \in use.writers \cup use.printers \cup {IrqCpu}
  BY DEF NotifyTry, Control
<1>1. tlock = c /\ buf # <<>>
  BY DEF NotifyTry, Control
<1>2. /\ UNCHANGED <<buf, notify, trdyen, fifo, kfifo, iolock, todo, wire, accepted, printed, dropped, use>>
      /\ \/ /\ tlock' = NoCpu /\ finished' = [finished EXCEPT ![c] = FALSE]
            /\ pc' = [pc EXCEPT ![c] = "notify"]
         \/ /\ ~TxFull /\ pc' = [pc EXCEPT ![c] = "n_put"]
            /\ UNCHANGED <<tlock, finished>>
  BY DEF NotifyTry, Finish, Goto
<1>3. \A d \in CPUS \ {c} : ~Busy(d)
  BY OneAtATime DEF Busy, NotifyTry
<1>4. ~TxFull => Len(fifo) + kfifo < FifoSize
  BY Room
<1>5. TypeOK'
  BY Zenon, <1>2 DEF TypeOK, PCs
<1>6. Control'
  BY Zenon, <1>0, <1>1, <1>2, <1>3, <1>4 DEF Control, Busy, TypeOK
<1>7. InOrder'
  BY <1>2 DEF InOrder
<1> QED BY <1>5, <1>6, <1>7, IInvPartsPrimed

(* The head of the buffer moves into the room that is left in the FIFO. *)
LEMMA NotifyPutIInv ==
    ASSUME OneLock, TypeOK, Control, InOrder, NEW c \in CPUS, NotifyPut(c)
    PROVE  IInv'
<1>0. c \in use.writers \cup use.printers \cup {IrqCpu}
  BY DEF NotifyPut, Control
<1> DEFINE e == Head(buf)
           t == Tail(buf)
<1>1. buf \in Seq(Nat) /\ buf # <<>> /\ tlock = c /\ Len(fifo) + kfifo < FifoSize
  BY DEF Control, TypeOK, NotifyPut
<1>2. c # NoCpu /\ \A d \in CPUS \ {c} : ~Busy(d)
  BY <1>1, OneAtATime, SerialOutAssumption DEF SerialOutAssumption, Busy, NotifyPut
<1>3. ~TxFull /\ Len(fifo) \in Nat /\ kfifo \in Nat /\ FifoSize \in Nat
  BY <1>1, Room
<1>4. e \in Nat /\ t \in Seq(Nat) /\ (Len(buf) # 1 => t # <<>>)
  BY Zenon, <1>1, QueueTypes
<1>5. wire \o Append(fifo, e) \o t = wire \o fifo \o buf
  BY Zenon, <1>1, NotifyKeepsOrder DEF TypeOK
<1> HIDE DEF e, t
<1>6. /\ fifo' = Append(fifo, e) /\ dropped' = (dropped \/ TxFull) /\ buf' = t
      /\ UNCHANGED <<notify, trdyen, kfifo, iolock, todo, wire, accepted, printed, use>>
  BY <1>3 DEF NotifyPut, Put, e, t
<1>7. \/ /\ tlock' = NoCpu /\ finished' = [finished EXCEPT ![c] = TRUE]
         /\ pc' = [pc EXCEPT ![c] = "notify"]
      \/ /\ t # <<>> /\ pc' = [pc EXCEPT ![c] = "n_try"]
         /\ UNCHANGED <<tlock, finished>>
  BY <1>4 DEF NotifyPut, Finish, Goto
<1>8. Append(fifo, e) \in Seq(Nat) /\ Len(Append(fifo, e)) = Len(fifo) + 1
  BY <1>4, QueueTypes DEF TypeOK
<1>9. ~dropped' /\ dropped' \in BOOLEAN
  BY Zenon, <1>3, <1>6 DEF Control
<1>10. TypeOK'
  <2>1. Len(fifo') + kfifo' <= FifoSize
    BY <1>1, <1>3, <1>6, <1>8 DEF Control
  <2>2. /\ pc' \in [CPUS -> PCs] /\ finished' \in [CPUS -> BOOLEAN]
        /\ tlock' \in CPUS \cup {NoCpu}
    BY Zenon, <1>7 DEF TypeOK, PCs
  <2> QED BY SMTT(30), <1>4, <1>6, <1>8, <1>9, <2>1, <2>2 DEF TypeOK
<1>11. Control'
  BY SMTT(30), <1>0, <1>1, <1>2, <1>6, <1>7, <1>9 DEF Control, Busy, TypeOK
<1>12. InOrder'
  BY Zenon, <1>5, <1>6 DEF InOrder
<1> QED BY <1>10, <1>11, <1>12, IInvPartsPrimed

(* The kernel prints a character into room that only its CPU can use. *)
LEMMA KernelIInv ==
    ASSUME OneLock, TypeOK, Control, InOrder, NEW c \in CPUS, KernelPrinting(c)
    PROVE  IInv'
<1>1. /\ UNCHANGED <<buf, tlock, notify, trdyen, fifo, todo, finished, wire, accepted, use>>
      /\ c \in use.printers
  BY SMTT(30) DEF KernelPrinting, KernelLock, KernelTry, KernelPut, Control
<1>2. /\ Len(fifo) \in Nat /\ FifoSize \in Nat /\ kfifo \in Nat
      /\ ~TxFull <=> Len(fifo) + kfifo < FifoSize
  BY Room
<1>3. InOrder'
  BY <1>1 DEF InOrder
<1>4. CASE KernelLock(c)
  <2>1. iolock' = c /\ pc' = [pc EXCEPT ![c] = "k_try"] /\ UNCHANGED <<kfifo, printed, dropped>>
    BY <1>4 DEF KernelLock, Goto
  <2>2. TypeOK'
    BY SMTT(30), <1>1, <2>1 DEF TypeOK, PCs
  <2>3. Control'
    BY SMTT(30), <1>1, <2>1 DEF Control, TypeOK
  <2> QED BY <1>3, <2>2, <2>3, IInvPartsPrimed
<1>5. CASE KernelTry(c)
  <2>1. ~TxFull /\ pc' = [pc EXCEPT ![c] = "k_put"] /\ UNCHANGED <<kfifo, iolock, printed, dropped>>
    BY <1>5 DEF KernelTry, Goto
  <2>2. TypeOK'
    BY <1>1, <2>1 DEF TypeOK, PCs
  <2>3. Control'
    BY SMTT(30), <1>1, <1>2, <2>1 DEF Control, TypeOK
  <2> QED BY <1>3, <2>2, <2>3, IInvPartsPrimed
<1>6. CASE KernelPut(c)
  <2>1. Len(fifo) + kfifo < FifoSize /\ ~TxFull
    BY <1>2, <1>6 DEF KernelPut, Control
  <2>2. \A d \in CPUS \ {c} : ~Busy(d)
    BY <1>6, OneAtATime DEF Busy, KernelPut
  <2>3. /\ kfifo' = kfifo + 1 /\ dropped' = (dropped \/ TxFull) /\ printed' = printed + 1
        /\ iolock' \in CPUS \cup {NoCpu}
        /\ \E l \in {"idle", "k_try"} : pc' = [pc EXCEPT ![c] = l]
    BY <1>6, <2>1 DEF KernelPut, Goto, TypeOK
  <2>4. ~dropped' /\ dropped' \in BOOLEAN
    BY Zenon, <2>1, <2>3 DEF Control
  <2>5. TypeOK'
    <3>1. Len(fifo') + kfifo' <= FifoSize /\ kfifo' \in Nat
      BY <1>1, <1>2, <2>1, <2>3, SMTT(30)
    <3>2. printed' \in Nat
      BY <2>3 DEF TypeOK
    <3>3. pc' \in [CPUS -> PCs]
      BY SMTT(30), <2>3 DEF TypeOK, PCs
    <3> QED BY SMTT(30), <1>1, <2>3, <2>4, <3>1, <3>2, <3>3 DEF TypeOK
  <2>6. Control'
    BY SMTT(30), <1>1, <2>2, <2>3, <2>4 DEF Control, Busy, TypeOK
  <2> QED BY <1>3, <2>5, <2>6, IInvPartsPrimed
<1> QED BY <1>4, <1>5, <1>6 DEF KernelPrinting

(* The UART sends the head of the FIFO, or a character of the kernel. *)
LEMMA TransmitIInv ==
    ASSUME OneLock, TypeOK, Control, InOrder, Transmit
    PROVE  IInv'
<1> DEFINE e == Head(fifo)
           t == Tail(fifo)
<1>1. /\ UNCHANGED <<buf, tlock, notify, trdyen, iolock, pc, todo, finished, accepted, printed,
                     dropped, use>>
      /\ \/ fifo # <<>> /\ fifo' = t /\ wire' = Append(wire, e) /\ kfifo' = kfifo
         \/ kfifo > 0 /\ kfifo' = kfifo - 1 /\ fifo' = fifo /\ wire' = wire
  BY DEF Transmit
<1>2. fifo # <<>> => e \in Nat /\ t \in Seq(Nat) /\ Len(t) = Len(fifo) - 1
  BY SMTT(30), QueueTypes DEF TypeOK
<1>3. fifo # <<>> => Append(wire, e) \o t \o buf = wire \o fifo \o buf
  BY Zenon, TransmitKeepsOrder DEF TypeOK
<1> HIDE DEF e, t
<1>4. fifo # <<>> => Append(wire, e) \in Seq(Nat)
  BY <1>2, QueueTypes DEF TypeOK
<1>5. Len(fifo) \in Nat /\ FifoSize \in Nat /\ kfifo \in Nat
  BY Room
<1>6. /\ Len(fifo) + kfifo < FifoSize => Len(fifo') + kfifo' < FifoSize
      /\ Len(fifo') + kfifo' <= FifoSize
      /\ kfifo' \in Nat
  BY <1>1, <1>2, <1>5, SMTT(30) DEF TypeOK
<1>7. TypeOK'
  BY Zenon, <1>1, <1>2, <1>4, <1>6 DEF TypeOK
<1>8. Control'
  BY SMTT(30), <1>1, <1>6 DEF Control
<1>9. InOrder'
  BY Zenon, <1>1, <1>3 DEF InOrder
<1> QED BY <1>7, <1>8, <1>9, IInvPartsPrimed

(* Which CPUs print what never changes. *)
LEMMA UseIsFixed == [Next]_vars => OneLock' = OneLock
<1>1. [Next]_vars => use' = use
  BY Zenon DEF Next, WriteLock, Writing, WriteTry, WritePut, Notify, Interrupt, IrqTake, IrqHandle,
         HandleTrdy, NotifyLock, NotifyTry, NotifyPut, KernelPrinting, KernelLock, KernelTry,
         KernelPut, Transmit, vars
<1> QED BY <1>1 DEF OneLock, Alone

(* Every step keeps the invariant. *)
LEMMA NextIInv ==
    ASSUME IInv, [Next]_vars
    PROVE  IInv'
<1>1. CASE ~OneLock
  BY Zenon, <1>1, UseIsFixed DEF IInv
<1>2. CASE OneLock
  <2>1. TypeOK /\ Control /\ InOrder
    BY <1>2, IInvParts
  <2>2. ASSUME NEW c \in CPUS, NEW n \in 1 .. MaxLen, WriteLock(c, n) PROVE IInv'
    BY <1>2, <2>1, <2>2, WriteLockIInv
  <2>3. ASSUME NEW c \in CPUS, Writing(c) PROVE IInv'
    BY <1>2, <2>1, <2>3, WriteTryIInv, WritePutIInv, SignalIInv DEF Writing
  <2>4. ASSUME NEW c \in CPUS, Interrupt(c) PROVE IInv'
    BY <1>2, <2>1, <2>4, SignalIInv, NotifyLockIInv, NotifyTryIInv, NotifyPutIInv DEF Interrupt
  <2>5. ASSUME NEW c \in CPUS, KernelPrinting(c) PROVE IInv'
    BY <1>2, <2>1, <2>5, KernelIInv
  <2>6. ASSUME Transmit PROVE IInv'
    BY <1>2, <2>1, <2>6, TransmitIInv
  <2>7. ASSUME UNCHANGED vars PROVE IInv'
    BY SMTT(30), <2>1, <2>7, IInvPartsPrimed DEF vars, TypeOK, Control, InOrder
  <2> QED BY <2>2, <2>3, <2>4, <2>5, <2>6, <2>7 DEF Next
<1> QED BY <1>1, <1>2

(* IInv is an invariant of vfs_serial.c, term.c and the UART driver. *)
THEOREM SerialOutInvariant == Spec => []IInv
<1>1. Init => IInv
  BY InitIInv
<1>2. IInv /\ [Next]_vars => IInv'
  BY NextIInv
<1> QED BY <1>1, <1>2, PTL DEF Spec

(* What term_print_slice accepts is sent in the order of its lock, each    *)
(* character once: part is on the wire, part in the FIFO, the rest in the  *)
(* buffer of the term.                                                     *)
THEOREM SerialOutOrder == Spec => []OutputInOrder
<1>1. IInv => OutputInOrder
  BY DEF IInv, OutputInOrder
<1>2. Spec => []IInv
  BY SerialOutInvariant
<1> QED BY <1>1, <1>2, PTL

(* imx8mp_uart_putc never writes to a full FIFO: the room it saw is still  *)
(* there, because the writers of the term hold its lock across both steps  *)
(* and the kernel prints from the only CPU there is or not at all.         *)
THEOREM SerialOutTakenIsKept == Spec => []TakenIsKept
<1>1. IInv => TakenIsKept
  BY DEF IInv, TakenIsKept
<1>2. Spec => []IInv
  BY SerialOutInvariant
<1> QED BY <1>1, <1>2, PTL
=============================================================================
