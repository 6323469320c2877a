------------------------------ MODULE Devices ------------------------------
(***************************************************************************)
(* The registry of devices (kernel/devices/devices.c).  The devices of a   *)
(* class form a list linked both ways, of falling rank, under the lock of  *)
(* the class; device_get_* walk it under the same lock, so each operation  *)
(* is one step.  A device is named by its uid; 0 is the null pointer.      *)
(***************************************************************************)
EXTENDS Naturals, SequencesExt

CONSTANTS DevClasses

VARIABLES dev_head,   \* class -> first device of its list
          dev_node,   \* uid -> name, rank, class and the two links
          dev_uid     \* uid_counter

devVars == <<dev_head, dev_node, dev_uid>>

device_ctrl_init ==
    /\ dev_head = [k \in DevClasses |-> 0]
    /\ dev_node = <<>>
    /\ dev_uid = 1

NewNode(name, rank, k) == [name |-> name, rank |-> rank, class |-> k, next |-> 0, prev |-> 0]

(* The devices from d on, along a link. *)
RECURSIVE ListFrom(_, _)
ListFrom(d, link) == IF d = 0 THEN <<>> ELSE <<d>> \o ListFrom(dev_node[d][link], link)

(* The first device of the list of a class that is one of those wanted. *)
FirstDevice(k, wanted) ==
    LET list == ListFrom(dev_head[k], "next")
        i    == SelectInSeq(list, LAMBDA d : d \in wanted)
    IN  IF i = 0 THEN 0 ELSE list[i]

InsertBefore(n, node, cur) ==
    LET prev == dev_node[cur].prev
        new  == [node EXCEPT !.next = cur, !.prev = prev]
        ext  == [Append(dev_node, new) EXCEPT ![cur].prev = n]
    IN  IF prev = 0 THEN ext ELSE [ext EXCEPT ![prev].next = n]

InsertAtTail(n, node, tail) ==
    [Append(dev_node, [node EXCEPT !.prev = tail]) EXCEPT ![tail].next = n]

device_register(name, rank, k) ==
    LET n    == dev_uid
        node == NewNode(name, rank, k)
        head == dev_head[k]
        cur  == FirstDevice(k, {d \in DOMAIN dev_node : dev_node[d].rank < rank})
        tail == FirstDevice(k, {d \in DOMAIN dev_node : dev_node[d].next = 0})
    IN  /\ dev_uid' = dev_uid + 1
        /\ dev_node' = CASE head = 0 -> Append(dev_node, node)
                         [] head # 0 /\ cur = 0 -> InsertAtTail(n, node, tail)
                         [] OTHER -> InsertBefore(n, node, cur)
        /\ dev_head' = IF head = 0 \/ (cur # 0 /\ dev_node[cur].prev = 0)
                       THEN [dev_head EXCEPT ![k] = n] ELSE dev_head

device_get_by_name(k, name) == FirstDevice(k, {d \in DOMAIN dev_node : dev_node[d].name = name})
device_get_primary(k) == dev_head[k]

---------------------------------------------------------------------------
=============================================================================
