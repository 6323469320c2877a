------------------------------- MODULE Rbtree -------------------------------
(***************************************************************************)
(* The red-black tree of lib/data_structures/rbtree.c, which keeps the     *)
(* regions and the physical blocks of a task.  Nodes are their keys, 0 is  *)
(* NULL.  The code writes every case twice, for the left and for the right *)
(* side; here a side d and the other side are parameters.                  *)
(***************************************************************************)
EXTENDS Naturals, FiniteSets, Sequences

CONSTANTS RbtKeys    \* keys of the nodes, positive numbers

VARIABLES rbt        \* the tree: root, kid[n][side], par[n], red[n]

RbtNodes == {0} \cup RbtKeys
Other(d) == IF d = "l" THEN "r" ELSE "l"
Leaf == [d \in {"l", "r"} |-> 0]

SetKid(T, n, d, x) == [T EXCEPT !.kid[n][d] = x]
set_parent(T, n, p) == [T EXCEPT !.par[n] = p]
set_parent_color(T, n, p, red) == [T EXCEPT !.par[n] = p, !.red[n] = red]
\* Most uses are under "if (node)".
MaybeParentBlack(T, n, p) == IF n = 0 THEN T ELSE set_parent_color(T, n, p, FALSE)
IsRed(T, n) == n # 0 /\ T.red[n]

\* The link that leads to old leads to new instead.
Relink(T, p, old, new) ==
    IF p = 0 THEN [T EXCEPT !.root = new]
    ELSE SetKid(T, p, IF T.kid[p]["l"] = old THEN "l" ELSE "r", new)

rotate_set_parents(T, old, new, red) ==
    LET p == T.par[old]
        v == set_parent_color(set_parent_color(T, new, p, T.red[old]), old, new, red)
    IN  Relink(v, p, old, new)

----------------------------------------------------------------------------
(* Search and insertion.                                                   *)

\* The node with the key, or NULL.
RECURSIVE FindFrom(_, _, _)
FindFrom(T, n, k) ==
    IF n = 0 \/ n = k THEN n ELSE FindFrom(T, T.kid[n][IF k < n THEN "l" ELSE "r"], k)
rbt_find(T, k) == FindFrom(T, T.root, k)

\* The last node on the way down to a key that is not in the tree.
RECURSIVE ParentFrom(_, _, _, _)
ParentFrom(T, p, n, k) ==
    IF n = 0 THEN p ELSE ParentFrom(T, n, T.kid[n][IF k < n THEN "l" ELSE "r"], k)

bst_insert(T, k) ==
    LET p == ParentFrom(T, 0, T.root, k)
        v == [T EXCEPT !.kid[k] = Leaf, !.par[k] = p, !.red[k] = p # 0]
    IN  IF p = 0 THEN [v EXCEPT !.root = k] ELSE SetKid(v, p, IF k < p THEN "l" ELSE "r", k)

\* The two rotations that end insert_rebalance; p is on side d of g.
InsertRotate(T, n, p, g, d) ==
    LET o == Other(d)
        inner == T.kid[n][d]
        zigzag == set_parent_color(MaybeParentBlack(SetKid(SetKid(T, p, o, inner), n, d, p), inner, p),
                                   p, n, TRUE)
        v == IF n = T.kid[p][o] THEN zigzag ELSE T
        top == IF n = T.kid[p][o] THEN n ELSE p
        moved == v.kid[top][o]
    IN  rotate_set_parents(MaybeParentBlack(SetKid(SetKid(v, g, d, moved), top, o, g), moved, g),
                           g, top, TRUE)

RECURSIVE insert_rebalance(_, _)
insert_rebalance(T, n) ==
    LET p == T.par[n]
        g == T.par[p]
        d == IF T.kid[g]["r"] # p THEN "l" ELSE "r"
        uncle == T.kid[g][Other(d)]
    IN  IF p = 0 THEN set_parent_color(T, n, 0, FALSE)
        ELSE IF ~T.red[p] THEN T
        ELSE IF IsRed(T, uncle)
             THEN insert_rebalance(
                    set_parent_color(set_parent_color(set_parent_color(T, uncle, g, FALSE), p, g, FALSE),
                                     g, T.par[g], TRUE), g)
        ELSE InsertRotate(T, n, p, g, d)

rbt_insertNoRebalance(T, k) == IF rbt_find(T, k) = k THEN T ELSE bst_insert(T, k)
rbt_insert(T, k) ==
    IF rbt_find(T, k) = k THEN T
    ELSE LET v == bst_insert(T, k) IN IF v.root = k THEN v ELSE insert_rebalance(v, k)

----------------------------------------------------------------------------
(* Removal.                                                                *)

\* erase_color, case 1: a red sibling is rotated above the parent.
RotateSibling(T, p, s, d) ==
    LET near == T.kid[s][d]
    IN  rotate_set_parents(
          set_parent_color(SetKid(SetKid(T, p, Other(d), near), s, d, p), near, p, FALSE), p, s, TRUE)

\* Cases 3 and 4: the far child of the sibling is red, or made so.
EraseRotate(T, p, s, d) ==
    LET o == Other(d)
        far == T.kid[s][o]
        near == T.kid[s][d]
        inner == T.kid[near][o]
        case3 == MaybeParentBlack(SetKid(SetKid(SetKid(T, s, d, inner), near, o, s), p, o, near), inner, s)
        v == IF IsRed(T, far) THEN T ELSE case3
        top == IF IsRed(T, far) THEN s ELSE near
        below == IF IsRed(T, far) THEN far ELSE s
        moved == v.kid[top][d]
        w == set_parent_color(SetKid(SetKid(v, p, o, moved), top, d, p), below, top, FALSE)
    IN  rotate_set_parents(IF moved = 0 THEN w ELSE set_parent(w, moved, p), p, top, FALSE)

RECURSIVE erase_color(_, _, _)
erase_color(T, p, n) ==
    LET d == IF T.kid[p]["r"] # n THEN "l" ELSE "r"
        first == T.kid[p][Other(d)]
        v == IF T.red[first] THEN RotateSibling(T, p, first, d) ELSE T
        s == v.kid[p][Other(d)]
        flipped == set_parent_color(v, s, p, TRUE)
    IN  IF IsRed(v, v.kid[s]["l"]) \/ IsRed(v, v.kid[s]["r"]) THEN EraseRotate(v, p, s, d)
        ELSE IF v.red[p] THEN [flipped EXCEPT !.red[p] = FALSE]
        ELSE IF v.par[p] = 0 THEN flipped
        ELSE erase_color(flipped, v.par[p], p)

\* A node with at most one child: the child takes its place.
RemoveOuter(T, n, child) ==
    LET p == T.par[n]
        v == Relink(T, p, n, child)
    IN  [tree |-> IF child = 0 THEN v ELSE set_parent_color(v, child, p, T.red[n]),
         fix |-> IF child = 0 /\ ~T.red[n] THEN p ELSE 0]

RECURSIVE LeftEnd(_, _)
LeftEnd(T, n) == IF T.kid[n]["l"] = 0 THEN n ELSE LeftEnd(T, T.kid[n]["l"])
RECURSIVE RightEnd(_, _)
RightEnd(T, n) == IF T.kid[n]["r"] = 0 THEN n ELSE RightEnd(T, T.kid[n]["r"])

\* A node with two children: its successor takes its place.
RemoveInner(T, n) ==
    LET right == T.kid[n]["r"]
        s == LeftEnd(T, right)
        orphan == T.kid[s]["r"]
        p == IF s = right THEN s ELSE T.par[s]
        lifted == IF s = right THEN T
                  ELSE set_parent(SetKid(SetKid(T, p, "l", orphan), s, "r", right), right, s)
        placed == Relink(set_parent(SetKid(lifted, s, "l", T.kid[n]["l"]), T.kid[n]["l"], s),
                         T.par[n], n, s)
        v == IF orphan = 0 THEN placed ELSE set_parent_color(placed, orphan, p, FALSE)
    IN  [tree |-> set_parent_color(v, s, T.par[n], T.red[n]),
         fix |-> IF orphan = 0 /\ ~T.red[s] THEN p ELSE 0]

\* The links of the removed node are cleared: its caller frees it.
rbt_remove(T, n) ==
    LET res == IF T.kid[n]["l"] = 0 THEN RemoveOuter(T, n, T.kid[n]["r"])
               ELSE IF T.kid[n]["r"] = 0 THEN RemoveOuter(T, n, T.kid[n]["l"])
               ELSE RemoveInner(T, n)
        v == IF res.fix = 0 THEN res.tree ELSE erase_color(res.tree, res.fix, 0)
    IN  [v EXCEPT !.kid[n] = Leaf, !.par[n] = 0, !.red[n] = FALSE]

----------------------------------------------------------------------------
(* Walks.                                                                  *)

\* The first ancestor reached from side d.
RECURSIVE Ascend(_, _, _, _)
Ascend(T, n, p, d) == IF p # 0 /\ n = T.kid[p][Other(d)] THEN Ascend(T, p, T.par[p], d) ELSE p

inorder_successor(T, n) ==
    IF T.kid[n]["r"] # 0 THEN LeftEnd(T, T.kid[n]["r"]) ELSE Ascend(T, n, T.par[n], "l")
inorder_predecessor(T, n) ==
    IF T.kid[n]["l"] # 0 THEN RightEnd(T, T.kid[n]["l"]) ELSE Ascend(T, n, T.par[n], "r")

\* rbt_for_each and rbt_for_each_rev with a visitor that never stops; a walk
\* longer than the tree is cut.
RECURSIVE Walk(_, _, _, _)
Walk(T, n, forward, most) ==
    IF n = 0 \/ most = 0 THEN <<>>
    ELSE <<n>> \o Walk(T, IF forward THEN inorder_successor(T, n) ELSE inorder_predecessor(T, n),
                       forward, most - 1)
rbt_for_each(T) == IF T.root = 0 THEN <<>> ELSE Walk(T, LeftEnd(T, T.root), TRUE, Cardinality(RbtNodes))
rbt_for_each_rev(T) == IF T.root = 0 THEN <<>> ELSE Walk(T, RightEnd(T, T.root), FALSE, Cardinality(RbtNodes))

\* rbt_destroy: down to a leaf, unlink it from its parent, free it, go on at
\* the parent.  The nodes in the order they are freed.
RECURSIVE DestroyFrom(_, _)
DestroyFrom(T, n) ==
    IF n = 0 THEN <<>>
    ELSE IF T.kid[n]["l"] # 0 THEN DestroyFrom(T, T.kid[n]["l"])
    ELSE IF T.kid[n]["r"] # 0 THEN DestroyFrom(T, T.kid[n]["r"])
    ELSE <<n>> \o DestroyFrom(IF T.par[n] = 0 THEN T
                              ELSE SetKid(T, T.par[n], IF T.kid[T.par[n]]["l"] = n THEN "l" ELSE "r", 0),
                              T.par[n])
rbt_destroy(T) == DestroyFrom(T, T.root)

----------------------------------------------------------------------------
RbtInit == rbt = [root |-> 0, kid |-> [n \in RbtNodes |-> Leaf],
                  par |-> [n \in RbtNodes |-> 0], red |-> [n \in RbtNodes |-> FALSE]]

RbtInsert == \E k \in RbtKeys : rbt_find(rbt, k) = 0 /\ rbt' = rbt_insert(rbt, k)
RbtRemove == \E k \in RbtKeys : rbt_find(rbt, k) = k /\ rbt' = rbt_remove(rbt, k)
RbtNext == RbtInsert \/ RbtRemove

----------------------------------------------------------------------------
InTree == {n \in RbtKeys : rbt.root = n \/ rbt.par[n] # 0}

\* Every node reached from the root is in key order and knows its parent: the
\* walks in both directions visit each inserted key once, in order, and a
\* search finds exactly those keys.
RbtOrdered ==
    LET fwd == rbt_for_each(rbt)
        rev == rbt_for_each_rev(rbt)
    IN  /\ Len(fwd) = Cardinality(InTree) /\ Len(rev) = Len(fwd)
        /\ \A i \in 1..(Len(fwd) - 1) : fwd[i] < fwd[i + 1]
        /\ \A i \in 1..Len(rev) : rev[i] = fwd[Len(fwd) + 1 - i]
        /\ \A k \in RbtKeys : rbt_find(rbt, k) = IF k \in InTree THEN k ELSE 0

\* Black nodes on a way down from n, or 0 when two ways differ.
RECURSIVE BlackHeight(_)
BlackHeight(n) ==
    IF n = 0 THEN 1
    ELSE LET l == BlackHeight(rbt.kid[n]["l"])
             r == BlackHeight(rbt.kid[n]["r"])
         IN  IF l = 0 \/ l # r THEN 0 ELSE l + (IF rbt.red[n] THEN 0 ELSE 1)

\* Rebalancing keeps the tree a red-black tree: the root is black, no red node
\* has a red child, and every way down has as many black nodes.
RbtBalanced ==
    /\ rbt.root # 0 => ~rbt.red[rbt.root]
    /\ \A n \in InTree : rbt.red[n] => \A d \in {"l", "r"} : ~IsRed(rbt, rbt.kid[n][d])
    /\ BlackHeight(rbt.root) # 0

\* rbt_destroy frees every node of the tree once, after all nodes below it.
RbtDestroysAll ==
    LET order == rbt_destroy(rbt)
    IN  /\ {order[i] : i \in 1..Len(order)} = InTree /\ Len(order) = Cardinality(InTree)
        /\ \A i, j \in 1..Len(order) : rbt.par[order[i]] = order[j] => i < j

\* Insertions and removals in any order leave a red-black search tree, and
\* every walk over it (in order, backwards, to destroy it) meets each inserted
\* key once (rbtree.c).
RbtIsRedBlack == RbtOrdered /\ RbtBalanced /\ RbtDestroysAll
=============================================================================
