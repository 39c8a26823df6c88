------------------------------- MODULE RBTree -------------------------------
(***************************************************************************)
(* The red-black tree of the C library, frameWork/tree/rbtree.c.           *)
(*                                                                         *)
(* A node is its key (insert_rbtree refuses a second node with a key).     *)
(* Every pass of the two fix-up loops is a step.  The code writes each     *)
(* case twice, mirrored; here a case is written once, for a side s and the *)
(* other side: left_rotate is Rotate(t, x, "left").                        *)
(***************************************************************************)
EXTENDS Integers

CONSTANT Keys       \* numbers other than 0

VARIABLES
    t,              \* the tree: root, and child, parent and color of each node
    pc,             \* the loop that runs
    node, parent    \* its locals

vars == <<t, pc, node, parent>>

NULL == 0
RED == 0
BLACK == 1
Sides == {"left", "right"}
Other(s) == IF s = "left" THEN "right" ELSE "left"

\* A node that is not in the tree.
Unused == [left |-> NULL, right |-> NULL]

Init ==
    /\ t = [root   |-> NULL,
            child  |-> [x \in Keys |-> Unused],
            parent |-> [x \in Keys |-> NULL],
            color  |-> [x \in Keys |-> BLACK]]
    /\ pc = "idle"
    /\ node = NULL /\ parent = NULL

RedIn(tree, x) == x # NULL /\ tree.color[x] = RED
Red(x) == RedIn(t, x)
SideOf(tree, x) == IF tree.child[tree.parent[x]].left = x THEN "left" ELSE "right"

Paint(tree, x, c) == [tree EXCEPT !.color[x] = c]

\* Where the parent of x, or the root, points to x it shall point to y.
Replace(tree, x, y) ==
    IF tree.parent[x] = NULL
    THEN [tree EXCEPT !.root = y]
    ELSE [tree EXCEPT !.child[tree.parent[x]][SideOf(tree, x)] = y]

SetChild(tree, x, s, y) == [tree EXCEPT !.child[x][s] = y]

SetParent(tree, x, p) == IF x = NULL THEN tree ELSE [tree EXCEPT !.parent[x] = p]

\* rbtree_left_rotate and rbtree_right_rotate.
Rotate(tree, x, s) ==
    LET y == tree.child[x][Other(s)]
        moved == SetParent([tree EXCEPT !.child[x][Other(s)] = tree.child[y][s]],
                           tree.child[y][s], x)
        linked == Replace(SetParent(moved, y, tree.parent[x]), x, y)
    IN SetParent([linked EXCEPT !.child[y][s] = x], x, y)
-----------------------------------------------------------------------------
(* Looking up.                                                             *)

Toward(x, key) == t.child[x][IF key < x THEN "left" ELSE "right"]

\* search: the node of key under x, or NULL.
Search(key) ==
    LET search[x \in Keys \cup {NULL}] ==
            IF x \in {NULL, key} THEN x ELSE search[Toward(x, key)]
    IN search[t.root]

\* The node below which rbtree_insert puts key.
Place(key) ==
    LET place[x \in Keys] ==
            IF Toward(x, key) = NULL THEN x ELSE place[Toward(x, key)]
    IN IF t.root = NULL THEN NULL ELSE place[t.root]

\* minimum and maximum of the tree under x: the last node on side s.
Extreme(x, s) ==
    LET last[y \in Keys] == IF t.child[y][s] = NULL THEN y ELSE last[t.child[y][s]]
    IN IF x = NULL THEN NULL ELSE last[x]

\* rbtree_successor (s = "right") and rbtree_predecessor ("left").
Neighbour(x, s) ==
    LET climb[y \in Keys] ==
            IF t.parent[y] = NULL \/ t.child[t.parent[y]][s] # y THEN t.parent[y]
            ELSE climb[t.parent[y]]
    IN IF t.child[x][s] # NULL THEN Extreme(t.child[x][s], Other(s)) ELSE climb[x]
-----------------------------------------------------------------------------
(* Insertion.                                                              *)

Insert(key) ==
    /\ pc = "idle"
    /\ Search(key) = NULL
    /\ LET y == Place(key)
           fresh == SetParent(Paint(t, key, RED), key, y)
       IN t' = IF y = NULL THEN [fresh EXCEPT !.root = key]
               ELSE [fresh EXCEPT !.child[y][IF key < y THEN "left" ELSE "right"] = key]
    /\ pc' = "insert" /\ node' = key
    /\ UNCHANGED parent

\* Mutant: a red uncle is not looked at.
MutInsertFixup ==
    /\ pc = "insert"
    /\ Red(t.parent[node])
    /\ LET p == t.parent[node]
           g == t.parent[p]
           s == SideOf(t, p)
       IN t' = Rotate(Paint(Paint(t, p, BLACK), g, RED), g, Other(s))
    /\ UNCHANGED <<pc, node, parent>>

\* One pass of the loop: the parent p of the node and the uncle u are red
\* (case 1), or u is black and the node is an inner (2, 3) or outer (3) child.
InsertFixup ==
    /\ pc = "insert"
    /\ Red(t.parent[node])
    /\ LET p == t.parent[node]
           g == t.parent[p]
           s == SideOf(t, p)
           u == t.child[g][Other(s)]
           inner == SideOf(t, node) # s
           top == IF inner THEN node ELSE p
           turned == IF inner THEN Rotate(t, p, s) ELSE t
       IN IF Red(u)
          THEN /\ t' = Paint(Paint(Paint(t, u, BLACK), p, BLACK), g, RED)
               /\ node' = g
          ELSE /\ t' = Rotate(Paint(Paint(turned, top, BLACK), g, RED), g, Other(s))
               /\ node' = IF inner THEN p ELSE node
    /\ UNCHANGED <<pc, parent>>

Done == pc' = "idle" /\ node' = NULL /\ parent' = NULL

InsertFixupEnds ==
    /\ pc = "insert"
    /\ ~Red(t.parent[node])
    /\ t' = Paint(t, t.root, BLACK)
    /\ Done
-----------------------------------------------------------------------------
(* Deletion.                                                               *)

Freed(tree, x) == [tree EXCEPT !.child[x] = Unused, !.parent[x] = NULL, !.color[x] = BLACK]

\* The child, or NULL, of a node that has not two.
OnlyChild(x) == IF t.child[x].left # NULL THEN t.child[x].left ELSE t.child[x].right

\* A node that has not two leaves its place to its only child c.
SpliceOut(tree, x, c) == Freed(SetParent(Replace(tree, x, c), c, tree.parent[x]), x)

\* The successor r of x leaves its place to its right child, for the one below x ...
PullOut(tree, x, r) ==
    LET c == tree.child[r].right
        w == tree.child[x].right
        p == tree.parent[r]
    IN IF p = x THEN tree
       ELSE SetParent(SetChild(SetChild(SetParent(tree, c, p), p, "left", c), r, "right", w), w, r)

\* ... and takes over the parent, the colour and the left child of x.
TakeOver(tree, x, r) ==
    LET l == tree.child[x].left
    IN SetParent(SetChild(SetParent(Paint(tree, r, tree.color[x]), r, tree.parent[x]), r, "left", l),
                 l, r)

Supersede(tree, x, r) == Freed(TakeOver(PullOut(Replace(tree, x, r), x, r), x, r), x)

\* A node with two children gives its place and its colour to its successor.
\* node is the child that may have lost a black node above it, below its parent.
Unlink(x) ==
    IF NULL \in {t.child[x].left, t.child[x].right}
    THEN [tree  |-> SpliceOut(t, x, OnlyChild(x)),
          color |-> t.color[x], node |-> OnlyChild(x), parent |-> t.parent[x]]
    ELSE LET r == Extreme(t.child[x].right, "left")
         IN [tree |-> Supersede(t, x, r), color |-> t.color[r], node |-> t.child[r].right,
             parent |-> IF t.parent[r] = x THEN r ELSE t.parent[r]]

Delete(key) ==
    /\ pc = "idle"
    /\ Search(key) # NULL
    /\ LET u == Unlink(key)
       IN /\ t' = u.tree
          /\ IF u.color = BLACK
             THEN pc' = "delete" /\ node' = u.node /\ parent' = u.parent
             ELSE UNCHANGED <<pc, node, parent>>

\* Case 1: a red sibling on the other side of p than s moves up, and a child of it,
\* which is black, is the sibling now.
LiftRedSibling(tree, p, s) ==
    LET w == tree.child[p][Other(s)]
    IN IF tree.color[w] = RED
       THEN Rotate(Paint(Paint(tree, w, BLACK), p, RED), p, s) ELSE tree

\* Case 3: only the near nephew is red, and becomes the sibling.
LiftNearNephew(tree, p, s) ==
    LET o == Other(s)
        w == tree.child[p][o]
    IN IF RedIn(tree, tree.child[w][o]) THEN tree
       ELSE Rotate(Paint(Paint(tree, tree.child[w][s], BLACK), w, RED), w, o)

\* Case 4: the far nephew is red.
LiftSibling(tree, p, s) ==
    LET o == Other(s)
        w == tree.child[p][o]
    IN Rotate(Paint(Paint(Paint(tree, w, tree.color[p]), p, BLACK),
                    tree.child[w][o], BLACK), p, s)

\* One pass of the loop, for a node on side s and its sibling w.
DeleteFixup ==
    /\ pc = "delete"
    /\ ~Red(node) /\ node # t.root
    /\ LET s == IF t.child[parent].left = node THEN "left" ELSE "right"
           lifted == LiftRedSibling(t, parent, s)
           w == lifted.child[parent][Other(s)]
       IN IF \A x \in Sides : ~RedIn(lifted, lifted.child[w][x])
          THEN /\ t' = Paint(lifted, w, RED)
               /\ node' = parent /\ parent' = lifted.parent[parent]
          ELSE /\ t' = LiftSibling(LiftNearNephew(lifted, parent, s), parent, s)
               /\ node' = t'.root /\ UNCHANGED parent
    /\ UNCHANGED pc

DeleteFixupEnds ==
    /\ pc = "delete"
    /\ Red(node) \/ node = t.root
    /\ t' = IF node = NULL THEN t ELSE Paint(t, node, BLACK)
    /\ Done

\* destroy_rbtree, and create_rbtree of the next tree.
Destroy ==
    /\ pc = "idle"
    /\ t' = [t EXCEPT !.root = NULL, !.child = [x \in Keys |-> Unused],
                      !.parent = [x \in Keys |-> NULL], !.color = [x \in Keys |-> BLACK]]
    /\ UNCHANGED <<pc, node, parent>>

Next ==
    \/ \E key \in Keys : Insert(key) \/ Delete(key)
    \/ InsertFixup \/ InsertFixupEnds \/ DeleteFixup \/ DeleteFixupEnds \/ Destroy

Spec == Init /\ [][Next]_vars
-----------------------------------------------------------------------------
(* Properties.                                                             *)

\* Type correctness.
TypeOK ==
    /\ t.root \in Keys \cup {NULL}
    /\ t.child \in [Keys -> [Sides -> Keys \cup {NULL}]]
    /\ t.parent \in [Keys -> Keys \cup {NULL}]
    /\ t.color \in [Keys -> {RED, BLACK}]
    /\ pc \in {"idle", "insert", "delete"}
    /\ node \in Keys \cup {NULL} /\ parent \in Keys \cup {NULL}

In == {x \in Keys : Search(x) = x}

\* The links go both ways: x's child has x as its parent, and the root none.
ParentLinks ==
    /\ t.root # NULL => t.parent[t.root] = NULL
    /\ \A x \in In, s \in Sides :
          t.child[x][s] # NULL => t.parent[t.child[x][s]] = x

\* The walk by successors and predecessors is the order of the keys.
Walks ==
    \A x \in In :
        LET above == {y \in In : y > x}
            below == {y \in In : y < x}
        IN /\ above = {} => Neighbour(x, "right") = NULL
           /\ above # {} => Neighbour(x, "right") \in above
                             /\ \A y \in above : Neighbour(x, "right") <= y
           /\ below = {} => Neighbour(x, "left") = NULL
           /\ below # {} => Neighbour(x, "left") \in below
                             /\ \A y \in below : Neighbour(x, "left") >= y

BlackHeights ==
    LET heights[x \in Keys \cup {NULL}] ==
            IF x = NULL THEN {1}
            ELSE {h + t.color[x] : h \in heights[t.child[x].left] \cup heights[t.child[x].right]}
    IN heights[t.root]

\* Between two operations the tree is a red-black tree: a black root, no red
\* child of a red node, and as many black nodes on every way down.
RedBlack ==
    pc = "idle" =>
        /\ ~Red(t.root)
        /\ \A x \in In : Red(x) => \A s \in Sides : ~Red(t.child[x][s])
        /\ \E h \in BlackHeights : BlackHeights = {h}

\* What search finds is the set of the keys inserted and not deleted since, also
\* in the middle of a fix-up.
Abstract == INSTANCE OrderedSet WITH set <- In

ImplementsSet == Abstract!Spec
=============================================================================
