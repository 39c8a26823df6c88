----------------------------- MODULE TreeProofs -----------------------------
(***************************************************************************)
(* Theorems about the structures of the C library that are trees: the      *)
(* red-black tree, for every set of keys, and the heap of the timer, for   *)
(* every set of ids and of timeouts and every capacity.                    *)
(***************************************************************************)
EXTENDS LibraryTrees, FiniteSets, FiniteSetTheorems, WellFoundedInduction, TLAPS

LEMMA LeastNumber ==
    ASSUME NEW S \in SUBSET Nat, S # {}
    PROVE  \E x \in S : \A y \in S : x <= y
<1>1. PICK x \in S : \A y \in S : ~ (<<y, x>> \in OpToRel(<, Nat))
  BY WFMin, NatLessThanWellFounded
<1>2. \A y \in S : ~(y < x)
  <2> SUFFICES ASSUME NEW y \in S, y < x
               PROVE  <<y, x>> \in OpToRel(<, Nat)
    BY <1>1
  <2>1. x \in Nat /\ y \in Nat
    OBVIOUS
  <2> QED
    BY <2>1, Zenon DEF OpToRel
<1> QED
  BY <1>2

-----------------------------------------------------------------------------
(* Descending: a function that calls itself once, in another place.        *)

IsDescent(f, X, stop, val, nx) == f = [x \in X |-> IF x \in stop THEN val[x] ELSE f[nx[x]]]

\* Such a function exists, wherever the places lead: where the descent ends is the
\* place in which every set that follows it has.
LEMMA DescentExists ==
    ASSUME NEW X, NEW stop \in SUBSET X, NEW val, NEW nx, \A x \in X \ stop : nx[x] \in X
    PROVE  \E f : IsDescent(f, X, stop, val, nx)
<1> DEFINE Follows(A) == \A z \in A \ stop : nx[z] \in A
           Ends(x) == {y \in stop : \A A \in SUBSET X : x \in A /\ Follows(A) => y \in A}
           pick == [E \in SUBSET stop |-> val[CHOOSE y : y \in E]]
           f == [x \in X |-> pick[Ends(x)]]
<1>1. ASSUME NEW x \in X \ stop PROVE Ends(x) = Ends(nx[x])
  <2>1. ASSUME NEW y \in Ends(x) PROVE y \in Ends(nx[x])
    <3> SUFFICES ASSUME NEW A \in SUBSET X, nx[x] \in A, Follows(A) PROVE y \in A
      OBVIOUS
    <3>1. A \cup {x} \in SUBSET X /\ Follows(A \cup {x})
      OBVIOUS
    <3>2. y \in A \cup {x} /\ y \in stop
      BY <3>1
    <3> QED
      BY <3>2
  <2>2. ASSUME NEW y \in Ends(nx[x]) PROVE y \in Ends(x)
    OBVIOUS
  <2> QED
    BY <2>1, <2>2
<1>2. ASSUME NEW x \in stop PROVE Ends(x) = {x}
  <2>1. {x} \in SUBSET X /\ Follows({x})
    OBVIOUS
  <2> QED
    BY <2>1
<1>3. \A x \in X : Ends(x) \in SUBSET stop
  OBVIOUS
<1>4. \A x \in stop : pick[{x}] = val[x]
  <2> SUFFICES ASSUME NEW x \in stop PROVE pick[{x}] = val[x]
    OBVIOUS
  <2>1. {x} \in SUBSET stop /\ (CHOOSE y : y \in {x}) = x
    OBVIOUS
  <2> QED
    BY <2>1
<1> HIDE DEF pick
<1>5. \A x \in X : f[x] = IF x \in stop THEN val[x] ELSE f[nx[x]]
  <2> HIDE DEF Ends
  <2> SUFFICES ASSUME NEW x \in X PROVE f[x] = IF x \in stop THEN val[x] ELSE f[nx[x]]
    OBVIOUS
  <2>1. CASE x \in stop
    BY <2>1, <1>2, <1>4
  <2>2. CASE x \notin stop
    BY <2>2, <1>1
  <2> QED
    BY <2>1, <2>2
<1>6. f = [x \in X |-> f[x]]
  OBVIOUS
<1> HIDE DEF f
<1>7. f = [x \in X |-> IF x \in stop THEN val[x] ELSE f[nx[x]]]
  BY <1>5, <1>6, Zenon
<1> QED
  BY <1>7 DEF IsDescent
-----------------------------------------------------------------------------
(* The shape of the red-black tree.                                        *)

Links == RbKeys \cup {0}
TheSides == {"left", "right"}
Across(s) == IF s = "left" THEN "right" ELSE "left"
Beyond(s, x, y) == IF s = "left" THEN y < x ELSE x < y

Trees == [root : Links, child : [RbKeys -> [TheSides -> Links]],
          parent : [RbKeys -> Links], color : [RbKeys -> {0, 1}]]

\* The nodes of u are S, and D[x] those from x downwards.
Shaped(S, D, u) ==
    /\ u \in Trees /\ S \in SUBSET RbKeys /\ IsFiniteSet(S)
    /\ D \in [Links -> SUBSET S] /\ \A x \in Links \ S : D[x] = {}
    /\ u.root \in S \cup {0} /\ D[u.root] = S /\ (u.root # 0 => u.parent[u.root] = 0)
    /\ \A x \in S, s \in TheSides :
          /\ u.child[x][s] \in S \cup {0}
          /\ u.child[x][s] # 0 => u.parent[u.child[x][s]] = x
          /\ D[x] = {x} \cup D[u.child[x][s]] \cup D[u.child[x][Across(s)]]
          /\ \A y \in D[u.child[x][s]] : Beyond(s, x, y)
    /\ \A x \in S \ {u.root} :
          u.parent[x] \in S /\ \E s \in TheSides : u.child[u.parent[x]][s] = x
    /\ \A x \in RbKeys \ S : u.parent[x] = 0 /\ \A s \in TheSides : u.child[x][s] = 0

LEMMA SideFacts ==
    ASSUME NEW s \in TheSides
    PROVE  /\ Across(s) \in TheSides /\ Across(s) # s /\ Across(Across(s)) = s
           /\ \A o \in TheSides : o = s \/ o = Across(s)
           /\ \A x, y \in Int : Beyond(s, x, y) => x # y /\ ~Beyond(Across(s), x, y)
           /\ \A x, y \in Int : x # y => Beyond(s, x, y) \/ Beyond(Across(s), x, y)
           /\ \A x, y, z \in Int : Beyond(s, x, y) /\ Beyond(s, y, z) => Beyond(s, x, z)
           /\ \A x, y \in Int : Beyond(s, x, y) <=> Beyond(Across(s), y, x)
BY DEF TheSides, Across, Beyond

\* What every node of a tree knows of its children.
LEMMA NodeFacts ==
    ASSUME TreeKeys, NEW S, NEW D, NEW u, Shaped(S, D, u), NEW x \in S, NEW s \in TheSides
    PROVE  /\ x \in RbKeys /\ x \in Int /\ x # 0 /\ x \in D[x] /\ D[x] \subseteq S
           /\ u.child[x][s] \in S \cup {0} /\ D[u.child[x][s]] \subseteq D[x]
           /\ D[x] = {x} \cup D[u.child[x][s]] \cup D[u.child[x][Across(s)]]
           /\ x \notin D[u.child[x][s]] /\ u.child[x][s] # x
           /\ D[u.child[x][s]] \cap D[u.child[x][Across(s)]] = {}
           /\ u.child[x][s] # 0 => /\ u.child[x][s] \in D[u.child[x][s]]
                                   /\ u.child[x][s] # u.child[x][Across(s)]
                                   /\ u.parent[u.child[x][s]] = x
<1>1. /\ x \in RbKeys /\ x \in Int /\ x # 0 /\ D[x] \subseteq S /\ S \subseteq Int /\ 0 \notin S
      /\ D \in [Links -> SUBSET S] /\ x \in Links
  BY DEF Shaped, TreeKeys, Links
<1>2. Across(s) \in TheSides /\ Across(s) # s /\ Across(Across(s)) = s
  BY SideFacts
<1>3. \A o \in TheSides :
        /\ u.child[x][o] \in S \cup {0}
        /\ u.child[x][o] # 0 => u.parent[u.child[x][o]] = x
        /\ D[x] = {x} \cup D[u.child[x][o]] \cup D[u.child[x][Across(o)]]
        /\ \A y \in D[u.child[x][o]] : Beyond(o, x, y)
  BY DEF Shaped
<1>4. D[u.child[x][s]] \subseteq D[x] /\ D[u.child[x][Across(s)]] \subseteq D[x]
      /\ x \in D[x]
  BY <1>2, <1>3
<1>5. \A y \in D[u.child[x][s]] : y # x /\ y \notin D[u.child[x][Across(s)]]
  <2> SUFFICES ASSUME NEW y \in D[u.child[x][s]] PROVE y # x /\ y \notin D[u.child[x][Across(s)]]
    OBVIOUS
  <2>1. Beyond(s, x, y) /\ y \in Int
    BY <1>1, <1>3, <1>4
  <2>2. y # x /\ ~Beyond(Across(s), x, y)
    BY <2>1, <1>1, SideFacts
  <2> QED
    BY <2>2, <1>2, <1>3
<1>6. \A z \in S : z \in D[z]
  <2> SUFFICES ASSUME NEW z \in S PROVE z \in D[z]
    OBVIOUS
  <2> QED
    BY DEF Shaped
<1>7. u.child[x][s] # 0 => u.child[x][s] \in D[u.child[x][s]]
  BY <1>3, <1>6
<1> QED
  BY <1>1, <1>2, <1>3, <1>4, <1>5, <1>7

LEMMA SubtreesFinite ==
    ASSUME NEW S, NEW D, NEW u, Shaped(S, D, u), NEW x \in Links
    PROVE  IsFiniteSet(D[x]) /\ Cardinality(D[x]) \in Nat /\ D[x] \subseteq S
<1>1. D[x] \subseteq S /\ IsFiniteSet(S)
  BY DEF Shaped
<1>2. IsFiniteSet(D[x])
  BY <1>1, FS_Subset
<1> QED
  BY <1>1, <1>2, FS_CardinalityType

LEMMA SmallerBelow ==
    ASSUME TreeKeys, NEW S, NEW D, NEW u, Shaped(S, D, u), NEW x \in S, NEW s \in TheSides
    PROVE  Cardinality(D[u.child[x][s]]) < Cardinality(D[x])
<1>1. D[u.child[x][s]] \subseteq D[x] /\ x \in D[x] /\ x \notin D[u.child[x][s]]
      /\ u.child[x][s] \in Links /\ x \in Links
  BY NodeFacts DEF Links
<1>2. IsFiniteSet(D[x])
  BY <1>1, SubtreesFinite
<1>3. D[u.child[x][s]] # D[x]
  BY <1>1
<1> DEFINE V == D[u.child[x][s]]
           W == D[x]
<1>4. V \subseteq W /\ V # W /\ IsFiniteSet(W)
  BY <1>1, <1>2, <1>3
<1>5. Cardinality(V) \in Nat /\ Cardinality(W) \in Nat
  BY <1>1, SubtreesFinite
<1> HIDE DEF V, W
<1>6. Cardinality(V) <= Cardinality(W) /\ (Cardinality(V) = Cardinality(W) => V = W)
  BY <1>4, FS_Subset
<1> QED
  BY <1>4, <1>5, <1>6 DEF V, W

\* What a node has when its children have it, all nodes have.
LEMMA FromBelow ==
    ASSUME TreeKeys, NEW S, NEW D, NEW u, Shaped(S, D, u), NEW A,
           \A x \in S : (\A s \in TheSides : u.child[x][s] # 0 => u.child[x][s] \in A) => x \in A
    PROVE  \A x \in S : x \in A
<1> DEFINE bad == {x \in S : x \notin A}
           sizes == {Cardinality(D[x]) : x \in bad}
<1> SUFFICES ASSUME bad # {} PROVE FALSE
  OBVIOUS
<1>0. S \subseteq Links
  BY DEF Shaped, Links
<1>1. sizes \in SUBSET Nat /\ sizes # {}
  BY <1>0, SubtreesFinite
<1>2. PICK k \in sizes : \A m \in sizes : k <= m
  BY <1>1, LeastNumber
<1>3. PICK x \in bad : Cardinality(D[x]) = k
  OBVIOUS
<1>4. \A s \in TheSides : u.child[x][s] # 0 => u.child[x][s] \in A
  <2> SUFFICES ASSUME NEW s \in TheSides, u.child[x][s] # 0, u.child[x][s] \notin A PROVE FALSE
    OBVIOUS
  <2>1. u.child[x][s] \in bad
    BY NodeFacts
  <2>2. Cardinality(D[u.child[x][s]]) \in sizes
    BY <2>1
  <2>3. k <= Cardinality(D[u.child[x][s]])
    BY <1>2, <2>2
  <2>4. Cardinality(D[u.child[x][s]]) < Cardinality(D[x])
    BY SmallerBelow
  <2>5. Cardinality(D[u.child[x][s]]) \in Nat /\ k \in Nat
    BY <1>1, <2>2
  <2> QED
    BY <1>3, <2>3, <2>4, <2>5
<1> QED
  BY <1>4

LEMMA Deeper ==
    ASSUME TreeKeys, NEW S, NEW D, NEW u, Shaped(S, D, u), NEW x \in S, NEW y \in D[x]
    PROVE  D[y] \subseteq D[x]
<1> DEFINE A == {v \in S : \A w \in D[v] : D[w] \subseteq D[v]}
<1>1. ASSUME NEW v \in S, \A s \in TheSides : u.child[v][s] # 0 => u.child[v][s] \in A
      PROVE  v \in A
  <2>1. PICK s \in TheSides : TRUE
    BY DEF TheSides
  <2>2. /\ D[v] = {v} \cup D[u.child[v][s]] \cup D[u.child[v][Across(s)]]
        /\ Across(s) \in TheSides /\ u.child[v][s] \in S \cup {0}
        /\ u.child[v][Across(s)] \in S \cup {0} /\ 0 \in Links \ S
    BY NodeFacts, SideFacts DEF Links
  <2>3. D[0] = {}
    BY <2>2 DEF Shaped
  <2>4. ASSUME NEW o \in TheSides, NEW w \in D[u.child[v][o]] PROVE D[w] \subseteq D[v]
    <3>1. u.child[v][o] # 0
      BY <2>3
    <3>2. D[w] \subseteq D[u.child[v][o]]
      BY <3>1, <1>1
    <3> QED
      BY <3>2, NodeFacts
  <2>5. \A w \in D[v] : D[w] \subseteq D[v]
    BY <2>2, <2>4
  <2> QED
    BY <2>5
<1> HIDE DEF A
<1>2. \A v \in S : v \in A
  BY <1>1, FromBelow
<1> QED
  BY <1>2 DEF A

LEMMA NothingBelowNull ==
    ASSUME TreeKeys, NEW S, NEW D, NEW u, Shaped(S, D, u)
    PROVE  /\ D[0] = {} /\ 0 \notin S /\ S \subseteq Links /\ S \subseteq Int /\ S \subseteq RbKeys
           /\ u.root = 0 <=> S = {}
           /\ u.root # 0 => u.root \in S /\ D[u.root] = S /\ u.parent[u.root] = 0
           /\ u.root = 0 => S = {}
BY NodeFacts DEF Shaped, Links, TreeKeys

\* Two nodes are not below each other.
LEMMA NotAbove ==
    ASSUME TreeKeys, NEW S, NEW D, NEW u, Shaped(S, D, u), NEW x \in S, NEW y \in D[x], x \in D[y]
    PROVE  x = y
<1> SUFFICES ASSUME x # y PROVE FALSE
  OBVIOUS
<1>1. PICK s \in TheSides : TRUE
  BY DEF TheSides
<1>2. Across(s) \in TheSides /\ Across(Across(s)) = s
  BY SideFacts
<1>3. \A o \in TheSides : u.child[x][o] \in S \cup {0} /\ x \notin D[u.child[x][o]]
  BY NodeFacts
<1>4. D[x] = {x} \cup D[u.child[x][s]] \cup D[u.child[x][Across(s)]]
  BY NodeFacts
<1>5. PICK o \in TheSides : y \in D[u.child[x][o]]
  BY <1>2, <1>4
<1>6. u.child[x][o] \in S
  BY <1>3, <1>5, NothingBelowNull
<1>7. D[y] \subseteq D[u.child[x][o]]
  BY <1>5, <1>6, Deeper
<1> QED
  BY <1>3, <1>7

\* The parent of a node, and of all below it, is outside.
LEMMA ParentFacts ==
    ASSUME TreeKeys, NEW S, NEW D, NEW u, Shaped(S, D, u), NEW x \in S
    PROVE  /\ u.parent[x] \in S \cup {0} /\ (u.parent[x] = 0 <=> x = u.root)
           /\ u.parent[x] # x /\ u.parent[x] \notin D[x]
           /\ u.parent[x] # 0 =>
                 \E s \in TheSides : /\ u.child[u.parent[x]][s] = x
                                     /\ u.child[u.parent[x]][Across(s)] # x
                                     /\ x \in D[u.parent[x]] /\ D[x] \subseteq D[u.parent[x]]
<1>1. x \in Int /\ x # 0 /\ x \in D[x] /\ 0 \notin S /\ D[x] \subseteq S /\ D \in [Links -> SUBSET S]
  BY NodeFacts, NothingBelowNull, SideFacts DEF TheSides, Shaped
<1>2. CASE x = u.root
  BY <1>1, <1>2, NothingBelowNull
<1>3. CASE x # u.root
  <2>1. u.parent[x] \in S /\ \E s \in TheSides : u.child[u.parent[x]][s] = x
    BY <1>3 DEF Shaped
  <2>2. PICK s \in TheSides : u.child[u.parent[x]][s] = x
    BY <2>1
  <2> DEFINE p == u.parent[x]
  <2>3. p \in S /\ u.child[p][s] = x
    BY <2>1, <2>2
  <2> HIDE DEF p
  <2>4. /\ p \notin D[x] /\ p # x /\ x # u.child[p][Across(s)] /\ D[x] \subseteq D[p]
    BY <2>3, <1>1, NodeFacts
  <2> QED
    BY <1>1, <1>3, <2>2, <2>3, <2>4 DEF p
<1> QED
  BY <1>2, <1>3

\* What the root has, and a child has with its parent, all nodes have.
LEMMA FromAbove ==
    ASSUME TreeKeys, NEW S, NEW D, NEW u, Shaped(S, D, u), NEW A,
           \A x \in S : (u.parent[x] = 0 \/ u.parent[x] \in A) => x \in A
    PROVE  \A x \in S : x \in A
<1> DEFINE E == {x \in S : x \in A => \A y \in D[x] : y \in A}
<1>1. ASSUME NEW v \in S, \A s \in TheSides : u.child[v][s] # 0 => u.child[v][s] \in E
      PROVE  v \in E
  <2> SUFFICES ASSUME v \in A PROVE \A y \in D[v] : y \in A
    OBVIOUS
  <2>1. PICK s \in TheSides : TRUE
    BY DEF TheSides
  <2>2. D[v] = {v} \cup D[u.child[v][s]] \cup D[u.child[v][Across(s)]] /\ Across(s) \in TheSides
    BY NodeFacts, SideFacts
  <2>3. ASSUME NEW o \in TheSides, NEW y \in D[u.child[v][o]] PROVE y \in A
    <3>1. u.child[v][o] # 0
      BY NothingBelowNull
    <3>2. u.child[v][o] \in E /\ u.child[v][o] \in S /\ u.parent[u.child[v][o]] = v
      BY <3>1, <1>1, NodeFacts
    <3>3. u.child[v][o] \in A
      BY <3>2
    <3> QED
      BY <3>2, <3>3
  <2> QED
    BY <2>2, <2>3
<1> HIDE DEF E
<1>2. \A v \in S : v \in E
  BY <1>1, FromBelow
<1>3. ASSUME NEW x \in S PROVE x \in A
  <2>1. u.root \in S /\ D[u.root] = S /\ u.parent[u.root] = 0
    BY NothingBelowNull
  <2>2. u.root \in A
    BY <2>1
  <2> QED
    BY <1>2, <2>1, <2>2 DEF E
<1> QED
  BY <1>3

-----------------------------------------------------------------------------
(* Steps on the links.                                                     *)

\* v is u with another color of x.
Painted(u, x, c, v) ==
    /\ v \in Trees /\ v.root = u.root /\ v.child = u.child /\ v.parent = u.parent
    /\ \A z \in RbKeys : v.color[z] = IF z = x THEN c ELSE u.color[z]

LEMMA PaintForm ==
    ASSUME NEW u \in Trees, NEW x \in RbKeys, NEW c \in {0, 1}
    PROVE  Painted(u, x, c, RB!Paint(u, x, c))
BY DEF RB!Paint, Trees, Painted

LEMMA SetParentForm ==
    ASSUME NEW u \in Trees, NEW x \in Links, NEW p \in Links
    PROVE  /\ RB!SetParent(u, x, p) \in Trees
           /\ RB!SetParent(u, x, p).root = u.root /\ RB!SetParent(u, x, p).child = u.child
           /\ RB!SetParent(u, x, p).color = u.color
           /\ \A z \in RbKeys : RB!SetParent(u, x, p).parent[z] =
                 IF x # 0 /\ z = x THEN p ELSE u.parent[z]
BY DEF RB!SetParent, RB!NULL, Trees, Links

LEMMA SetChildForm ==
    ASSUME NEW u \in Trees, NEW p \in RbKeys, NEW s \in TheSides, NEW y \in Links
    PROVE  /\ [u EXCEPT !.child[p][s] = y] \in Trees
           /\ [u EXCEPT !.child[p][s] = y].root = u.root
           /\ [u EXCEPT !.child[p][s] = y].parent = u.parent
           /\ [u EXCEPT !.child[p][s] = y].color = u.color
           /\ \A z \in RbKeys, o \in TheSides : [u EXCEPT !.child[p][s] = y].child[z][o] =
                 IF z = p /\ o = s THEN y ELSE u.child[z][o]
BY DEF Trees

LEMMA SetRootForm ==
    ASSUME NEW u \in Trees, NEW y \in Links
    PROVE  /\ [u EXCEPT !.root = y] \in Trees
           /\ [u EXCEPT !.root = y].root = y
           /\ [u EXCEPT !.root = y].parent = u.parent
           /\ [u EXCEPT !.root = y].color = u.color
           /\ [u EXCEPT !.root = y].child = u.child
BY DEF Trees

SideIn(u, x) == IF u.child[u.parent[x]]["left"] = x THEN "left" ELSE "right"

LEMMA ReplaceForm ==
    ASSUME 0 \notin RbKeys, NEW u \in Trees, NEW x \in RbKeys, NEW y \in Links
    PROVE  /\ RB!Replace(u, x, y) \in Trees
           /\ RB!Replace(u, x, y).root = IF u.parent[x] = 0 THEN y ELSE u.root
           /\ RB!Replace(u, x, y).parent = u.parent /\ RB!Replace(u, x, y).color = u.color
           /\ \A z \in RbKeys, o \in TheSides : RB!Replace(u, x, y).child[z][o] =
                 IF z = u.parent[x] /\ o = SideIn(u, x) THEN y ELSE u.child[z][o]
<1>1. u.parent[x] \in Links /\ SideIn(u, x) \in TheSides /\ RB!SideOf(u, x) = SideIn(u, x)
  BY DEF Trees, TheSides, SideIn, RB!SideOf
<1>2. CASE u.parent[x] = 0
  <2>1. RB!Replace(u, x, y) = [u EXCEPT !.root = y]
    BY <1>2 DEF RB!Replace, RB!NULL
  <2> QED
    BY <1>2, <2>1, SetRootForm
<1>3. CASE u.parent[x] # 0
  <2>1. RB!Replace(u, x, y) = [u EXCEPT !.child[u.parent[x]][SideIn(u, x)] = y]
    BY <1>1, <1>3 DEF RB!Replace, RB!NULL
  <2>2. u.parent[x] \in RbKeys
    BY <1>1, <1>3 DEF Links
  <2> QED
    BY <1>1, <1>3, <2>1, <2>2, SetChildForm
<1> QED
  BY <1>2, <1>3

\* v is u, turned at x toward the side s.
Rotated(u, x, s, v) ==
    LET y == u.child[x][Across(s)]
        b == u.child[y][s]
        p == u.parent[x]
    IN /\ v \in Trees /\ v.color = u.color
       /\ v.root = IF p = 0 THEN y ELSE u.root
       /\ \A z \in RbKeys, o \in TheSides : v.child[z][o] =
             IF z = x /\ o = Across(s) THEN b
             ELSE IF z = y /\ o = s THEN x
             ELSE IF z = p /\ u.child[z][o] = x THEN y
             ELSE u.child[z][o]
       /\ \A z \in RbKeys : v.parent[z] =
             IF z = x THEN y ELSE IF z = y THEN p ELSE IF z = b THEN x ELSE u.parent[z]

\* Where a node is, and what is around it when it is rotated.
AroundIn(S, D, u, x, s) ==
    LET y == u.child[x][Across(s)]
        a == u.child[x][s]
        b == u.child[y][s]
        c == u.child[y][Across(s)]
        p == u.parent[x]
    IN /\ y \in S /\ a \in S \cup {0} /\ b \in S \cup {0} /\ c \in S \cup {0}
       /\ p \in S \cup {0} /\ x # y /\ u.parent[y] = x
       /\ a \notin {x, y} /\ b \notin {x, y} /\ c \notin {x, y}
       /\ p \notin {x, y} /\ (p # 0 => p # b)
       /\ (b # 0 => b # c /\ b # a /\ u.parent[b] = y)
       /\ (c # 0 => c # a /\ u.parent[c] = y) /\ (a # 0 => u.parent[a] = x)
       /\ D[x] = {x} \cup D[a] \cup D[y] /\ D[y] = {y} \cup D[b] \cup D[c]
       /\ x \notin D[y] /\ x \notin D[a] /\ y \notin D[a] /\ p \notin D[x]
       /\ (p = 0 <=> x = u.root)

LEMMA AroundRotation ==
    ASSUME TreeKeys, NEW S, NEW D, NEW u, Shaped(S, D, u), NEW x \in S, NEW s \in TheSides,
           u.child[x][Across(s)] # 0
    PROVE  AroundIn(S, D, u, x, s)
<1> DEFINE y == u.child[x][Across(s)]
           a == u.child[x][s]
           b == u.child[y][s]
           c == u.child[y][Across(s)]
           p == u.parent[x]
<1>1. Across(s) \in TheSides /\ Across(Across(s)) = s /\ 0 \notin S
  BY SideFacts, NothingBelowNull
<1>2. /\ y \in S /\ y # x /\ u.parent[y] = x /\ D[x] = {x} \cup D[a] \cup D[y] /\ x \notin D[y]
      /\ y \in D[y]
  BY <1>1, NodeFacts
<1>3. /\ a \in S \cup {0} /\ (a # 0 => u.parent[a] = x /\ a \in D[a] /\ a # y)
      /\ D[a] \cap D[y] = {} /\ x \notin D[a] /\ a # x
  BY <1>1, NodeFacts
<1>4. /\ b \in S \cup {0} /\ (b # 0 => u.parent[b] = y /\ b \in D[b] /\ b # c)
      /\ D[y] = {y} \cup D[b] \cup D[c] /\ b # y
  BY <1>1, <1>2, NodeFacts
<1>5. /\ c \in S \cup {0} /\ (c # 0 => u.parent[c] = y /\ c \in D[c]) /\ c # y
  BY <1>1, <1>2, NodeFacts
<1>6. p \in S \cup {0} /\ p \notin D[x] /\ (p = 0 <=> x = u.root) /\ p # x
  BY ParentFacts
<1> HIDE DEF y, a, b, c, p
<1>7. b # x /\ c # x /\ (b # 0 => b # a) /\ (c # 0 => c # a) /\ (p # 0 => p # b) /\ p # y
  BY <1>1, <1>2, <1>3, <1>4, <1>5, <1>6
<1>8. a # y /\ y \notin D[a]
  BY <1>1, <1>2, <1>3
<1> QED
  BY <1>2, <1>3, <1>4, <1>5, <1>6, <1>7, <1>8 DEF y, a, b, c, p, AroundIn

LEMMA RotateForm ==
    ASSUME TreeKeys, NEW S, NEW D, NEW u, Shaped(S, D, u), NEW x \in S, NEW s \in TheSides,
           u.child[x][Across(s)] # 0
    PROVE  Rotated(u, x, s, RB!Rotate(u, x, s))
<1> DEFINE y == u.child[x][Across(s)]
           b == u.child[y][s]
           p == u.parent[x]
           u1 == [u EXCEPT !.child[x][Across(s)] = b]
           u2 == RB!SetParent(u1, b, x)
           u3 == RB!SetParent(u2, y, p)
           u4 == RB!Replace(u3, x, y)
           u5 == [u4 EXCEPT !.child[y][s] = x]
           v == RB!SetParent(u5, x, y)
<1>1. RB!Rotate(u, x, s) = v
  BY Zenon DEF RB!Rotate, RB!Other, Across
<1>2. /\ y \in S /\ b \in S \cup {0} /\ p \in S \cup {0} /\ x # y
      /\ b \notin {x, y} /\ p \notin {x, y} /\ (p # 0 => p # b)
  <2>1. AroundIn(S, D, u, x, s)
    BY AroundRotation
  <2> QED
    BY <2>1 DEF AroundIn
<1>3. /\ 0 \notin RbKeys /\ 0 \notin S /\ S \subseteq RbKeys /\ u \in Trees
      /\ Across(s) \in TheSides /\ Across(s) # s
  BY SideFacts, NothingBelowNull DEF Shaped, TreeKeys
<1>4. /\ x \in RbKeys /\ y \in RbKeys /\ b \in Links /\ p \in Links /\ y \in Links /\ x \in Links
  BY <1>2, <1>3 DEF Links
<1>5. p # 0 => \E o \in TheSides : u.child[p][o] = x /\ u.child[p][Across(o)] # x
  BY ParentFacts
<1> HIDE DEF y, b, p
<1>6. /\ u1 \in Trees /\ u1.root = u.root /\ u1.parent = u.parent /\ u1.color = u.color
      /\ \A z \in RbKeys, o \in TheSides : u1.child[z][o] =
            IF z = x /\ o = Across(s) THEN b ELSE u.child[z][o]
  BY <1>3, <1>4, SetChildForm
<1> HIDE DEF u1
<1>7. /\ u2 \in Trees /\ u2.root = u1.root /\ u2.child = u1.child /\ u2.color = u1.color
      /\ \A z \in RbKeys : u2.parent[z] = IF b # 0 /\ z = b THEN x ELSE u1.parent[z]
  <2>1. u1 \in Trees /\ b \in Links /\ x \in Links
    BY <1>4, <1>6
  <2> QED
    BY <2>1, SetParentForm
<1> HIDE DEF u2
<1>8. /\ u3 \in Trees /\ u3.root = u2.root /\ u3.child = u2.child /\ u3.color = u2.color
      /\ \A z \in RbKeys : u3.parent[z] = IF y # 0 /\ z = y THEN p ELSE u2.parent[z]
  BY <1>4, <1>7, SetParentForm
<1> HIDE DEF u3
<1>9. u3.parent[x] = p
  BY <1>2, <1>3, <1>4, <1>6, <1>7, <1>8 DEF p
<1>10. /\ u4 \in Trees /\ u4.root = (IF p = 0 THEN y ELSE u3.root)
       /\ u4.parent = u3.parent /\ u4.color = u3.color
       /\ \A z \in RbKeys, o \in TheSides : u4.child[z][o] =
             IF z = p /\ o = SideIn(u3, x) THEN y ELSE u3.child[z][o]
  <2>1. /\ RB!Replace(u3, x, y) \in Trees
        /\ RB!Replace(u3, x, y).root = IF u3.parent[x] = 0 THEN y ELSE u3.root
        /\ RB!Replace(u3, x, y).parent = u3.parent /\ RB!Replace(u3, x, y).color = u3.color
        /\ \A z \in RbKeys, o \in TheSides : RB!Replace(u3, x, y).child[z][o] =
              IF z = u3.parent[x] /\ o = SideIn(u3, x) THEN y ELSE u3.child[z][o]
    <3>1. 0 \notin RbKeys /\ u3 \in Trees /\ x \in RbKeys /\ y \in Links
      BY <1>3, <1>4, <1>8
    <3> QED
      BY <3>1, ReplaceForm
  <2> QED
    BY <2>1, <1>9
<1>11. \A z \in RbKeys, o \in TheSides :
          (z = p /\ o = SideIn(u3, x)) <=> (z = p /\ u.child[z][o] = x)
  <2> SUFFICES ASSUME NEW o \in TheSides, p \in RbKeys
               PROVE  o = SideIn(u3, x) <=> u.child[p][o] = x
    OBVIOUS
  <2>1. p # 0 /\ p # x
    BY <1>2, <1>3
  <2>2. u3.child[p]["left"] = u.child[p]["left"]
    BY <2>1, <1>6, <1>7, <1>8 DEF TheSides
  <2>3. PICK q \in TheSides : u.child[p][q] = x /\ u.child[p][Across(q)] # x
    BY <2>1, <1>5
  <2>4. SideIn(u3, x) = q
    BY <1>9, <2>2, <2>3 DEF SideIn, TheSides, Across
  <2> QED
    BY <2>3, <2>4, SideFacts
<1> HIDE DEF u4
<1>12. /\ u5 \in Trees /\ u5.root = u4.root /\ u5.parent = u4.parent /\ u5.color = u4.color
       /\ \A z \in RbKeys, o \in TheSides : u5.child[z][o] =
             IF z = y /\ o = s THEN x ELSE u4.child[z][o]
  BY <1>4, <1>10, SetChildForm
<1> HIDE DEF u5
<1>13. /\ v \in Trees /\ v.root = u5.root /\ v.child = u5.child /\ v.color = u5.color
       /\ \A z \in RbKeys : v.parent[z] = IF x # 0 /\ z = x THEN y ELSE u5.parent[z]
  <2>1. u5 \in Trees /\ x \in Links /\ y \in Links
    BY <1>4, <1>12
  <2> QED
    BY <2>1, SetParentForm
<1> HIDE DEF v
<1>14. v.color = u.color /\ v.root = IF p = 0 THEN y ELSE u.root
  BY <1>6, <1>7, <1>8, <1>10, <1>12, <1>13
<1>15. ASSUME NEW z \in RbKeys, NEW o \in TheSides
       PROVE  v.child[z][o] = IF z = x /\ o = Across(s) THEN b
                              ELSE IF z = y /\ o = s THEN x
                              ELSE IF z = p /\ u.child[z][o] = x THEN y
                              ELSE u.child[z][o]
  BY <1>2, <1>6, <1>7, <1>8, <1>10, <1>11, <1>12, <1>13
<1>16. ASSUME NEW z \in RbKeys
       PROVE  v.parent[z] = IF z = x THEN y ELSE IF z = y THEN p ELSE IF z = b THEN x
                            ELSE u.parent[z]
  BY <1>2, <1>3, <1>6, <1>7, <1>8, <1>10, <1>12, <1>13
<1> QED
  BY <1>1, <1>13, <1>14, <1>15, <1>16 DEF Rotated, y, b, p

\* A rotation changes no order: only two nodes have other nodes below them.
LEMMA RotatedShape ==
    ASSUME TreeKeys, NEW S, NEW D, NEW u, Shaped(S, D, u), NEW x \in S, NEW s \in TheSides,
           u.child[x][Across(s)] # 0, NEW v, Rotated(u, x, s, v)
    PROVE  \E E : Shaped(S, E, v)
<1> DEFINE y == u.child[x][Across(s)]
           a == u.child[x][s]
           b == u.child[y][s]
           c == u.child[y][Across(s)]
           p == u.parent[x]
           E == [z \in Links |-> IF z = y THEN D[x] ELSE IF z = x THEN {x} \cup D[a] \cup D[b]
                                 ELSE D[z]]
<1>1. /\ y \in S /\ a \in S \cup {0} /\ b \in S \cup {0} /\ c \in S \cup {0}
      /\ p \in S \cup {0} /\ x # y /\ u.parent[y] = x
      /\ a \notin {x, y} /\ b \notin {x, y} /\ c \notin {x, y}
      /\ p \notin {x, y} /\ (p # 0 => p # b)
      /\ (b # 0 => b # c /\ b # a /\ u.parent[b] = y)
      /\ (c # 0 => c # a /\ u.parent[c] = y) /\ (a # 0 => u.parent[a] = x)
      /\ D[x] = {x} \cup D[a] \cup D[y] /\ D[y] = {y} \cup D[b] \cup D[c]
      /\ x \notin D[y] /\ x \notin D[a] /\ y \notin D[a] /\ p \notin D[x]
      /\ (p = 0 <=> x = u.root)
  <2>1. AroundIn(S, D, u, x, s)
    BY AroundRotation
  <2> QED
    BY <2>1 DEF AroundIn
<1>2. /\ D[0] = {} /\ 0 \notin S /\ S \subseteq Links /\ S \subseteq Int /\ S \subseteq RbKeys
      /\ Across(s) \in TheSides /\ Across(s) # s /\ Across(Across(s)) = s
      /\ \A o \in TheSides : o = s \/ o = Across(s)
  BY SideFacts, NothingBelowNull
<1>3. /\ u \in Trees /\ IsFiniteSet(S) /\ D \in [Links -> SUBSET S]
      /\ \A z \in Links \ S : D[z] = {}
      /\ u.root \in S \cup {0} /\ D[u.root] = S /\ (u.root # 0 => u.parent[u.root] = 0)
  BY DEF Shaped
<1>4. \A z \in S, o \in TheSides :
          /\ u.child[z][o] \in S \cup {0}
          /\ u.child[z][o] # 0 => u.parent[u.child[z][o]] = z
          /\ D[z] = {z} \cup D[u.child[z][o]] \cup D[u.child[z][Across(o)]]
          /\ \A w \in D[u.child[z][o]] : Beyond(o, z, w)
  BY DEF Shaped
<1>5. /\ \A z \in S \ {u.root} :
            u.parent[z] \in S /\ \E o \in TheSides : u.child[u.parent[z]][o] = z
      /\ \A z \in RbKeys \ S : u.parent[z] = 0 /\ \A o \in TheSides : u.child[z][o] = 0
  BY DEF Shaped
<1>6. /\ v \in Trees /\ v.root = (IF p = 0 THEN y ELSE u.root)
      /\ \A z \in RbKeys, o \in TheSides : v.child[z][o] =
            IF z = x /\ o = Across(s) THEN b
            ELSE IF z = y /\ o = s THEN x
            ELSE IF z = p /\ u.child[z][o] = x THEN y
            ELSE u.child[z][o]
      /\ \A z \in RbKeys : v.parent[z] =
            IF z = x THEN y ELSE IF z = y THEN p ELSE IF z = b THEN x ELSE u.parent[z]
  BY DEF Rotated
<1>7. a = u.child[x][s] /\ b = u.child[y][s] /\ c = u.child[y][Across(s)] /\ y = u.child[x][Across(s)]
      /\ p = u.parent[x]
  OBVIOUS
<1>8. p # 0 => \E o \in TheSides : u.child[p][o] = x /\ u.child[p][Across(o)] # x
  BY ParentFacts
<1> HIDE DEF y, a, b, c, p
<1>9. /\ E \in [Links -> SUBSET S] /\ (\A z \in Links \ S : E[z] = {}) /\ E[y] = D[x]
      /\ E[x] = {x} \cup D[a] \cup D[b] /\ \A z \in Links : z \notin {x, y} => E[z] = D[z]
  BY <1>1, <1>2, <1>3
<1> HIDE DEF E
<1>10. E[a] = D[a] /\ E[b] = D[b] /\ E[c] = D[c] /\ E[0] = {}
  BY <1>1, <1>2, <1>9 DEF Links
<1>11. v.root \in S \cup {0} /\ E[v.root] = S /\ (v.root # 0 => v.parent[v.root] = 0)
  <2>1. CASE p = 0
    BY <2>1, <1>1, <1>2, <1>3, <1>6, <1>9
  <2>2. CASE p # 0
    <3>1. u.root # x /\ u.root # y /\ u.root # b /\ u.root \in S
      BY <2>2, <1>1, <1>2, <1>3
    <3>2. v.root = u.root /\ u.root \in Links /\ u.root \in RbKeys
      BY <2>2, <3>1, <1>2, <1>6
    <3>3. E[u.root] = S
      BY <3>1, <3>2, <1>3, <1>9
    <3>4. v.parent[u.root] = 0
      BY <3>1, <3>2, <1>2, <1>3, <1>6
    <3> QED
      BY <3>1, <3>2, <3>3, <3>4
  <2> QED
    BY <2>1, <2>2
<1>12. /\ v.child[x][s] = a /\ v.child[x][Across(s)] = b
       /\ v.child[y][s] = x /\ v.child[y][Across(s)] = c
  BY <1>1, <1>2, <1>6, <1>7
<1>13. ASSUME NEW z \in S, NEW o \in TheSides, z \notin {x, y}
       PROVE  /\ E[v.child[z][o]] = D[u.child[z][o]]
              /\ v.child[z][o] = u.child[z][o] \/ (v.child[z][o] = y /\ z = p)
              /\ v.child[z][o] \in S \cup {0}
              /\ u.child[z][o] = x => z = p
              /\ v.child[z][o] \notin {x, b} \/ v.child[z][o] = 0
  <2>1. v.child[z][o] = IF z = p /\ u.child[z][o] = x THEN y ELSE u.child[z][o]
    BY <1>2, <1>6, <1>13
  <2>2. u.child[z][o] = x => z = p
    BY <1>2, <1>4, <1>7
  <2>3. u.child[z][o] # y /\ (u.child[z][o] = b => b = 0)
    BY <1>1, <1>2, <1>4, <1>13
  <2>4. u.child[z][o] \in Links
    BY <1>2, <1>4 DEF Links
  <2>5. CASE z = p /\ u.child[z][o] = x
    BY <2>1, <2>2, <2>5, <1>1, <1>2, <1>9
  <2>6. CASE ~(z = p /\ u.child[z][o] = x)
    <3>1. v.child[z][o] = u.child[z][o] /\ u.child[z][o] # x
      BY <2>1, <2>2, <2>6
    <3> QED
      BY <3>1, <2>3, <2>4, <1>4, <1>9
  <2> QED
    BY <2>5, <2>6
<1>14. ASSUME NEW z \in S, NEW o \in TheSides
       PROVE  /\ v.child[z][o] \in S \cup {0}
              /\ v.child[z][o] # 0 => v.parent[v.child[z][o]] = z
              /\ E[z] = {z} \cup E[v.child[z][o]] \cup E[v.child[z][Across(o)]]
              /\ \A w \in E[v.child[z][o]] : Beyond(o, z, w)
  <2>1. CASE z = x
    <3>1. /\ v.child[x][o] \in S \cup {0}
          /\ v.child[x][o] # 0 => v.parent[v.child[x][o]] = x
      BY <1>1, <1>2, <1>6, <1>12
    <3>2. E[x] = {x} \cup E[v.child[x][o]] \cup E[v.child[x][Across(o)]]
      BY <1>2, <1>9, <1>10, <1>12
    <3>3. \A w \in D[a] : Beyond(s, x, w)
      BY <1>4, <1>7
    <3>4. \A w \in D[b] : Beyond(Across(s), x, w)
      BY <1>1, <1>2, <1>4, <1>7
    <3> QED
      BY <2>1, <3>1, <3>2, <3>3, <3>4, <1>2, <1>10, <1>12
  <2>2. CASE z = y
    <3>1. /\ v.child[y][o] \in S \cup {0}
          /\ v.child[y][o] # 0 => v.parent[v.child[y][o]] = y
      BY <1>1, <1>2, <1>6, <1>12
    <3>2. E[y] = {y} \cup E[v.child[y][o]] \cup E[v.child[y][Across(o)]]
      BY <1>1, <1>2, <1>9, <1>10, <1>12
    <3>3. \A w \in D[c] : Beyond(Across(s), y, w)
      BY <1>1, <1>2, <1>4, <1>7
    <3>4. /\ \A w \in D[b] : Beyond(s, y, w)
          /\ \A w \in D[a] : Beyond(s, x, w)
      BY <1>1, <1>2, <1>4, <1>7
    <3>5. Beyond(Across(s), x, y) /\ y \in Int /\ x \in Int /\ D[a] \subseteq Int
      <4>1. y \in D[y]
        BY <1>1
      <4>2. D[a] \subseteq S
        BY <1>1, <1>2, <1>3
      <4> QED
        BY <4>1, <4>2, <1>1, <1>2, <1>4, <1>7
    <3>6. Beyond(s, y, x)
      BY <3>5, SideFacts
    <3>7. \A w \in D[a] : Beyond(s, y, w)
      BY <3>4, <3>5, <3>6, SideFacts
    <3>8. \A w \in E[x] : Beyond(s, y, w)
      BY <3>4, <3>6, <3>7, <1>9
    <3> QED
      BY <2>2, <3>1, <3>2, <3>3, <3>8, <1>2, <1>10, <1>12
  <2>3. CASE z \notin {x, y}
    <3>1. Across(o) \in TheSides
      BY SideFacts
    <3>2. E[v.child[z][o]] = D[u.child[z][o]] /\ E[v.child[z][Across(o)]] = D[u.child[z][Across(o)]]
      BY <3>1, <2>3, <1>13
    <3>3. E[z] = D[z]
      BY <1>2, <1>9, <2>3
    <3>4. v.child[z][o] # 0 => v.parent[v.child[z][o]] = z
      <4>1. CASE v.child[z][o] = y /\ z = p
        BY <4>1, <1>1, <1>2, <1>6
      <4>2. CASE v.child[z][o] = u.child[z][o] /\ v.child[z][o] # y /\ v.child[z][o] # 0
        <5>1. v.child[z][o] \notin {x, y, b} /\ v.child[z][o] \in RbKeys
          BY <4>2, <1>2, <1>13, <2>3
        <5> QED
          BY <4>2, <5>1, <1>4, <1>6
      <4>3. u.child[z][o] # y
        BY <1>1, <1>2, <1>4, <2>3
      <4> QED
        BY <4>1, <4>2, <4>3, <1>13, <2>3
    <3> QED
      BY <3>2, <3>3, <3>4, <1>4, <1>13, <2>3
  <2> QED
    BY <2>1, <2>2, <2>3
<1>15. ASSUME NEW z \in S \ {v.root}
       PROVE  v.parent[z] \in S /\ \E o \in TheSides : v.child[v.parent[z]][o] = z
  <2>1. CASE z = x
    BY <2>1, <1>1, <1>2, <1>6, <1>12
  <2>2. CASE z = y
    <3>1. p # 0
      BY <2>2, <1>6
    <3>2. PICK o \in TheSides : u.child[p][o] = x
      BY <3>1, <1>8
    <3>3. v.parent[z] = p /\ p \in S /\ p \in RbKeys /\ p \notin {x, y}
      BY <2>2, <3>1, <1>1, <1>2, <1>6
    <3>4. v.child[p][o] = y
      BY <3>2, <3>3, <1>6
    <3> QED
      BY <2>2, <3>3, <3>4
  <2>3. CASE z = b
    BY <2>3, <1>1, <1>2, <1>6, <1>12
  <2>4. CASE z \notin {x, y, b}
    <3>1. v.parent[z] = u.parent[z] /\ z # u.root
      BY <2>4, <1>1, <1>2, <1>6
    <3>2. PICK o \in TheSides : u.parent[z] \in S /\ u.child[u.parent[z]][o] = z
      BY <3>1, <1>5
    <3>3. v.child[u.parent[z]][o] = z
      <4> DEFINE q == u.parent[z]
      <4>1. q \in RbKeys /\ u.child[q][o] = z
        BY <3>2, <1>2
      <4>2. ~(q = x /\ o = Across(s)) /\ ~(q = y /\ o = s) /\ u.child[q][o] # x
        BY <2>4, <4>1, <1>7
      <4> HIDE DEF q
      <4>3. v.child[q][o] = u.child[q][o]
        BY <4>1, <4>2, <1>6
      <4> QED
        BY <4>1, <4>3 DEF q
    <3> QED
      BY <3>1, <3>2, <3>3, <1>2
  <2> QED
    BY <2>1, <2>2, <2>3, <2>4
<1>16. ASSUME NEW z \in RbKeys \ S
       PROVE  v.parent[z] = 0 /\ \A o \in TheSides : v.child[z][o] = 0
  <2>1. z \notin {x, y, b, p} /\ z # 0
    BY <1>1, <1>2 DEF TreeKeys
  <2> QED
    BY <2>1, <1>5, <1>6
<1>17. Shaped(S, E, v)
  BY <1>2, <1>3, <1>6, <1>9, <1>11, <1>14, <1>15, <1>16 DEF Shaped
<1> QED
  BY <1>17

-----------------------------------------------------------------------------
(* Looking up in the tree.                                                 *)

TowardIn(u, x, key) == u.child[x][IF key < x THEN "left" ELSE "right"]

IsSearch(f, u, key) ==
    f = [x \in RbKeys \cup {0} |-> IF x \in {0, key} THEN x ELSE f[TowardIn(u, x, key)]]

SearchIn(u, key) == (CHOOSE f : IsSearch(f, u, key))[u.root]

IsPlace(f, u, key) ==
    f = [x \in RbKeys |-> IF TowardIn(u, x, key) = 0 THEN x ELSE f[TowardIn(u, x, key)]]

PlaceIn(u, key) == IF u.root = 0 THEN 0 ELSE (CHOOSE f : IsPlace(f, u, key))[u.root]

IsLast(f, u, s) == f = [y \in RbKeys |-> IF u.child[y][s] = 0 THEN y ELSE f[u.child[y][s]]]

ExtremeIn(u, x, s) == IF x = 0 THEN 0 ELSE (CHOOSE f : IsLast(f, u, s))[x]

IsClimb(f, u, s) ==
    f = [y \in RbKeys |->
            IF u.parent[y] = 0 \/ u.child[u.parent[y]][s] # y THEN u.parent[y]
            ELSE f[u.parent[y]]]

NeighbourIn(u, x, s) ==
    IF u.child[x][s] # 0 THEN ExtremeIn(u, u.child[x][s], Across(s))
    ELSE (CHOOSE f : IsClimb(f, u, s))[x]

LEMMA LookupForms ==
    /\ \A key : RB!Search(key) = SearchIn(rbTree, key)
    /\ \A key : RB!Search(key)' = SearchIn(rbTree', key)
    /\ \A key : RB!Place(key) = PlaceIn(rbTree, key)
    /\ \A x, s : RB!Extreme(x, s) = ExtremeIn(rbTree, x, s)
    /\ \A x, s : RB!Neighbour(x, s) = NeighbourIn(rbTree, x, s)
<1>1. \A x, s : RB!Extreme(x, s) = ExtremeIn(rbTree, x, s)
  BY DEF RB!Extreme, RB!NULL, ExtremeIn, IsLast
<1>2. \A x, s : RB!Neighbour(x, s) =
          IF rbTree.child[x][s] # 0 THEN RB!Extreme(rbTree.child[x][s], Across(s))
          ELSE (CHOOSE f : IsClimb(f, rbTree, s))[x]
  BY DEF RB!Neighbour, RB!NULL, IsClimb, RB!Other, Across
<1>3. \A x, s : RB!Neighbour(x, s) = NeighbourIn(rbTree, x, s)
  <2> SUFFICES ASSUME NEW x, NEW s PROVE RB!Neighbour(x, s) = NeighbourIn(rbTree, x, s)
    OBVIOUS
  <2>1. RB!Extreme(rbTree.child[x][s], Across(s)) = ExtremeIn(rbTree, rbTree.child[x][s], Across(s))
    BY <1>1, Zenon
  <2>2. RB!Neighbour(x, s) =
          IF rbTree.child[x][s] # 0 THEN RB!Extreme(rbTree.child[x][s], Across(s))
          ELSE (CHOOSE f : IsClimb(f, rbTree, s))[x]
    BY <1>2, Zenon
  <2> QED
    BY <2>1, <2>2, Zenon DEF NeighbourIn
<1>4. \A key : RB!Search(key) = SearchIn(rbTree, key)
  BY DEF RB!Search, SearchIn, IsSearch, RB!Toward, RB!NULL, TowardIn
<1>5. \A key : RB!Search(key)' = SearchIn(rbTree', key)
  BY DEF RB!Search, SearchIn, IsSearch, RB!Toward, RB!NULL, TowardIn
<1>6. \A key : RB!Place(key) = PlaceIn(rbTree, key)
  BY DEF RB!Place, PlaceIn, IsPlace, RB!Toward, RB!NULL, TowardIn
<1> QED
  BY <1>1, <1>3, <1>4, <1>5, <1>6

LEMMA SearchExists ==
    ASSUME NEW u \in Trees, NEW key \in RbKeys
    PROVE  \E f : IsSearch(f, u, key)
<1> DEFINE X == RbKeys \cup {0}
           stop == {0, key}
           val == [x \in stop |-> x]
           nx == [x \in X |-> TowardIn(u, x, key)]
<1>1. \A x \in X \ stop : nx[x] \in X /\ nx[x] = TowardIn(u, x, key)
  BY DEF TowardIn, Trees, Links, TheSides
<1>2. stop \in SUBSET X /\ \A x \in stop : val[x] = x
  OBVIOUS
<1> HIDE DEF nx, val
<1>3. PICK f : IsDescent(f, X, stop, val, nx)
  BY <1>1, <1>2, DescentExists
<1>4. [x \in X |-> IF x \in stop THEN val[x] ELSE f[nx[x]]]
        = [x \in X |-> IF x \in {0, key} THEN x ELSE f[TowardIn(u, x, key)]]
  <2>1. \A x \in X : (IF x \in stop THEN val[x] ELSE f[nx[x]])
                     = (IF x \in {0, key} THEN x ELSE f[TowardIn(u, x, key)])
    BY <1>1, <1>2
  <2> QED
    BY <2>1
<1>5. f = [x \in X |-> IF x \in stop THEN val[x] ELSE f[nx[x]]]
  BY <1>3 DEF IsDescent
<1> QED
  BY <1>4, <1>5, Zenon DEF IsSearch

LEMMA PlaceExists ==
    ASSUME NEW u \in Trees, NEW key \in RbKeys
    PROVE  \E f : IsPlace(f, u, key)
<1> DEFINE X == RbKeys
           stop == {x \in RbKeys : TowardIn(u, x, key) = 0}
           val == [x \in stop |-> x]
           nx == [x \in X |-> TowardIn(u, x, key)]
<1>1. \A x \in X \ stop : nx[x] \in X /\ nx[x] = TowardIn(u, x, key)
  BY DEF TowardIn, Trees, Links, TheSides
<1>2. stop \in SUBSET X /\ \A x \in stop : val[x] = x
  OBVIOUS
<1> HIDE DEF nx, val
<1>3. PICK f : IsDescent(f, X, stop, val, nx)
  BY <1>1, <1>2, DescentExists
<1>4. [x \in X |-> IF x \in stop THEN val[x] ELSE f[nx[x]]]
        = [x \in X |-> IF TowardIn(u, x, key) = 0 THEN x ELSE f[TowardIn(u, x, key)]]
  <2>1. \A x \in X : (IF x \in stop THEN val[x] ELSE f[nx[x]])
                     = (IF TowardIn(u, x, key) = 0 THEN x ELSE f[TowardIn(u, x, key)])
    BY <1>1, <1>2
  <2> QED
    BY <2>1
<1>5. f = [x \in X |-> IF x \in stop THEN val[x] ELSE f[nx[x]]]
  BY <1>3 DEF IsDescent
<1> QED
  BY <1>4, <1>5, Zenon DEF IsPlace

LEMMA LastExtremeExists ==
    ASSUME NEW u \in Trees, NEW s \in TheSides
    PROVE  \E f : IsLast(f, u, s)
<1> DEFINE X == RbKeys
           stop == {x \in RbKeys : u.child[x][s] = 0}
           val == [x \in stop |-> x]
           nx == [x \in X |-> u.child[x][s]]
<1>1. \A x \in X \ stop : nx[x] \in X /\ nx[x] = u.child[x][s]
  BY DEF Trees, Links
<1>2. stop \in SUBSET X /\ \A x \in stop : val[x] = x
  OBVIOUS
<1> HIDE DEF nx, val
<1>3. PICK f : IsDescent(f, X, stop, val, nx)
  BY <1>1, <1>2, DescentExists
<1>4. [x \in X |-> IF x \in stop THEN val[x] ELSE f[nx[x]]]
        = [x \in X |-> IF u.child[x][s] = 0 THEN x ELSE f[u.child[x][s]]]
  <2>1. \A x \in X : (IF x \in stop THEN val[x] ELSE f[nx[x]])
                     = (IF u.child[x][s] = 0 THEN x ELSE f[u.child[x][s]])
    BY <1>1, <1>2
  <2> QED
    BY <2>1
<1>5. f = [x \in X |-> IF x \in stop THEN val[x] ELSE f[nx[x]]]
  BY <1>3 DEF IsDescent
<1> QED
  BY <1>4, <1>5, Zenon DEF IsLast

LEMMA ClimbExists ==
    ASSUME NEW u \in Trees, NEW s \in TheSides
    PROVE  \E f : IsClimb(f, u, s)
<1> DEFINE X == RbKeys
           stop == {x \in RbKeys : u.parent[x] = 0 \/ u.child[u.parent[x]][s] # x}
           val == [x \in X |-> u.parent[x]]
<1>1. \A x \in X \ stop : val[x] \in X
  BY DEF Trees, Links
<1>2. stop \in SUBSET X /\ \A x \in X : val[x] = u.parent[x]
  OBVIOUS
<1> HIDE DEF val
<1>3. PICK f : IsDescent(f, X, stop, val, val)
  BY <1>1, <1>2, DescentExists
<1>4. [x \in X |-> IF x \in stop THEN val[x] ELSE f[val[x]]]
        = [x \in X |-> IF u.parent[x] = 0 \/ u.child[u.parent[x]][s] # x THEN u.parent[x]
                       ELSE f[u.parent[x]]]
  <2>1. \A x \in X : (IF x \in stop THEN val[x] ELSE f[val[x]])
                     = (IF u.parent[x] = 0 \/ u.child[u.parent[x]][s] # x THEN u.parent[x]
                        ELSE f[u.parent[x]])
    BY <1>2
  <2> QED
    BY <2>1
<1>5. f = [x \in X |-> IF x \in stop THEN val[x] ELSE f[val[x]]]
  BY <1>3 DEF IsDescent
<1> QED
  BY <1>4, <1>5, Zenon DEF IsClimb

\* A key other than that of x is below x where it is below the child toward it.
LEMMA TowardFacts ==
    ASSUME TreeKeys, NEW S, NEW D, NEW u, Shaped(S, D, u), NEW x \in S, NEW key \in RbKeys, key # x
    PROVE  /\ TowardIn(u, x, key) \in S \cup {0} /\ D[TowardIn(u, x, key)] \subseteq D[x]
           /\ key \in D[x] => key \in D[TowardIn(u, x, key)]
           /\ \E s \in TheSides : /\ TowardIn(u, x, key) = u.child[x][s] /\ Beyond(s, x, key)
                                  /\ \A y \in D[u.child[x][Across(s)]] : Beyond(Across(s), x, y)
<1>1. x \in Int /\ key \in Int /\ S \subseteq RbKeys
  BY NothingBelowNull DEF TreeKeys
<1>2. PICK s \in TheSides : TowardIn(u, x, key) = u.child[x][s] /\ Beyond(s, x, key)
  BY <1>1 DEF TowardIn, TheSides, Beyond
<1>3. /\ u.child[x][s] \in S \cup {0} /\ D[u.child[x][s]] \subseteq D[x]
      /\ D[x] = {x} \cup D[u.child[x][s]] \cup D[u.child[x][Across(s)]]
  BY NodeFacts
<1>4. \A y \in D[u.child[x][Across(s)]] : Beyond(Across(s), x, y)
  BY SideFacts DEF Shaped
<1>5. ~Beyond(Across(s), x, key)
  BY <1>1, <1>2, SideFacts
<1> QED
  BY <1>2, <1>3, <1>4, <1>5

LEMMA SearchIs ==
    ASSUME TreeKeys, NEW S, NEW D, NEW u, Shaped(S, D, u), NEW key \in RbKeys
    PROVE  SearchIn(u, key) = IF key \in S THEN key ELSE 0
<1> DEFINE f == CHOOSE f : IsSearch(f, u, key)
<1>1. IsSearch(f, u, key)
  BY SearchExists DEF Shaped
<1> HIDE DEF f
<1>2. \A x \in RbKeys \cup {0} :
          f[x] = IF x \in {0, key} THEN x ELSE f[TowardIn(u, x, key)]
  BY <1>1 DEF IsSearch
<1>3. /\ D[0] = {} /\ 0 \notin S /\ S \subseteq RbKeys
      /\ (u.root # 0 => u.root \in S /\ D[u.root] = S) /\ (u.root = 0 => S = {})
      /\ key # 0
  BY NothingBelowNull DEF TreeKeys
<1> DEFINE A == {x \in S : f[x] = IF key \in D[x] THEN key ELSE 0}
<1>4. ASSUME NEW x \in S, \A s \in TheSides : u.child[x][s] # 0 => u.child[x][s] \in A
      PROVE  x \in A
  <2>1. CASE x = key
    <3>1. "left" \in TheSides
      BY DEF TheSides
    <3>2. x \in D[x] /\ x \in RbKeys
      BY <3>1, NodeFacts
    <3> QED
      BY <2>1, <3>2, <1>2
  <2>2. CASE x # key
    <3> DEFINE c == TowardIn(u, x, key)
    <3>1. /\ c \in S \cup {0} /\ D[c] \subseteq D[x] /\ (key \in D[x] => key \in D[c])
          /\ \E s \in TheSides : c = u.child[x][s]
      BY <2>2, TowardFacts
    <3>2. f[x] = f[c]
      BY <2>2, <1>2, <1>3
    <3> HIDE DEF c
    <3>3. CASE c = 0
      BY <3>1, <3>2, <3>3, <1>2, <1>3
    <3>4. CASE c # 0
      BY <3>1, <3>2, <3>4, <1>4
    <3> QED
      BY <3>3, <3>4
  <2> QED
    BY <2>1, <2>2
<1> HIDE DEF A
<1>5. \A x \in S : x \in A
  BY <1>4, FromBelow
<1>6. f[u.root] = IF key \in S THEN key ELSE 0
  BY <1>2, <1>3, <1>5 DEF A
<1> QED
  BY <1>6 DEF f, SearchIn

\* Where a key shall be: below no other child than the one toward it.
LEMMA PlaceIs ==
    ASSUME TreeKeys, NEW S, NEW D, NEW u, Shaped(S, D, u), NEW key \in RbKeys \ S, u.root # 0
    PROVE  /\ PlaceIn(u, key) \in S /\ TowardIn(u, PlaceIn(u, key), key) = 0
           /\ \A z \in S : PlaceIn(u, key) \in D[z] =>
                 z = PlaceIn(u, key) \/ PlaceIn(u, key) \in D[TowardIn(u, z, key)]
<1> DEFINE f == CHOOSE f : IsPlace(f, u, key)
<1>1. IsPlace(f, u, key)
  BY PlaceExists DEF Shaped
<1> HIDE DEF f
<1>2. \A x \in RbKeys : f[x] = IF TowardIn(u, x, key) = 0 THEN x ELSE f[TowardIn(u, x, key)]
  BY <1>1 DEF IsPlace
<1>3. D[0] = {} /\ 0 \notin S /\ S \subseteq RbKeys /\ u.root \in S /\ D[u.root] = S
  BY NothingBelowNull
<1> DEFINE A == {x \in S :
                   /\ f[x] \in D[x] /\ TowardIn(u, f[x], key) = 0
                   /\ \A z \in D[x] : f[x] \in D[z] =>
                         z = f[x] \/ f[x] \in D[TowardIn(u, z, key)]}
<1>4. ASSUME NEW x \in S, \A s \in TheSides : u.child[x][s] # 0 => u.child[x][s] \in A
      PROVE  x \in A
  <2> DEFINE c == TowardIn(u, x, key)
  <2>1. PICK s \in TheSides : c = u.child[x][s] /\ Beyond(s, x, key)
    BY TowardFacts
  <2>2. /\ c \in S \cup {0} /\ x \in D[x] /\ D[c] \subseteq D[x] /\ D[x] \subseteq S
        /\ D[x] = {x} \cup D[c] \cup D[u.child[x][Across(s)]]
        /\ D[c] \cap D[u.child[x][Across(s)]] = {}
        /\ u.child[x][Across(s)] \in S \cup {0}
    BY <2>1, NodeFacts, SideFacts
  <2>3. f[x] = IF c = 0 THEN x ELSE f[c]
    BY <1>2, <1>3
  <2>4. CASE c = 0
    <3>1. \A z \in D[x] : x \in D[z] => z = x
      BY NotAbove
    <3> QED
      BY <2>2, <2>3, <2>4, <3>1
  <2>5. CASE c # 0
    <3>1. /\ c \in A /\ f[x] = f[c] /\ f[c] \in D[c]
      BY <2>1, <2>3, <2>5, <1>4
    <3>2. ASSUME NEW z \in D[x], f[x] \in D[z] PROVE z = f[x] \/ f[x] \in D[TowardIn(u, z, key)]
      <4>1. CASE z = x
        BY <4>1, <3>1
      <4>2. CASE z \in D[c]
        BY <4>2, <3>1, <3>2
      <4>3. CASE z \in D[u.child[x][Across(s)]]
        <5>1. u.child[x][Across(s)] \in S
          BY <4>3, <2>2, <1>3
        <5>2. D[z] \subseteq D[u.child[x][Across(s)]]
          BY <5>1, <4>3, Deeper
        <5> QED
          BY <5>2, <3>1, <3>2, <2>2
      <4> QED
        BY <4>1, <4>2, <4>3, <2>2
    <3> HIDE DEF c
    <3> QED
      BY <3>1, <3>2, <2>2
  <2> QED
    BY <2>4, <2>5
<1>5. \A x \in S : x \in A
  <2> HIDE DEF A
  <2> QED
    BY <1>4, FromBelow
<1>6. u.root \in A
  BY <1>3, <1>5
<1>7. f[u.root] = PlaceIn(u, key)
  BY <1>3 DEF f, PlaceIn
<1> QED
  BY <1>3, <1>6, <1>7

\* The last node on a side is the first or last of its subtree.
LEMMA ExtremeIs ==
    ASSUME TreeKeys, NEW S, NEW D, NEW u, Shaped(S, D, u), NEW x \in S, NEW s \in TheSides
    PROVE  /\ ExtremeIn(u, x, s) \in D[x] /\ u.child[ExtremeIn(u, x, s)][s] = 0
           /\ \A z \in D[x] : z = ExtremeIn(u, x, s) \/ Beyond(Across(s), ExtremeIn(u, x, s), z)
<1> DEFINE f == CHOOSE f : IsLast(f, u, s)
<1>1. IsLast(f, u, s)
  BY LastExtremeExists DEF Shaped
<1> HIDE DEF f
<1>2. \A y \in RbKeys : f[y] = IF u.child[y][s] = 0 THEN y ELSE f[u.child[y][s]]
  BY <1>1 DEF IsLast
<1>3. D[0] = {} /\ 0 \notin S /\ S \subseteq RbKeys /\ S \subseteq Int
  BY NothingBelowNull
<1> DEFINE A == {y \in S :
                   /\ f[y] \in D[y] /\ u.child[f[y]][s] = 0
                   /\ \A z \in D[y] : z = f[y] \/ Beyond(Across(s), f[y], z)}
<1>4. ASSUME NEW y \in S, \A o \in TheSides : u.child[y][o] # 0 => u.child[y][o] \in A
      PROVE  y \in A
  <2> DEFINE c == u.child[y][s]
             b == u.child[y][Across(s)]
  <2>1. /\ c \in S \cup {0} /\ y \in D[y] /\ D[c] \subseteq D[y] /\ D[y] \subseteq S
        /\ D[y] = {y} \cup D[c] \cup D[b]
    BY NodeFacts
  <2>2. Across(s) \in TheSides
    BY SideFacts
  <2>3. /\ \A z \in D[c] : Beyond(s, y, z)
        /\ \A z \in D[b] : Beyond(Across(s), y, z)
    BY <2>2 DEF Shaped
  <2>4. f[y] = IF c = 0 THEN y ELSE f[c]
    BY <1>2, <1>3
  <2>5. CASE c = 0
    BY <2>1, <2>3, <2>4, <2>5, <1>3
  <2>6. CASE c # 0
    <3>1. c \in A /\ f[y] = f[c] /\ f[c] \in D[c]
      BY <2>4, <2>6, <1>4
    <3> HIDE DEF c, b
    <3>2. Beyond(Across(s), f[y], y) /\ y \in Int /\ f[y] \in Int
      <4>1. y \in Int /\ f[y] \in Int /\ Beyond(s, y, f[y])
        BY <3>1, <2>1, <2>3, <1>3
      <4> QED
        BY <4>1, SideFacts
    <3>3. ASSUME NEW z \in D[y] PROVE z = f[y] \/ Beyond(Across(s), f[y], z)
      <4>1. CASE z = y
        BY <4>1, <3>2
      <4>2. CASE z \in D[c]
        BY <4>2, <3>1
      <4>3. CASE z \in D[b]
        <5>1. z \in Int /\ Beyond(Across(s), y, z)
          BY <4>3, <2>1, <2>3, <1>3
        <5> QED
          BY <5>1, <3>2, <2>2, SideFacts
      <4> QED
        BY <4>1, <4>2, <4>3, <2>1
    <3> QED
      BY <3>1, <3>3, <2>1
  <2> QED
    BY <2>5, <2>6
<1>5. \A y \in S : y \in A
  <2> HIDE DEF A
  <2> QED
    BY <1>4, FromBelow
<1>6. f[x] = ExtremeIn(u, x, s)
  BY <1>3 DEF f, ExtremeIn
<1> QED
  BY <1>5, <1>6

\* Above the nodes from y downwards, on a side, there is nothing, or first the node
\* to which the walk climbs.
LEMMA ClimbIs ==
    ASSUME TreeKeys, NEW S, NEW D, NEW u, Shaped(S, D, u), NEW x \in S, NEW s \in TheSides
    PROVE  LET q == (CHOOSE f : IsClimb(f, u, s))[x]
           IN /\ q \in S \cup {0} /\ (q # 0 => \A w \in D[x] : Beyond(s, w, q))
              /\ \A z \in S \ D[x] : \/ \A w \in D[x] : Beyond(Across(s), w, z)
                                     \/ q # 0 /\ (z = q \/ Beyond(s, q, z))
<1> DEFINE f == CHOOSE f : IsClimb(f, u, s)
<1>1. IsClimb(f, u, s)
  BY ClimbExists DEF Shaped
<1> HIDE DEF f
<1>2. \A y \in RbKeys : f[y] = IF u.parent[y] = 0 \/ u.child[u.parent[y]][s] # y
                               THEN u.parent[y] ELSE f[u.parent[y]]
  BY <1>1 DEF IsClimb
<1>3. D[0] = {} /\ 0 \notin S /\ S \subseteq RbKeys /\ S \subseteq Int
  BY NothingBelowNull
<1> DEFINE A == {y \in S :
                   /\ f[y] \in S \cup {0} /\ (f[y] # 0 => \A w \in D[y] : Beyond(s, w, f[y]))
                   /\ \A z \in S \ D[y] : \/ \A w \in D[y] : Beyond(Across(s), w, z)
                                          \/ f[y] # 0 /\ (z = f[y] \/ Beyond(s, f[y], z))}
<1>4. ASSUME NEW y \in S, u.parent[y] = 0 \/ u.parent[y] \in A PROVE y \in A
  <2>0. Across(s) \in TheSides /\ Across(Across(s)) = s /\ D[y] \subseteq S /\ y \in D[y]
    BY SideFacts, NodeFacts
  <2>1. CASE u.parent[y] = 0
    <3>1. y = u.root
      BY <2>1, ParentFacts
    <3>2. D[y] = S /\ f[y] = 0
      BY <3>1, <2>1, <1>2, <1>3, NothingBelowNull
    <3> QED
      BY <3>2, <1>3
  <2>2. CASE u.parent[y] # 0
    <3> DEFINE p == u.parent[y]
    <3>1. p \in S /\ p \in A
      BY <2>2, <1>4, ParentFacts
    <3>2. PICK o \in TheSides : u.child[p][o] = y /\ u.child[p][Across(o)] # y
      BY <2>2, ParentFacts
    <3>3. y \in RbKeys /\ y # 0
      BY <1>3
    <3>4. f[y] = IF u.child[p][s] # y THEN p ELSE f[p]
      BY <2>2, <3>3, <1>2
    <3> HIDE DEF p
    <3> DEFINE b == u.child[p][Across(o)]
    <3>5. Across(o) \in TheSides /\ Across(Across(o)) = o
      BY SideFacts
    <3>6. /\ D[p] = {p} \cup D[y] \cup D[b] /\ D[p] \subseteq S
          /\ \A w \in D[y] : Beyond(o, p, w)
          /\ \A w \in D[b] : Beyond(Across(o), p, w)
      <4>1. D[p] = {p} \cup D[u.child[p][o]] \cup D[b] /\ D[p] \subseteq S
        BY <3>1, NodeFacts
      <4>2. /\ \A w \in D[u.child[p][o]] : Beyond(o, p, w)
            /\ \A w \in D[b] : Beyond(Across(o), p, w)
        BY <3>1, <3>5 DEF Shaped
      <4> QED
        BY <4>1, <4>2, <3>2
    <3> HIDE DEF b
    <3>7. p \in Int /\ S \subseteq Int /\ f[p] \in S \cup {0}
      BY <3>1, <1>3
    <3>8. \A w \in D[y] : w \in Int /\ w \in D[p] /\ Beyond(Across(o), w, p)
      BY <3>6, <3>7, SideFacts
    <3>9. \A z \in S \ D[p] : \/ \A w \in D[p] : Beyond(Across(s), w, z)
                              \/ f[p] # 0 /\ (z = f[p] \/ Beyond(s, f[p], z))
      BY <3>1
    <3>10. CASE o = Across(s)
      <4>1. f[y] = p /\ Across(o) = s
        BY <3>2, <3>4, <3>10, <2>0
      <4>2. \A w \in D[y] : Beyond(s, w, p)
        BY <4>1, <3>8
      <4>3. ASSUME NEW z \in S \ D[y]
            PROVE  (\A w \in D[y] : Beyond(Across(s), w, z)) \/ z = p \/ Beyond(s, p, z)
        <5>1. CASE z \in D[p]
          BY <5>1, <4>1, <3>6
        <5>2. CASE z \notin D[p] /\ \A w \in D[p] : Beyond(Across(s), w, z)
          BY <5>2, <3>8
        <5>3. CASE f[p] # 0 /\ (z = f[p] \/ Beyond(s, f[p], z))
          <6>1. Beyond(s, p, f[p])
            BY <5>3, <3>1, <3>6
          <6>2. z \in Int /\ f[p] \in Int
            BY <5>3, <3>7
          <6> QED
            BY <6>1, <6>2, <5>3, <3>7, SideFacts
        <5> QED
          BY <5>1, <5>2, <5>3, <3>9
      <4>4. p # 0
        BY <3>1, <1>3
      <4> QED
        BY <4>1, <4>2, <4>3, <4>4, <3>1
    <3>11. CASE o = s
      <4>1. f[y] = f[p]
        BY <3>2, <3>4, <3>11
      <4>2. f[p] # 0 => \A w \in D[y] : Beyond(s, w, f[p])
        BY <3>1, <3>8
      <4>3. ASSUME NEW z \in S \ D[y]
            PROVE  \/ \A w \in D[y] : Beyond(Across(s), w, z)
                   \/ f[p] # 0 /\ (z = f[p] \/ Beyond(s, f[p], z))
        <5>1. CASE z = p
          BY <5>1, <3>8, <3>11
        <5>2. CASE z \in D[b]
          <6>1. Beyond(Across(s), p, z) /\ z \in Int
            BY <5>2, <3>6, <3>7, <3>11
          <6> QED
            BY <6>1, <3>7, <3>8, <3>11, <2>0, SideFacts
        <5>3. CASE z \notin D[p]
          BY <5>3, <3>8, <3>9
        <5> QED
          BY <5>1, <5>2, <5>3, <3>6
      <4> QED
        BY <4>1, <4>2, <4>3, <3>7
    <3> QED
      BY <3>10, <3>11, SideFacts
  <2> QED
    BY <2>1, <2>2
<1>5. \A y \in S : y \in A
  <2> HIDE DEF A
  <2> QED
    BY <1>4, FromAbove
<1> QED
  BY <1>5 DEF f

\* The neighbour of a node on a side is the next node on that side.
LEMMA NeighbourIs ==
    ASSUME TreeKeys, NEW S, NEW D, NEW u, Shaped(S, D, u), NEW x \in S, NEW s \in TheSides
    PROVE  \/ NeighbourIn(u, x, s) = 0 /\ \A z \in S : ~Beyond(s, x, z)
           \/ /\ NeighbourIn(u, x, s) \in S /\ Beyond(s, x, NeighbourIn(u, x, s))
              /\ \A z \in S : Beyond(s, x, z) => \/ z = NeighbourIn(u, x, s)
                                                 \/ Beyond(s, NeighbourIn(u, x, s), z)
<1> DEFINE q == (CHOOSE f : IsClimb(f, u, s))[x]
           c == u.child[x][s]
           b == u.child[x][Across(s)]
           n == NeighbourIn(u, x, s)
<1>1. /\ q \in S \cup {0} /\ (q # 0 => \A w \in D[x] : Beyond(s, w, q))
      /\ \A z \in S \ D[x] : \/ \A w \in D[x] : Beyond(Across(s), w, z)
                             \/ q # 0 /\ (z = q \/ Beyond(s, q, z))
  BY ClimbIs
<1>2. /\ c \in S \cup {0} /\ x \in D[x] /\ D[c] \subseteq D[x] /\ D[x] \subseteq S
      /\ D[x] = {x} \cup D[c] \cup D[b] /\ Across(s) \in TheSides /\ Across(Across(s)) = s
      /\ x \in Int /\ S \subseteq Int /\ 0 \notin S /\ D[0] = {}
  BY NodeFacts, SideFacts, NothingBelowNull
<1>3. \A w \in D[b] : Beyond(Across(s), x, w)
  BY <1>2 DEF Shaped
<1>4. \A w \in D[c] : Beyond(s, x, w)
  BY DEF Shaped
<1>5. \A z \in S : (Beyond(Across(s), x, z) => ~Beyond(s, x, z)) /\ ~Beyond(s, x, x)
  BY <1>2, SideFacts
<1>6. n = IF c # 0 THEN ExtremeIn(u, c, Across(s)) ELSE q
  BY DEF NeighbourIn
<1> HIDE DEF q, b, n
<1>7. CASE c = 0
  <2> HIDE DEF c
  <2>1. \A z \in D[x] : ~Beyond(s, x, z)
    BY <1>2, <1>3, <1>5, <1>7
  <2>2. \A z \in S \ D[x] : Beyond(s, x, z) => q # 0 /\ (z = q \/ Beyond(s, q, z))
    BY <1>1, <1>2, <1>5
  <2>3. n = q
    BY <1>6, <1>7
  <2>4. CASE q = 0
    BY <2>1, <2>2, <2>3, <2>4 DEF n
  <2>5. CASE q # 0
    BY <2>1, <2>2, <2>3, <2>5, <1>1, <1>2 DEF n
  <2> QED
    BY <2>4, <2>5
<1>8. CASE c # 0
  <2>1. /\ ExtremeIn(u, c, Across(s)) \in D[c]
        /\ \A z \in D[c] : z = ExtremeIn(u, c, Across(s))
                           \/ Beyond(Across(Across(s)), ExtremeIn(u, c, Across(s)), z)
    BY <1>2, <1>8, ExtremeIs
  <2>2. n \in D[c] /\ \A z \in D[c] : z = n \/ Beyond(s, n, z)
    BY <2>1, <1>2, <1>6, <1>8
  <2> HIDE DEF c
  <2>3. n \in S /\ Beyond(s, x, n) /\ n \in D[x] /\ n \in Int
    BY <2>2, <1>2, <1>4
  <2>4. ASSUME NEW z \in S, Beyond(s, x, z) PROVE z = n \/ Beyond(s, n, z)
    <3>1. CASE z \in D[c]
      BY <3>1, <2>2
    <3>2. CASE z \in D[x] /\ z \notin D[c]
      BY <3>2, <2>4, <1>2, <1>3, <1>5
    <3>3. CASE z \notin D[x]
      <4>1. q # 0 /\ (z = q \/ Beyond(s, q, z))
        BY <3>3, <2>4, <1>1, <1>2, <1>5
      <4>2. Beyond(s, n, q) /\ q \in Int /\ z \in Int
        BY <4>1, <2>3, <1>1, <1>2
      <4> QED
        BY <4>1, <4>2, <2>3, SideFacts
    <3> QED
      BY <3>1, <3>2, <3>3
  <2> QED
    BY <2>3, <2>4 DEF n
<1> QED
  BY <1>7, <1>8

-----------------------------------------------------------------------------
(* Colours and heights.                                                    *)

\* One black node less is below x on side s.
Owes(x, s, px, sx) == IF x = px /\ s = sx THEN 1 ELSE 0

\* H is the number of black nodes on every way down.
Even(A, u, H, px, sx) ==
    \A z \in A, o \in TheSides : H[z] = u.color[z] + H[u.child[z][o]] + Owes(z, o, px, sx)

\* A red node has no red child, but for two nodes.
FitsIn(u, z, c, above, below) ==
    u.color[z] = 0 /\ c # 0 /\ u.color[c] = 0 => z = above \/ c = below

Paired(A, u, above, below) ==
    \A z \in A, o \in TheSides : FitsIn(u, z, u.child[z][o], above, below)

Measures == [Links -> Nat \ {0}]

Coloured(S, u, H, px, sx, above, below) ==
    /\ H \in Measures /\ H[0] = 1
    /\ Even(S, u, H, px, sx)
    /\ Paired(S, u, above, below)
    /\ \A z \in RbKeys \ S : u.color[z] = 1

LEMMA SameShape ==
    ASSUME NEW S, NEW D, NEW u, Shaped(S, D, u), NEW v \in Trees,
           v.root = u.root, v.child = u.child, v.parent = u.parent
    PROVE  Shaped(S, D, v)
BY DEF Shaped

\* The children after a rotation.
LEMMA RotatedLinks ==
    ASSUME TreeKeys, NEW S, NEW D, NEW u, Shaped(S, D, u), NEW x \in S, NEW s \in TheSides,
           u.child[x][Across(s)] # 0, NEW v, Rotated(u, x, s, v)
    PROVE  LET y == u.child[x][Across(s)]
           IN /\ v.child[x][s] = u.child[x][s] /\ v.child[x][Across(s)] = u.child[y][s]
              /\ v.child[y][s] = x /\ v.child[y][Across(s)] = u.child[y][Across(s)]
              /\ \A z \in S \ {x, y}, o \in TheSides :
                    \/ u.child[z][o] \notin {x, y} /\ v.child[z][o] = u.child[z][o]
                    \/ z = u.parent[x] /\ u.child[z][o] = x /\ v.child[z][o] = y
<1> DEFINE y == u.child[x][Across(s)]
           b == u.child[y][s]
           p == u.parent[x]
<1>0. AroundIn(S, D, u, x, s)
  BY AroundRotation
<1>1. /\ y \in S /\ x # y /\ u.parent[y] = x
      /\ S \subseteq RbKeys /\ Across(s) \in TheSides /\ Across(s) # s /\ 0 \notin S
  <2>1. y \in S /\ x # y /\ u.parent[y] = x
    BY <1>0 DEF AroundIn
  <2>2. Across(s) \in TheSides /\ Across(s) # s
    BY SideFacts
  <2>3. S \subseteq RbKeys /\ 0 \notin S
    BY NothingBelowNull
  <2> QED
    BY <2>1, <2>2, <2>3
<1>2. \A z \in RbKeys, o \in TheSides : v.child[z][o] =
            IF z = x /\ o = Across(s) THEN b
            ELSE IF z = y /\ o = s THEN x
            ELSE IF z = p /\ u.child[z][o] = x THEN y
            ELSE u.child[z][o]
  BY DEF Rotated
<1>3. \A z \in S, o \in TheSides :
          u.child[z][o] \in S \cup {0} /\ (u.child[z][o] # 0 => u.parent[u.child[z][o]] = z)
  BY DEF Shaped
<1>4. p \notin {x, y} /\ u.child[x][s] # x /\ u.child[y][Across(s)] # x
  BY <1>0 DEF AroundIn
<1> HIDE DEF b
<1>5. /\ v.child[x][s] = u.child[x][s] /\ v.child[x][Across(s)] = b
      /\ v.child[y][s] = x /\ v.child[y][Across(s)] = u.child[y][Across(s)]
  <2> HIDE DEF y, p
  <2> QED
    BY <1>1, <1>2, <1>4
<1>6. ASSUME NEW z \in S \ {x, y}, NEW o \in TheSides
      PROVE  \/ u.child[z][o] \notin {x, y} /\ v.child[z][o] = u.child[z][o]
             \/ z = p /\ u.child[z][o] = x /\ v.child[z][o] = y
  <2>1. u.child[z][o] = x => z = p
    BY <1>1, <1>3
  <2>2. u.child[z][o] # y
    BY <1>1, <1>3
  <2> HIDE DEF y, p
  <2>3. v.child[z][o] = IF z = p /\ u.child[z][o] = x THEN y ELSE u.child[z][o]
    BY <1>1, <1>2
  <2> QED
    BY <2>1, <2>2, <2>3
<1> QED
  BY <1>5, <1>6 DEF b

\* What must hold around the two nodes of a rotation, that the colours are right after.
Balances(S, u, x, s, y, H, G, px, sx, qx, qs) ==
    /\ G \in Measures /\ G[0] = 1 /\ \A z \in Links \ {x, y} : G[z] = H[z]
    /\ G[y] = H[x]
    /\ Even(S \ {x, y}, u, H, px, sx)
    /\ \A z \in S \ {x, y}, o \in TheSides : Owes(z, o, qx, qs) = Owes(z, o, px, sx)
    /\ G[x] = u.color[x] + H[u.child[x][s]] + Owes(x, s, qx, qs)
    /\ G[x] = u.color[x] + H[u.child[y][s]] + Owes(x, Across(s), qx, qs)
    /\ G[y] = u.color[y] + G[x] + Owes(y, s, qx, qs)
    /\ G[y] = u.color[y] + H[u.child[y][Across(s)]] + Owes(y, Across(s), qx, qs)

Contrasts(S, u, x, s, y, above, below) ==
    /\ \A z \in S \ {x, y}, o \in TheSides :
          u.child[z][o] # x => FitsIn(u, z, u.child[z][o], above, below)
    /\ u.parent[x] # 0 => FitsIn(u, u.parent[x], y, above, below)
    /\ FitsIn(u, y, x, above, below) /\ FitsIn(u, y, u.child[y][Across(s)], above, below)
    /\ FitsIn(u, x, u.child[x][s], above, below) /\ FitsIn(u, x, u.child[y][s], above, below)
    /\ \A z \in RbKeys \ S : u.color[z] = 1

LEMMA RotatedColours ==
    ASSUME TreeKeys, NEW S, NEW D, NEW u, Shaped(S, D, u), NEW x \in S, NEW s \in TheSides,
           u.child[x][Across(s)] # 0, NEW v, Rotated(u, x, s, v),
           NEW H, NEW G, NEW px, NEW sx, NEW qx, NEW qs, NEW above, NEW below
    PROVE  /\ Balances(S, u, x, s, u.child[x][Across(s)], H, G, px, sx, qx, qs)
           /\ Contrasts(S, u, x, s, u.child[x][Across(s)], above, below)
           => Coloured(S, v, G, qx, qs, above, below)
<1> DEFINE y == u.child[x][Across(s)]
           a == u.child[x][s]
           b == u.child[y][s]
           c == u.child[y][Across(s)]
           p == u.parent[x]
<1>1. /\ a \in S \cup {0} /\ b \in S \cup {0} /\ c \in S \cup {0} /\ x # y /\ y \in S
      /\ a \notin {x, y} /\ b \notin {x, y} /\ c \notin {x, y} /\ p \notin {x, y}
      /\ Across(s) \in TheSides /\ (\A o \in TheSides : o = s \/ o = Across(s))
      /\ S \subseteq Links /\ 0 \in Links /\ 0 \notin S
  <2>0. AroundIn(S, D, u, x, s)
    BY AroundRotation
  <2>1. a \in S \cup {0} /\ b \in S \cup {0} /\ c \in S \cup {0} /\ x # y /\ y \in S
    BY <2>0 DEF AroundIn
  <2>3. a \notin {x, y} /\ b \notin {x, y} /\ c \notin {x, y} /\ p \notin {x, y}
    BY <2>0 DEF AroundIn
  <2>2. /\ Across(s) \in TheSides /\ (\A o \in TheSides : o = s \/ o = Across(s))
        /\ S \subseteq Links /\ 0 \in Links /\ 0 \notin S
    BY SideFacts, NothingBelowNull DEF Links
  <2> QED
    BY <2>1, <2>2, <2>3
<1>2. /\ v.child[x][s] = a /\ v.child[x][Across(s)] = b
      /\ v.child[y][s] = x /\ v.child[y][Across(s)] = c
      /\ \A z \in S \ {x, y}, o \in TheSides :
            \/ u.child[z][o] \notin {x, y} /\ v.child[z][o] = u.child[z][o]
            \/ z = p /\ u.child[z][o] = x /\ v.child[z][o] = y
  BY RotatedLinks
<1>3. v.color = u.color
  BY DEF Rotated
<1>4. \A z \in S, o \in TheSides : u.child[z][o] \in Links
  BY <1>1 DEF Shaped
<1> SUFFICES ASSUME Balances(S, u, x, s, y, H, G, px, sx, qx, qs),
                    Contrasts(S, u, x, s, y, above, below)
             PROVE  Coloured(S, v, G, qx, qs, above, below)
  OBVIOUS
<1>9. /\ G \in Measures /\ G[0] = 1 /\ (\A z \in Links \ {x, y} : G[z] = H[z])
      /\ G[y] = H[x]
      /\ Even(S \ {x, y}, u, H, px, sx)
      /\ (\A z \in S \ {x, y}, o \in TheSides : Owes(z, o, qx, qs) = Owes(z, o, px, sx))
      /\ G[x] = u.color[x] + H[a] + Owes(x, s, qx, qs)
      /\ G[x] = u.color[x] + H[b] + Owes(x, Across(s), qx, qs)
      /\ G[y] = u.color[y] + G[x] + Owes(y, s, qx, qs)
      /\ G[y] = u.color[y] + H[c] + Owes(y, Across(s), qx, qs)
  BY DEF Balances
<1>10. /\ \A z \in S \ {x, y}, o \in TheSides :
             u.child[z][o] # x => FitsIn(u, z, u.child[z][o], above, below)
       /\ p # 0 => FitsIn(u, p, y, above, below)
       /\ FitsIn(u, y, x, above, below) /\ FitsIn(u, y, c, above, below)
       /\ FitsIn(u, x, a, above, below) /\ FitsIn(u, x, b, above, below)
       /\ \A z \in RbKeys \ S : u.color[z] = 1
  BY DEF Contrasts
<1> HIDE DEF a, b, c, p
<1>5. G[a] = H[a] /\ G[b] = H[b] /\ G[c] = H[c]
  BY <1>1, <1>9
<1> HIDE DEF y
<1>6. ASSUME NEW z \in S, NEW o \in TheSides
      PROVE  G[z] = v.color[z] + G[v.child[z][o]] + Owes(z, o, qx, qs)
  <2>1. CASE z = x
    BY <2>1, <1>1, <1>2, <1>3, <1>5, <1>9
  <2>2. CASE z = y
    BY <2>2, <1>1, <1>2, <1>3, <1>5, <1>9
  <2>3. CASE z \notin {x, y}
    <3>1. G[z] = u.color[z] + H[u.child[z][o]] + Owes(z, o, qx, qs)
      BY <2>3, <1>1, <1>9 DEF Even
    <3>2. G[v.child[z][o]] = H[u.child[z][o]]
      <4>1. CASE u.child[z][o] \notin {x, y} /\ v.child[z][o] = u.child[z][o]
        BY <4>1, <1>4, <1>9
      <4>2. CASE z = p /\ u.child[z][o] = x /\ v.child[z][o] = y
        BY <4>2, <1>9
      <4> QED
        BY <4>1, <4>2, <2>3, <1>2
    <3> QED
      BY <3>1, <3>2, <1>3
  <2> QED
    BY <2>1, <2>2, <2>3
<1>7. ASSUME NEW z \in S, NEW o \in TheSides PROVE FitsIn(u, z, v.child[z][o], above, below)
  <2>1. CASE z = x
    <3>1. v.child[z][o] = a \/ v.child[z][o] = b
      BY <2>1, <1>1, <1>2
    <3>2. FitsIn(u, x, a, above, below) /\ FitsIn(u, x, b, above, below)
      BY <1>10
    <3> QED
      BY <2>1, <3>1, <3>2, Zenon
  <2>2. CASE z = y
    <3>1. v.child[z][o] = x \/ v.child[z][o] = c
      BY <2>2, <1>1, <1>2
    <3>2. FitsIn(u, y, x, above, below) /\ FitsIn(u, y, c, above, below)
      BY <1>10
    <3> QED
      BY <2>2, <3>1, <3>2, Zenon
  <2>3. CASE z \notin {x, y}
    <3>1. CASE u.child[z][o] \notin {x, y} /\ v.child[z][o] = u.child[z][o]
      <4>1. FitsIn(u, z, u.child[z][o], above, below)
        BY <2>3, <3>1, <1>10
      <4> QED
        BY <3>1, <4>1, Zenon
    <3>2. CASE z = p /\ u.child[z][o] = x /\ v.child[z][o] = y
      <4>1. FitsIn(u, p, y, above, below)
        BY <3>2, <1>1, <1>10
      <4> QED
        BY <3>2, <4>1, Zenon
    <3> QED
      BY <3>1, <3>2, <2>3, <1>2
  <2> QED
    BY <2>1, <2>2, <2>3
<1>8. \A z \in S, o \in TheSides : FitsIn(v, z, v.child[z][o], above, below)
  BY <1>3, <1>7 DEF FitsIn
<1> QED
  <2>1. Even(S, v, G, qx, qs) /\ Paired(S, v, above, below)
    BY <1>6, <1>8 DEF Even, Paired
  <2>2. G \in Measures /\ G[0] = 1 /\ \A z \in RbKeys \ S : v.color[z] = 1
    BY <1>3, <1>9, <1>10
  <2> QED
    BY <2>1, <2>2 DEF Coloured

LEMMA PaintedShape ==
    ASSUME TreeKeys, NEW S, NEW D, NEW u, Shaped(S, D, u), NEW x \in S, NEW c \in {0, 1}
    PROVE  Shaped(S, D, RB!Paint(u, x, c)) /\ Painted(u, x, c, RB!Paint(u, x, c))
<1>1. u \in Trees /\ x \in RbKeys
  BY NothingBelowNull DEF Shaped
<1>2. Painted(u, x, c, RB!Paint(u, x, c))
  BY <1>1, PaintForm
<1> QED
  BY <1>2, SameShape DEF Painted

LEMMA Turned ==
    ASSUME TreeKeys, NEW S, NEW D, NEW u, Shaped(S, D, u), NEW x \in S, NEW s \in TheSides,
           u.child[x][Across(s)] # 0, NEW v, v = RB!Rotate(u, x, s)
    PROVE  Rotated(u, x, s, v) /\ \E E : Shaped(S, E, v)
<1>1. Rotated(u, x, s, v)
  BY RotateForm
<1> QED
  BY <1>1, RotatedShape

\* v is u with a new leaf below the node y, which has its place there.
Grown(S, D, u, key, y, s, v) ==
    /\ y \in S /\ s \in TheSides /\ u.child[y][s] = 0 /\ Beyond(s, y, key)
    /\ \A z \in S : y \in D[z] => z = y \/ y \in D[TowardIn(u, z, key)]
    /\ v \in Trees /\ v.root = u.root
    /\ \A z \in RbKeys, o \in TheSides :
          v.child[z][o] = IF z = y /\ o = s THEN key ELSE u.child[z][o]
    /\ \A z \in RbKeys : v.parent[z] = IF z = key THEN y ELSE u.parent[z]

LEMMA GrownShape ==
    ASSUME TreeKeys, NEW S, NEW D, NEW u, Shaped(S, D, u), NEW key \in RbKeys \ S,
           NEW y, NEW s, NEW v, Grown(S, D, u, key, y, s, v)
    PROVE  \E E : Shaped(S \cup {key}, E, v)
<1> DEFINE E == [z \in Links |-> IF z = key THEN {key}
                                 ELSE IF y \in D[z] THEN D[z] \cup {key} ELSE D[z]]
<1>0. y \in S /\ s \in TheSides /\ u.child[y][s] = 0 /\ Beyond(s, y, key)
  BY DEF Grown
<1>15. \A z \in S : y \in D[z] => z = y \/ y \in D[TowardIn(u, z, key)]
  BY DEF Grown
<1>16. /\ v \in Trees /\ v.root = u.root
       /\ \A z \in RbKeys, o \in TheSides :
             v.child[z][o] = IF z = y /\ o = s THEN key ELSE u.child[z][o]
       /\ \A z \in RbKeys : v.parent[z] = IF z = key THEN y ELSE u.parent[z]
  BY DEF Grown
<1>1. /\ D[0] = {} /\ 0 \notin S /\ S \subseteq Links /\ S \subseteq Int /\ S \subseteq RbKeys
      /\ key # 0 /\ key \in Links /\ key \in Int /\ 0 \in Links
      /\ Across(s) \in TheSides /\ Across(s) # s /\ \A o \in TheSides : o = s \/ o = Across(s)
  BY <1>0, NothingBelowNull, SideFacts DEF Links, TreeKeys
<1>2. /\ u \in Trees /\ IsFiniteSet(S) /\ D \in [Links -> SUBSET S]
      /\ \A z \in Links \ S : D[z] = {}
      /\ u.root \in S /\ D[u.root] = S /\ u.parent[u.root] = 0
  <2>1. S # {}
    BY <1>0
  <2>2. u.root \in S /\ D[u.root] = S /\ u.parent[u.root] = 0
    BY <2>1, NothingBelowNull
  <2>3. /\ u \in Trees /\ IsFiniteSet(S) /\ D \in [Links -> SUBSET S]
        /\ \A z \in Links \ S : D[z] = {}
    BY DEF Shaped
  <2> QED
    BY <2>2, <2>3
<1>3. \A z \in S, o \in TheSides :
          /\ u.child[z][o] \in S \cup {0}
          /\ u.child[z][o] # 0 => u.parent[u.child[z][o]] = z
          /\ D[z] = {z} \cup D[u.child[z][o]] \cup D[u.child[z][Across(o)]]
          /\ \A w \in D[u.child[z][o]] : Beyond(o, z, w)
  BY DEF Shaped
<1>4. /\ \A z \in S \ {u.root} :
            u.parent[z] \in S /\ \E o \in TheSides : u.child[u.parent[z]][o] = z
      /\ \A z \in RbKeys \ S : u.parent[z] = 0 /\ \A o \in TheSides : u.child[z][o] = 0
  BY DEF Shaped
<1>5. y \in D[y] /\ y \notin D[u.child[y][Across(s)]]
  BY <1>0, <1>1, NodeFacts
<1>6. /\ E \in [Links -> SUBSET (S \cup {key})] /\ E[key] = {key} /\ E[0] = {}
      /\ \A z \in S : E[z] = IF y \in D[z] THEN D[z] \cup {key} ELSE D[z]
      /\ \A z \in Links \ (S \cup {key}) : E[z] = {}
  BY <1>1, <1>2
<1> HIDE DEF E
<1>7. IsFiniteSet(S \cup {key})
  BY <1>2, FS_AddElement
<1>8. ASSUME NEW z \in S, NEW o \in TheSides
      PROVE  /\ v.child[z][o] \in (S \cup {key}) \cup {0}
             /\ v.child[z][o] # 0 => v.parent[v.child[z][o]] = z
             /\ \A w \in E[v.child[z][o]] : Beyond(o, z, w)
  <2>1. CASE z = y /\ o = s
    BY <2>1, <1>0, <1>1, <1>6, <1>16
  <2>2. CASE ~(z = y /\ o = s)
    <3>1. v.child[z][o] = u.child[z][o] /\ u.child[z][o] \in S \cup {0} /\ u.child[z][o] # key
      BY <2>2, <1>1, <1>3, <1>16
    <3>2. ASSUME NEW w \in E[u.child[z][o]] PROVE Beyond(o, z, w)
      <4>1. u.child[z][o] \in S /\ (w \in D[u.child[z][o]] \/ (w = key /\ y \in D[u.child[z][o]]))
        <5>1. u.child[z][o] # 0
          BY <3>2, <1>6
        <5>2. u.child[z][o] \in S
          BY <5>1, <3>1
        <5>3. E[u.child[z][o]] = IF y \in D[u.child[z][o]] THEN D[u.child[z][o]] \cup {key}
                                 ELSE D[u.child[z][o]]
          BY <5>2, <1>6
        <5>4. CASE y \in D[u.child[z][o]]
          BY <5>2, <5>3, <5>4, <3>2
        <5>5. CASE y \notin D[u.child[z][o]]
          <6>1. E[u.child[z][o]] = D[u.child[z][o]]
            BY <5>3, <5>5
          <6>2. w \in D[u.child[z][o]]
            BY <6>1
          <6> QED
            BY <5>2, <6>2
        <5> QED
          BY <5>4, <5>5
      <4>2. CASE w = key /\ y \in D[u.child[z][o]]
        <5>1. y \in D[z] /\ z # y
          BY <4>2, NodeFacts
        <5>2. y \in D[TowardIn(u, z, key)] /\ z # key
          BY <5>1, <1>15
        <5>3. PICK q \in TheSides : TowardIn(u, z, key) = u.child[z][q] /\ Beyond(q, z, key)
          BY <5>2, TowardFacts
        <5>4. D[u.child[z][o]] \cap D[u.child[z][Across(o)]] = {}
          BY NodeFacts
        <5>5. q = o
          BY <5>2, <5>3, <5>4, <4>2, SideFacts
        <5> QED
          BY <5>3, <5>5, <4>2
      <4> QED
        BY <4>1, <4>2, <1>3
    <3>3. v.parent[u.child[z][o]] = u.parent[u.child[z][o]] \/ u.child[z][o] = 0
      BY <3>1, <1>1, <1>16
    <3> QED
      BY <3>1, <3>2, <3>3, <1>3
  <2> QED
    BY <2>1, <2>2
<1>9. ASSUME NEW z \in S, NEW o \in TheSides
      PROVE  E[z] = {z} \cup E[v.child[z][o]] \cup E[v.child[z][Across(o)]]
  <2>0. Across(o) \in TheSides /\ Across(Across(o)) = o
    BY SideFacts
  <2>1. CASE z # y
    <3>1. /\ v.child[z][o] = u.child[z][o] /\ v.child[z][Across(o)] = u.child[z][Across(o)]
          /\ u.child[z][o] \in S \cup {0} /\ u.child[z][Across(o)] \in S \cup {0}
      BY <2>0, <2>1, <1>1, <1>3, <1>16
    <3>2. \A q \in S \cup {0} : E[q] = IF y \in D[q] THEN D[q] \cup {key} ELSE D[q]
      BY <1>1, <1>6
    <3>3. D[z] = {z} \cup D[u.child[z][o]] \cup D[u.child[z][Across(o)]]
      BY <1>3
    <3> DEFINE a == u.child[z][o]
               b == u.child[z][Across(o)]
    <3>4. E[z] = IF y \in D[z] THEN D[z] \cup {key} ELSE D[z]
      BY <1>6
    <3>5. /\ E[a] = IF y \in D[a] THEN D[a] \cup {key} ELSE D[a]
          /\ E[b] = IF y \in D[b] THEN D[b] \cup {key} ELSE D[b]
      BY <3>1, <3>2
    <3>6. v.child[z][o] = a /\ v.child[z][Across(o)] = b /\ D[z] = {z} \cup D[a] \cup D[b]
      BY <3>1, <3>3
    <3> HIDE DEF a, b
    <3>7. y \in D[z] <=> y \in D[a] \/ y \in D[b]
      BY <3>6, <2>1
    <3> QED
      BY <3>4, <3>5, <3>6, <3>7
  <2>2. CASE z = y
    <3>1. v.child[y][s] = key /\ v.child[y][Across(s)] = u.child[y][Across(s)]
      BY <1>0, <1>1, <1>16
    <3>2. E[y] = D[y] \cup {key} /\ E[u.child[y][Across(s)]] = D[u.child[y][Across(s)]]
      BY <1>0, <1>1, <1>3, <1>5, <1>6
    <3>3. D[y] = {y} \cup D[u.child[y][Across(s)]]
      <4>1. D[y] = {y} \cup D[u.child[y][s]] \cup D[u.child[y][Across(s)]]
        BY <1>0, <1>3
      <4> QED
        BY <4>1, <1>0, <1>1
    <3>4. E[y] = {y} \cup E[v.child[y][s]] \cup E[v.child[y][Across(s)]]
      BY <3>1, <3>2, <3>3, <1>6
    <3>5. {o, Across(o)} = {s, Across(s)}
      BY <1>0, <2>0, SideFacts
    <3>6. \/ o = s /\ Across(o) = Across(s)
          \/ o = Across(s) /\ Across(o) = s
      BY <1>0, <2>0, SideFacts
    <3> QED
      BY <3>4, <3>6, <2>2
  <2> QED
    BY <2>1, <2>2
<1>10. ASSUME NEW o \in TheSides
       PROVE  /\ v.child[key][o] = 0 /\ E[key] = {key} \cup E[v.child[key][o]] \cup E[v.child[key][Across(o)]]
  <2>1. \A q \in TheSides : v.child[key][q] = 0
    BY <1>0, <1>1, <1>4, <1>16
  <2>2. Across(o) \in TheSides
    BY SideFacts
  <2> QED
    BY <2>1, <2>2, <1>6
<1>11. /\ v.root \in S \cup {key} /\ E[v.root] = S \cup {key} /\ v.parent[v.root] = 0
  <2>1. u.root \in RbKeys /\ u.root # key
    BY <1>1, <1>2
  <2> QED
    <3>1. u.root \in S /\ D[u.root] = S /\ y \in S /\ v.root = u.root
      BY <1>0, <1>2, <1>16
    <3>2. E[u.root] = IF y \in D[u.root] THEN D[u.root] \cup {key} ELSE D[u.root]
      BY <3>1, <1>6
    <3>3. v.parent[u.root] = 0
      BY <2>1, <1>2, <1>16
    <3> QED
      BY <3>1, <3>2, <3>3
<1>12. ASSUME NEW z \in (S \cup {key}) \ {v.root}
       PROVE  v.parent[z] \in S \cup {key} /\ \E o \in TheSides : v.child[v.parent[z]][o] = z
  <2>1. CASE z = key
    BY <2>1, <1>0, <1>1, <1>16
  <2>2. CASE z # key
    <3>1. v.parent[z] = u.parent[z] /\ u.parent[z] \in S
      BY <2>2, <1>1, <1>4, <1>16
    <3>2. PICK o \in TheSides : u.child[u.parent[z]][o] = z
      BY <2>2, <1>4, <1>16
    <3>3. v.child[u.parent[z]][o] = z
      BY <3>1, <3>2, <1>0, <1>1, <1>16
    <3> QED
      BY <3>1, <3>3
  <2> QED
    BY <2>1, <2>2
<1>13. ASSUME NEW z \in RbKeys \ (S \cup {key})
       PROVE  v.parent[z] = 0 /\ \A o \in TheSides : v.child[z][o] = 0
  <2>1. z # key /\ z # y /\ z \in RbKeys \ S
    BY <1>0
  <2> QED
    BY <2>1, <1>4, <1>16
<1>14. Shaped(S \cup {key}, E, v)
  <2>1. v \in Trees /\ S \cup {key} \in SUBSET RbKeys /\ IsFiniteSet(S \cup {key})
    BY <1>1, <1>7, <1>16
  <2>2. E \in [Links -> SUBSET (S \cup {key})] /\ \A z \in Links \ (S \cup {key}) : E[z] = {}
    BY <1>6
  <2>3. /\ v.root \in (S \cup {key}) \cup {0} /\ E[v.root] = S \cup {key}
        /\ v.root # 0 => v.parent[v.root] = 0
    BY <1>11
  <2>4. ASSUME NEW z \in S \cup {key}, NEW o \in TheSides
        PROVE  /\ v.child[z][o] \in (S \cup {key}) \cup {0}
               /\ v.child[z][o] # 0 => v.parent[v.child[z][o]] = z
               /\ E[z] = {z} \cup E[v.child[z][o]] \cup E[v.child[z][Across(o)]]
               /\ \A w \in E[v.child[z][o]] : Beyond(o, z, w)
    <3>1. CASE z \in S
      BY <3>1, <1>8, <1>9
    <3>2. CASE z = key
      BY <3>2, <1>6, <1>10
    <3> QED
      BY <3>1, <3>2
  <2> QED
    BY <2>1, <2>2, <2>3, <2>4, <1>12, <1>13 DEF Shaped
<1> QED
  BY <1>14

LEMMA FirstShape ==
    ASSUME TreeKeys, NEW S, NEW D, NEW u, Shaped(S, D, u), S = {}, NEW key \in RbKeys,
           NEW v \in Trees, v.root = key, v.child = u.child, v.parent[key] = 0,
           \A z \in RbKeys : z # key => v.parent[z] = u.parent[z]
    PROVE  \E E : Shaped({key}, E, v)
<1> DEFINE E == [z \in Links |-> IF z = key THEN {key} ELSE {}]
<1>1. /\ \A z \in RbKeys : u.parent[z] = 0 /\ \A o \in TheSides : u.child[z][o] = 0
      /\ key # 0 /\ key \in Links /\ 0 \in Links /\ IsFiniteSet({key})
  <2>1. \A z \in RbKeys \ S : u.parent[z] = 0 /\ \A o \in TheSides : u.child[z][o] = 0
    BY DEF Shaped
  <2>2. key # 0 /\ key \in Links /\ 0 \in Links
    BY DEF Links, TreeKeys
  <2>3. IsFiniteSet({key})
    BY FS_Singleton
  <2> QED
    BY <2>1, <2>2, <2>3
<1>2. /\ E \in [Links -> SUBSET {key}] /\ E[key] = {key} /\ E[0] = {}
      /\ \A z \in Links \ {key} : E[z] = {}
  BY <1>1
<1> HIDE DEF E
<1>3. ASSUME NEW o \in TheSides
      PROVE  v.child[key][o] = 0 /\ E[key] = {key} \cup E[v.child[key][o]] \cup E[v.child[key][Across(o)]]
  BY <1>1, <1>2, SideFacts
<1>4. Shaped({key}, E, v)
  BY <1>1, <1>2, <1>3 DEF Shaped
<1> QED
  BY <1>4

\* The tree after the insertion of a key at its place.
InsertIn(u, key) ==
    LET y == PlaceIn(u, key)
        fresh == RB!SetParent(RB!Paint(u, key, 0), key, y)
    IN IF y = 0 THEN [fresh EXCEPT !.root = key]
       ELSE [fresh EXCEPT !.child[y][IF key < y THEN "left" ELSE "right"] = key]

LEMMA InsertedForm ==
    ASSUME TreeKeys, NEW u \in Trees, NEW key \in RbKeys, PlaceIn(u, key) \in Links
    PROVE  LET y == PlaceIn(u, key)
               s == IF key < y THEN "left" ELSE "right"
               v == InsertIn(u, key)
           IN /\ v \in Trees
              /\ \A z \in RbKeys : v.color[z] = IF z = key THEN 0 ELSE u.color[z]
              /\ \A z \in RbKeys : v.parent[z] = IF z = key THEN y ELSE u.parent[z]
              /\ y = 0 => v.root = key /\ v.child = u.child
              /\ y # 0 => /\ v.root = u.root
                          /\ \A z \in RbKeys, o \in TheSides : v.child[z][o] =
                                IF z = y /\ o = s THEN key ELSE u.child[z][o]
<1> DEFINE y == PlaceIn(u, key)
           s == IF key < y THEN "left" ELSE "right"
           v == InsertIn(u, key)
           w1 == RB!Paint(u, key, 0)
           w2 == RB!SetParent(w1, key, y)
<1>1. v = IF y = 0 THEN [w2 EXCEPT !.root = key] ELSE [w2 EXCEPT !.child[y][s] = key]
  BY DEF InsertIn
<1>2. y \in Links /\ key \in Links /\ key # 0 /\ s \in TheSides
  BY DEF Links, TreeKeys, TheSides
<1> HIDE DEF y, s, v
<1>3. Painted(u, key, 0, w1)
  BY PaintForm
<1>4. /\ w1 \in Trees /\ w1.root = u.root /\ w1.child = u.child /\ w1.parent = u.parent
      /\ \A z \in RbKeys : w1.color[z] = IF z = key THEN 0 ELSE u.color[z]
  BY <1>3 DEF Painted
<1> HIDE DEF w1
<1>5. /\ w2 \in Trees /\ w2.root = w1.root /\ w2.child = w1.child /\ w2.color = w1.color
      /\ \A z \in RbKeys : w2.parent[z] = IF key # 0 /\ z = key THEN y ELSE w1.parent[z]
  <2>1. w1 \in Trees /\ key \in Links /\ y \in Links
    BY <1>2, <1>4
  <2> QED
    BY <2>1, SetParentForm
<1> HIDE DEF w2
<1>6. CASE y = 0
  <2>1. v = [w2 EXCEPT !.root = key]
    BY <1>1, <1>6
  <2>2. /\ v \in Trees /\ v.root = key /\ v.parent = w2.parent /\ v.color = w2.color
        /\ v.child = w2.child
    BY <2>1, <1>2, <1>5, SetRootForm
  <2> QED
    BY <2>2, <1>2, <1>4, <1>5, <1>6 DEF y, v
<1>7. CASE y # 0
  <2>1. v = [w2 EXCEPT !.child[y][s] = key] /\ y \in RbKeys
    BY <1>1, <1>2, <1>7 DEF Links
  <2>2. /\ v \in Trees /\ v.root = w2.root /\ v.parent = w2.parent /\ v.color = w2.color
        /\ \A z \in RbKeys, o \in TheSides :
              v.child[z][o] = IF z = y /\ o = s THEN key ELSE w2.child[z][o]
    BY <2>1, <1>2, <1>5, SetChildForm
  <2> QED
    BY <2>2, <1>2, <1>4, <1>5, <1>7 DEF y, v, s
<1> QED
  BY <1>6, <1>7

LEMMA InsertedShape ==
    ASSUME TreeKeys, NEW S, NEW D, NEW u, Shaped(S, D, u), NEW key \in RbKeys \ S
    PROVE  \E E : Shaped(S \cup {key}, E, InsertIn(u, key))
<1> DEFINE y == PlaceIn(u, key)
           s == IF key < y THEN "left" ELSE "right"
           v == InsertIn(u, key)
<1>1. u \in Trees /\ S \subseteq Links /\ S \subseteq Int /\ (u.root = 0 <=> S = {}) /\ 0 \notin S
      /\ key \in Int
  <2>1. u \in Trees /\ key \in Int
    BY DEF Shaped, TreeKeys
  <2>2. S \subseteq Links /\ S \subseteq Int /\ (u.root = 0 <=> S = {}) /\ 0 \notin S
    BY NothingBelowNull
  <2> QED
    BY <2>1, <2>2
<1>2. CASE S = {}
  <2>1. y = 0
    BY <1>1, <1>2 DEF PlaceIn
  <2>2. y \in Links
    BY <2>1 DEF Links
  <2>3. /\ v \in Trees /\ v.root = key /\ v.child = u.child
        /\ \A z \in RbKeys : v.parent[z] = IF z = key THEN y ELSE u.parent[z]
    BY <1>1, <2>1, <2>2, InsertedForm
  <2> HIDE DEF v, y
  <2>4. v.parent[key] = 0 /\ \A z \in RbKeys : z # key => v.parent[z] = u.parent[z]
    BY <2>1, <2>3
  <2>5. \E E : Shaped({key}, E, v)
    BY <2>3, <2>4, <1>2, FirstShape
  <2>6. S \cup {key} = {key}
    BY <1>2
  <2> QED
    BY <2>5, <2>6 DEF v
<1>3. CASE S # {}
  <2>1. u.root # 0
    BY <1>1, <1>3
  <2>2. /\ y \in S /\ TowardIn(u, y, key) = 0
        /\ \A z \in S : y \in D[z] => z = y \/ y \in D[TowardIn(u, z, key)]
    BY <2>1, PlaceIs
  <2>3. y \in Links /\ y # 0 /\ s \in TheSides /\ u.child[y][s] = 0
    BY <2>2, <1>1 DEF TheSides, TowardIn
  <2>4. /\ v \in Trees /\ v.root = u.root
        /\ \A z \in RbKeys : v.parent[z] = IF z = key THEN y ELSE u.parent[z]
        /\ \A z \in RbKeys, o \in TheSides : v.child[z][o] =
              IF z = y /\ o = s THEN key ELSE u.child[z][o]
    BY <1>1, <2>3, InsertedForm
  <2>5. Beyond(s, y, key)
    <3>1. y \in Int /\ y # key
      BY <2>2, <1>1
    <3> QED
      BY <3>1, <1>1 DEF Beyond
  <2> HIDE DEF v, y, s
  <2>6. Grown(S, D, u, key, y, s, v)
    BY <2>2, <2>3, <2>4, <2>5 DEF Grown
  <2> QED
    BY <2>6, GrownShape DEF v
<1> QED
  BY <1>2, <1>3

\* v has the new red leaf key.
NewLeaf(S, u, v, key, sx) ==
    /\ \E G : Coloured(S \cup {key}, v, G, 0, sx, 0, key)
    /\ v.color[key] = 0
    /\ v.root # key => u.root # 0 /\ v.root = u.root /\ v.color[u.root] = u.color[u.root]

LEMMA InsertedColours ==
    ASSUME TreeKeys, NEW S, NEW D, NEW u, Shaped(S, D, u), NEW key \in RbKeys \ S,
           NEW H, NEW sx, Coloured(S, u, H, 0, sx, 0, 0)
    PROVE  NewLeaf(S, u, InsertIn(u, key), key, sx)
<1> DEFINE y == PlaceIn(u, key)
           s == IF key < y THEN "left" ELSE "right"
           v == InsertIn(u, key)
           G == [H EXCEPT ![key] = 1]
<1>1. /\ u \in Trees /\ S \subseteq Links /\ S \subseteq Int /\ (u.root = 0 <=> S = {}) /\ 0 \notin S
      /\ key \in Int /\ S \subseteq RbKeys /\ key # 0 /\ key \in Links
  BY NothingBelowNull DEF Shaped, TreeKeys, Links
<1>2. y \in S \cup {0} /\ (y = 0 <=> S = {}) /\ (y # 0 => u.child[y][s] = 0)
  <2>1. CASE S = {}
    BY <1>1, <2>1 DEF PlaceIn
  <2>2. CASE S # {}
    BY <1>1, <2>2, PlaceIs DEF TowardIn
  <2> QED
    BY <2>1, <2>2
<1>3. s \in TheSides /\ y \in Links
  BY <1>1, <1>2 DEF TheSides, Links
<1>4. /\ v \in Trees
      /\ \A z \in RbKeys : v.color[z] = IF z = key THEN 0 ELSE u.color[z]
      /\ y = 0 => v.root = key /\ v.child = u.child
      /\ y # 0 => /\ v.root = u.root
                  /\ \A z \in RbKeys, o \in TheSides : v.child[z][o] =
                        IF z = y /\ o = s THEN key ELSE u.child[z][o]
  BY <1>1, <1>3, InsertedForm
<1>5. /\ H \in Measures /\ H[0] = 1 /\ Even(S, u, H, 0, sx) /\ Paired(S, u, 0, 0)
      /\ \A z \in RbKeys \ S : u.color[z] = 1
  BY DEF Coloured
<1>6. /\ \A z \in S, o \in TheSides : u.child[z][o] \in S \cup {0}
      /\ \A o \in TheSides : u.child[key][o] = 0
  BY DEF Shaped
<1> HIDE DEF y, s, v
<1>7. /\ G \in Measures /\ G[0] = 1 /\ G[key] = 1 /\ \A z \in Links : z # key => G[z] = H[z]
  BY <1>1, <1>5 DEF Measures
<1> HIDE DEF G
<1>8. \A z \in S, o \in TheSides :
        \/ v.child[z][o] = u.child[z][o] /\ v.child[z][o] # key
        \/ z = y /\ v.child[z][o] = key /\ u.child[z][o] = 0
  BY <1>1, <1>2, <1>4, <1>6
<1>9. \A o \in TheSides : v.child[key][o] = 0
  BY <1>1, <1>2, <1>4, <1>6
<1>10. ASSUME NEW z \in S \cup {key}, NEW o \in TheSides
       PROVE  G[z] = v.color[z] + G[v.child[z][o]] + Owes(z, o, 0, sx)
  <2>1. Owes(z, o, 0, sx) = 0
    BY <1>1 DEF Owes
  <2>2. CASE z = key
    BY <2>1, <2>2, <1>4, <1>7, <1>9
  <2>3. CASE z \in S
    <3>1. H[z] = u.color[z] + H[u.child[z][o]] + 0
      BY <2>1, <2>3, <1>5 DEF Even
    <3>2. G[z] = H[z] /\ v.color[z] = u.color[z]
      BY <2>3, <1>1, <1>4, <1>7
    <3>3. G[v.child[z][o]] = H[u.child[z][o]]
      <4>1. u.child[z][o] \in Links
        BY <2>3, <1>1, <1>6 DEF Links
      <4> QED
        BY <4>1, <2>3, <1>5, <1>7, <1>8
    <3> QED
      BY <3>1, <3>2, <3>3, <2>1
  <2> QED
    BY <2>2, <2>3
<1>11. ASSUME NEW z \in S \cup {key}, NEW o \in TheSides
       PROVE  FitsIn(v, z, v.child[z][o], 0, key)
  <2>1. CASE v.child[z][o] \in {0, key}
    BY <2>1 DEF FitsIn
  <2>2. CASE v.child[z][o] \notin {0, key}
    <3>1. z \in S /\ v.child[z][o] = u.child[z][o] /\ u.child[z][o] \in S
      BY <2>2, <1>6, <1>8, <1>9
    <3>2. FitsIn(u, z, u.child[z][o], 0, 0)
      BY <3>1, <1>5 DEF Paired
    <3>3. v.color[z] = u.color[z] /\ v.color[u.child[z][o]] = u.color[u.child[z][o]]
      BY <3>1, <2>2, <1>1, <1>4
    <3> QED
      BY <3>1, <3>2, <3>3, <1>1 DEF FitsIn
  <2> QED
    BY <2>1, <2>2
<1>12. \A z \in RbKeys \ (S \cup {key}) : v.color[z] = 1
  BY <1>4, <1>5
<1>13. Coloured(S \cup {key}, v, G, 0, sx, 0, key)
  BY <1>7, <1>10, <1>11, <1>12 DEF Coloured, Even, Paired
<1>14. v.color[key] = 0 /\ (v.root # key => u.root # 0 /\ v.root = u.root /\ v.color[u.root] = u.color[u.root])
  <2>1. CASE y = 0
    BY <2>1, <1>4
  <2>2. CASE y # 0
    <3>1. u.root \in S
      BY <2>2, <1>1, <1>2 DEF Shaped
    <3> QED
      BY <2>2, <3>1, <1>1, <1>2, <1>4
  <2> QED
    BY <2>1, <2>2
<1> QED
  BY <1>13, <1>14 DEF v, NewLeaf

-----------------------------------------------------------------------------
(* The passes after an insertion.                                          *)

LEMMA SideOfIs ==
    ASSUME TreeKeys, NEW S, NEW D, NEW u, Shaped(S, D, u), NEW x \in S, u.parent[x] # 0
    PROVE  /\ RB!SideOf(u, x) \in TheSides /\ u.parent[x] \in S
           /\ u.child[u.parent[x]][RB!SideOf(u, x)] = x
           /\ u.child[u.parent[x]][Across(RB!SideOf(u, x))] # x
<1> DEFINE p == u.parent[x]
<1>1. PICK s \in TheSides : p \in S /\ u.child[p][s] = x /\ u.child[p][Across(s)] # x
  BY ParentFacts
<1>2. RB!SideOf(u, x) = IF u.child[p]["left"] = x THEN "left" ELSE "right"
  BY DEF RB!SideOf
<1> HIDE DEF p
<1>3. RB!SideOf(u, x) = s
  BY <1>1, <1>2 DEF TheSides, Across
<1> QED
  BY <1>1, <1>3 DEF p

\* Every way down has as many black nodes, and only the new node n, which is red,
\* may have a red parent.
Growing(S, D, H, u, n) ==
    /\ Shaped(S, D, u) /\ Coloured(S, u, H, 0, "left", 0, n)
    /\ n \in S /\ u.color[n] = 0
    /\ u.root = n \/ u.color[u.root] = 1

\* Its parent p, which is red too, has the parent g on whose side s it is.
Kin(S, u, n, p, g, s) ==
    /\ p \in S /\ g \in S /\ s \in TheSides /\ n \in S
    /\ p = u.parent[n] /\ g = u.parent[p] /\ u.child[g][s] = p
    /\ u.color[p] = 0 /\ u.color[g] = 1
    /\ u.root \notin {n, p} /\ n # g /\ n # p /\ p # g

LEMMA KinOfRed ==
    ASSUME TreeKeys, NEW S, NEW D, NEW H, NEW u, NEW n, Growing(S, D, H, u, n),
           RB!RedIn(u, u.parent[n])
    PROVE  LET p == u.parent[n]
               g == u.parent[p]
           IN Kin(S, u, n, p, g, RB!SideOf(u, p))
<1> DEFINE p == u.parent[n]
           g == u.parent[p]
           s == RB!SideOf(u, p)
<1>1. /\ Shaped(S, D, u) /\ Paired(S, u, 0, n) /\ n \in S /\ u.color[n] = 0
      /\ u.root = n \/ u.color[u.root] = 1
  BY DEF Growing, Coloured
<1>2. p # 0 /\ u.color[p] = 0
  BY DEF RB!RedIn, RB!NULL, RB!RED
<1>3. 0 \notin S /\ p \in S /\ n # u.root /\ p # n /\ p \notin D[n] /\ n \in D[p]
  BY <1>1, <1>2, ParentFacts, NothingBelowNull
<1> HIDE DEF p
<1>4. p # u.root
  BY <1>1, <1>2, <1>3
<1>5. g \in S /\ g # p /\ g \notin D[p] /\ g # 0
  BY <1>1, <1>3, <1>4, ParentFacts
<1>6. s \in TheSides /\ u.child[g][s] = p
  BY <1>1, <1>3, <1>5, SideOfIs
<1>7. g # n
  BY <1>3, <1>5
<1> HIDE DEF g, s
<1>8. FitsIn(u, g, p, 0, n)
  BY <1>1, <1>5, <1>6 DEF Paired
<1>9. u.color[g] \in {0, 1} /\ g # 0 /\ p # 0
  <2>1. g \in RbKeys /\ u \in Trees
    BY <1>1, <1>5 DEF Shaped
  <2> QED
    BY <2>1, <1>2, <1>3, <1>5 DEF Trees
<1>10. u.color[g] = 1
  BY <1>2, <1>3, <1>8, <1>9 DEF FitsIn
<1> QED
  BY <1>1, <1>2, <1>3, <1>4, <1>5, <1>6, <1>7, <1>10 DEF Kin, p, g, s

LEMMA ColourTypes ==
    ASSUME TreeKeys, NEW S, NEW D, NEW u, Shaped(S, D, u), NEW x \in S
    PROVE  u.color[x] \in {0, 1} /\ u.color[x] \in Nat
BY DEF Shaped, Trees

\* Case 1: a red uncle.
LEMMA RedUncle ==
    ASSUME TreeKeys, NEW S, NEW D, NEW H, NEW u, NEW n, Growing(S, D, H, u, n),
           NEW p, NEW g, NEW s, Kin(S, u, n, p, g, s),
           RB!RedIn(u, u.child[g][Across(s)])
    PROVE  LET v == RB!Paint(RB!Paint(RB!Paint(u, u.child[g][Across(s)], 1), p, 1), g, 0)
           IN \E G : Growing(S, D, G, v, g)
<1> DEFINE c == u.child[g][Across(s)]
           w1 == RB!Paint(u, c, 1)
           w2 == RB!Paint(w1, p, 1)
           v == RB!Paint(w2, g, 0)
           G == [H EXCEPT ![p] = H[p] + 1, ![c] = H[c] + 1]
<1>1. /\ Shaped(S, D, u) /\ H \in Measures /\ H[0] = 1 /\ Even(S, u, H, 0, "left")
      /\ Paired(S, u, 0, n) /\ n \in S /\ u.color[n] = 0
      /\ (u.root = n \/ u.color[u.root] = 1) /\ \A z \in RbKeys \ S : u.color[z] = 1
  BY DEF Growing, Coloured
<1>2. /\ p \in S /\ g \in S /\ s \in TheSides
      /\ p = u.parent[n] /\ g = u.parent[p] /\ u.child[g][s] = p
      /\ u.color[p] = 0 /\ u.color[g] = 1
      /\ u.root \notin {n, p} /\ n # g /\ n # p /\ p # g
  BY DEF Kin
<1>3. c # 0 /\ u.color[c] = 0
  BY DEF RB!RedIn, RB!NULL, RB!RED
<1>4. /\ 0 \notin S /\ S \subseteq Links /\ S \subseteq RbKeys
      /\ (\A o \in TheSides : o = s \/ o = Across(s)) /\ Across(s) \in TheSides
  BY <1>1, <1>2, NothingBelowNull, SideFacts
<1>5. \A z \in S, o \in TheSides :
          u.child[z][o] \in S \cup {0} /\ (u.child[z][o] # 0 => u.parent[u.child[z][o]] = z)
  BY <1>1 DEF Shaped
<1>6. c \in S /\ c # p /\ c # g /\ u.parent[c] = g
  <2>1. c \in S /\ u.parent[c] = g
    BY <1>2, <1>3, <1>4, <1>5
  <2>0. Shaped(S, D, u) /\ g \in S /\ s \in TheSides /\ Across(s) \in TheSides
    BY <1>1, <1>2, <1>4
  <2>2. u.child[g][Across(s)] # g
    BY <2>0, NodeFacts
  <2>3. u.child[g][s] # 0
    BY <1>2, <1>4
  <2>4. u.child[g][s] # u.child[g][Across(s)]
    BY <2>0, <2>3, NodeFacts
  <2> QED
    BY <2>1, <2>2, <2>4, <1>2
<1>7. \A z \in S, o \in TheSides : u.child[z][o] \in {p, c} => z = g
  <2> SUFFICES ASSUME NEW z \in S, NEW o \in TheSides, u.child[z][o] \in {p, c} PROVE z = g
    OBVIOUS
  <2>1. u.parent[u.child[z][o]] = g /\ u.child[z][o] # 0
    BY <1>2, <1>4, <1>6
  <2> QED
    BY <2>1, <1>5
<1> HIDE DEF c
<1>8. Shaped(S, D, w1) /\ Painted(u, c, 1, w1)
  BY <1>1, <1>6, PaintedShape
<1> HIDE DEF w1
<1>9. Shaped(S, D, w2) /\ Painted(w1, p, 1, w2)
  BY <1>2, <1>8, PaintedShape
<1> HIDE DEF w2
<1>10. Shaped(S, D, v) /\ Painted(w2, g, 0, v)
  BY <1>2, <1>9, PaintedShape
<1> HIDE DEF v
<1>11. /\ v.root = u.root /\ v.child = u.child /\ v.parent = u.parent
       /\ \A z \in RbKeys : v.color[z] =
             IF z = g THEN 0 ELSE IF z \in {p, c} THEN 1 ELSE u.color[z]
  BY <1>8, <1>9, <1>10 DEF Painted
<1>12. /\ G \in Measures /\ G[0] = 1 /\ G[p] = H[p] + 1 /\ G[c] = H[c] + 1
       /\ \A z \in Links \ {p, c} : G[z] = H[z]
  <2>1. \A k \in Nat \ {0} : k + 1 \in Nat \ {0}
    OBVIOUS
  <2>2. H[p] \in Nat \ {0} /\ H[c] \in Nat \ {0} /\ p \in Links /\ c \in Links /\ 0 \in Links
    BY <1>1, <1>2, <1>4, <1>6 DEF Measures, Links
  <2>3. H \in [Links -> Nat \ {0}]
    BY <1>1 DEF Measures
  <2>4. G \in Measures
    BY <2>1, <2>2, <2>3 DEF Measures
  <2> QED
    BY <2>2, <2>3, <2>4, <1>1, <1>2, <1>4, <1>6
<1> HIDE DEF G
<1>13. \A z \in S, o \in TheSides : Owes(z, o, 0, "left") = 0
  BY <1>4 DEF Owes
<1>14. \A z \in S, o \in TheSides : H[z] = u.color[z] + H[u.child[z][o]]
                                    /\ u.color[z] \in Nat /\ H[u.child[z][o]] \in Nat
  <2> SUFFICES ASSUME NEW z \in S, NEW o \in TheSides
               PROVE  H[z] = u.color[z] + H[u.child[z][o]]
                      /\ u.color[z] \in Nat /\ H[u.child[z][o]] \in Nat
    OBVIOUS
  <2>1. u.color[z] \in Nat
    BY <1>1, ColourTypes
  <2>2. u.child[z][o] \in Links
    BY <1>4, <1>5 DEF Links
  <2>3. H[u.child[z][o]] \in Nat
    BY <2>2, <1>1 DEF Measures
  <2>4. H[z] = u.color[z] + H[u.child[z][o]] + 0
    BY <1>1, <1>13 DEF Even
  <2> QED
    BY <2>1, <2>3, <2>4
<1>15. ASSUME NEW z \in S, NEW o \in TheSides
       PROVE  G[z] = v.color[z] + G[v.child[z][o]]
  <2>1. CASE z \in {p, c}
    <3>1. u.child[z][o] \notin {p, c} /\ u.child[z][o] \in Links
      BY <2>1, <1>2, <1>4, <1>5, <1>6, <1>7 DEF Links
    <3>2. v.color[z] = 1 /\ u.color[z] = 0 /\ z # g
      BY <2>1, <1>2, <1>3, <1>4, <1>6, <1>11
    <3>3. G[z] = H[z] + 1
      BY <2>1, <1>12
    <3> QED
      BY <3>1, <3>2, <3>3, <1>11, <1>12, <1>14
  <2>2. CASE z = g
    <3>1. u.child[z][o] \in {p, c}
      BY <2>2, <1>2, <1>4 DEF c
    <3>2. G[u.child[z][o]] = H[u.child[z][o]] + 1
      BY <3>1, <1>12
    <3>3. v.color[z] = 0 /\ u.color[z] = 1 /\ G[z] = H[z]
      BY <2>2, <1>2, <1>4, <1>6, <1>11, <1>12
    <3> QED
      BY <3>2, <3>3, <1>11, <1>14
  <2>3. CASE z \notin {p, c, g}
    <3>1. u.child[z][o] \notin {p, c} /\ u.child[z][o] \in Links
      BY <2>3, <1>4, <1>5, <1>7 DEF Links
    <3>2. v.color[z] = u.color[z] /\ G[z] = H[z]
      BY <2>3, <1>4, <1>11, <1>12
    <3> QED
      BY <3>1, <3>2, <1>11, <1>12, <1>14
  <2> QED
    BY <2>1, <2>2, <2>3
<1>16. ASSUME NEW z \in S, NEW o \in TheSides
       PROVE  FitsIn(v, z, v.child[z][o], 0, g)
  <2>1. FitsIn(u, z, u.child[z][o], 0, n)
    BY <1>1 DEF Paired
  <2>2. SUFFICES ASSUME v.color[z] = 0, u.child[z][o] # 0, v.color[u.child[z][o]] = 0,
                        u.child[z][o] # g
                 PROVE  FALSE
    BY <1>11 DEF FitsIn
  <2>3. u.child[z][o] \in S
    BY <2>2, <1>5
  <2>4. u.child[z][o] \notin {p, c} /\ u.color[u.child[z][o]] = 0
    BY <2>2, <2>3, <1>4, <1>11
  <2>5. z \notin {p, c}
    BY <2>2, <1>2, <1>4, <1>6, <1>11
  <2>6. z # g
    BY <2>4, <1>2, <1>4 DEF c
  <2>7. u.color[z] = 0
    BY <2>2, <2>5, <2>6, <1>4, <1>11
  <2>8. u.child[z][o] = n /\ z # 0
    BY <2>1, <2>2, <2>4, <2>7, <1>4 DEF FitsIn
  <2>9. z = p
    BY <2>8, <2>2, <1>2, <1>5
  <2> QED
    BY <2>5, <2>9
<1>17. v.root = g \/ v.color[v.root] = 1
  <2>1. u.root # 0 /\ u.root \in S
    BY <1>1, <1>4, NothingBelowNull
  <2> QED
    BY <2>1, <1>1, <1>2, <1>4, <1>11
<1>18. \A z \in RbKeys \ S : v.color[z] = 1
  BY <1>1, <1>2, <1>6, <1>11
<1>19. Coloured(S, v, G, 0, "left", 0, g)
  <2>1. Even(S, v, G, 0, "left")
    <3> SUFFICES ASSUME NEW z \in S, NEW o \in TheSides
                 PROVE  G[z] = v.color[z] + G[v.child[z][o]] + Owes(z, o, 0, "left")
      BY DEF Even
    <3>1. v.color[z] \in Nat
      BY <1>10, ColourTypes
    <3>2. v.child[z][o] \in Links
      BY <1>4, <1>5, <1>11 DEF Links
    <3>3. G[v.child[z][o]] \in Nat
      BY <3>2, <1>12 DEF Measures
    <3> QED
      BY <3>1, <3>3, <1>13, <1>15
  <2>2. Paired(S, v, 0, g)
    BY <1>16 DEF Paired
  <2> QED
    BY <2>1, <2>2, <1>12, <1>18 DEF Coloured
<1>20. Growing(S, D, G, v, g)
  <2>1. v.color[g] = 0
    BY <1>2, <1>4, <1>11
  <2> QED
    BY <2>1, <1>2, <1>10, <1>17, <1>19 DEF Growing
<1> QED
  BY <1>20 DEF v, w2, w1, c

\* What the colours tell of a node and a child of it.
LEMMA HeightFacts ==
    ASSUME TreeKeys, NEW S, NEW D, NEW H, NEW u, NEW px, NEW sx, NEW above, NEW below,
           Shaped(S, D, u), Coloured(S, u, H, px, sx, above, below),
           NEW z \in S, NEW o \in TheSides
    PROVE  /\ H[z] = u.color[z] + H[u.child[z][o]] + Owes(z, o, px, sx)
           /\ FitsIn(u, z, u.child[z][o], above, below)
           /\ H[z] \in Nat /\ H[z] >= 1 /\ H[u.child[z][o]] \in Nat /\ H[u.child[z][o]] >= 1
           /\ Owes(z, o, px, sx) \in Nat /\ u.child[z][o] \in S \cup {0}
           /\ u.color[z] \in {0, 1} /\ u.color[z] \in Nat
<1>1. z \in Links /\ u.child[z][o] \in Links /\ u.child[z][o] \in S \cup {0}
  BY NothingBelowNull, NodeFacts DEF Links
<1>2. H[z] \in Nat \ {0} /\ H[u.child[z][o]] \in Nat \ {0}
  BY <1>1 DEF Coloured, Measures
<1>3. u.color[z] \in {0, 1} /\ u.color[z] \in Nat
  BY ColourTypes
<1>4. Owes(z, o, px, sx) \in Nat
  BY DEF Owes
<1>5. H[z] = u.color[z] + H[u.child[z][o]] + Owes(z, o, px, sx)
  BY DEF Coloured, Even
<1>6. FitsIn(u, z, u.child[z][o], above, below)
  BY DEF Coloured, Paired
<1> QED
  BY <1>1, <1>2, <1>3, <1>4, <1>5, <1>6

LEMMA NothingOwed == ASSUME NEW z, z # 0, NEW o, NEW sx PROVE Owes(z, o, 0, sx) = 0
BY DEF Owes

\* Case 2: an inner child changes places with its parent.
LEMMA InnerTurned ==
    ASSUME TreeKeys, NEW S, NEW D, NEW H, NEW u, NEW n, Growing(S, D, H, u, n),
           NEW p, NEW g, NEW s, Kin(S, u, n, p, g, s), u.child[p][Across(s)] = n,
           NEW v, v = RB!Rotate(u, p, s)
    PROVE  /\ \E E : Growing(S, E, H, v, p)
           /\ Kin(S, v, p, n, g, s) /\ v.child[n][s] = p
           /\ v.child[g][Across(s)] = u.child[g][Across(s)] /\ v.color = u.color
<1> DEFINE a == u.child[p][s]
           b == u.child[n][s]
           c == u.child[n][Across(s)]
<1>1. /\ Shaped(S, D, u) /\ Coloured(S, u, H, 0, "left", 0, n) /\ n \in S /\ u.color[n] = 0
      /\ u.root = n \/ u.color[u.root] = 1
  BY DEF Growing
<1>2. /\ p \in S /\ g \in S /\ s \in TheSides
      /\ p = u.parent[n] /\ g = u.parent[p] /\ u.child[g][s] = p
      /\ u.color[p] = 0 /\ u.color[g] = 1
      /\ u.root \notin {n, p} /\ n # g /\ n # p /\ p # g
  BY DEF Kin
<1>3. /\ 0 \notin S /\ S \subseteq Links /\ S \subseteq RbKeys /\ Across(s) \in TheSides
      /\ Across(s) # s
  BY <1>1, <1>2, NothingBelowNull, SideFacts
<1>4. u.child[p][Across(s)] # 0
  BY <1>1, <1>3
<1>5. Rotated(u, p, s, v) /\ \E E : Shaped(S, E, v)
  BY <1>1, <1>2, <1>4, Turned
<1>6. /\ v.child[n][s] = p
      /\ \A z \in S \ {p, n}, o \in TheSides :
            \/ u.child[z][o] \notin {p, n} /\ v.child[z][o] = u.child[z][o]
            \/ z = u.parent[p] /\ u.child[z][o] = p /\ v.child[z][o] = n
  <2>1. /\ Shaped(S, D, u) /\ p \in S /\ s \in TheSides
        /\ u.child[p][Across(s)] # 0 /\ Rotated(u, p, s, v)
    BY <1>1, <1>2, <1>4, <1>5
  <2>2. LET y == u.child[p][Across(s)]
        IN /\ v.child[y][s] = p
           /\ \A z \in S \ {p, y}, o \in TheSides :
                 \/ u.child[z][o] \notin {p, y} /\ v.child[z][o] = u.child[z][o]
                 \/ z = u.parent[p] /\ u.child[z][o] = p /\ v.child[z][o] = y
    BY <2>1, RotatedLinks
  <2> QED
    BY <2>2
<1>7. /\ v.color = u.color /\ v.root = u.root /\ v.parent[p] = n /\ v.parent[n] = g
  <2>1. g # 0 /\ p \in RbKeys /\ n \in RbKeys
    BY <1>1, <1>2, <1>3
  <2> QED
    BY <2>1, <1>2, <1>5 DEF Rotated
<1>8. v.child[g][s] = n /\ v.child[g][Across(s)] = u.child[g][Across(s)]
  <2>1. u.child[g][Across(s)] # p
    <3>1. p # 0
      BY <1>2, <1>3
    <3> QED
      BY <3>1, <1>1, <1>2, NodeFacts
  <2> QED
    BY <2>1, <1>2, <1>3, <1>6
<1>9. /\ H[p] = H[a] /\ H[p] = H[n] /\ H[n] = H[b] /\ H[n] = H[c]
      /\ FitsIn(u, p, a, 0, n) /\ FitsIn(u, n, b, 0, n) /\ FitsIn(u, n, c, 0, n)
  <2>1. /\ H[p] = u.color[p] + H[a] + Owes(p, s, 0, "left") /\ H[a] \in Nat
        /\ FitsIn(u, p, a, 0, n)
    BY <1>1, <1>2, HeightFacts
  <2>2. H[p] = u.color[p] + H[u.child[p][Across(s)]] + Owes(p, Across(s), 0, "left")
        /\ H[u.child[p][Across(s)]] \in Nat
    BY <1>1, <1>2, <1>3, HeightFacts
  <2>3. /\ H[n] = u.color[n] + H[b] + Owes(n, s, 0, "left") /\ H[b] \in Nat
        /\ FitsIn(u, n, b, 0, n)
    BY <1>1, <1>2, HeightFacts
  <2>4. /\ H[n] = u.color[n] + H[c] + Owes(n, Across(s), 0, "left") /\ H[c] \in Nat
        /\ FitsIn(u, n, c, 0, n)
    BY <1>1, <1>3, HeightFacts
  <2>5. /\ Owes(p, s, 0, "left") = 0 /\ Owes(p, Across(s), 0, "left") = 0
        /\ Owes(n, s, 0, "left") = 0 /\ Owes(n, Across(s), 0, "left") = 0
    BY <1>1, <1>2, <1>3, NothingOwed
  <2> QED
    BY <2>1, <2>2, <2>3, <2>4, <2>5, <1>1, <1>2
<1>10. a # n /\ b # n /\ c # n
  <2>1. n # 0
    BY <1>1, <1>3
  <2> QED
    BY <2>1, <1>1, <1>2, <1>3, NodeFacts
<1>11. Balances(S, u, p, s, n, H, H, 0, "left", 0, "left")
  <2>1. H \in Measures /\ H[0] = 1 /\ Even(S, u, H, 0, "left")
    BY <1>1 DEF Coloured
  <2>2. Even(S \ {p, n}, u, H, 0, "left")
    BY <2>1 DEF Even
  <2>3. /\ Owes(p, s, 0, "left") = 0 /\ Owes(p, Across(s), 0, "left") = 0
        /\ Owes(n, s, 0, "left") = 0 /\ Owes(n, Across(s), 0, "left") = 0
    BY <1>1, <1>2, <1>3, NothingOwed
  <2>4. H[p] \in Nat /\ H[n] \in Nat
    BY <1>1, <1>2, HeightFacts
  <2>5. /\ H[p] = u.color[p] + H[a] + Owes(p, s, 0, "left")
        /\ H[p] = u.color[p] + H[b] + Owes(p, Across(s), 0, "left")
        /\ H[n] = u.color[n] + H[p] + Owes(n, s, 0, "left")
        /\ H[n] = u.color[n] + H[c] + Owes(n, Across(s), 0, "left")
    BY <2>3, <2>4, <1>1, <1>2, <1>9
  <2> QED
    BY <2>1, <2>2, <2>5, <1>9 DEF Balances
<1>12. Contrasts(S, u, p, s, n, 0, p)
  <2>1. ASSUME NEW z \in S \ {p, n}, NEW o \in TheSides, u.child[z][o] # p
        PROVE  FitsIn(u, z, u.child[z][o], 0, p)
    <3>1. FitsIn(u, z, u.child[z][o], 0, n)
      BY <1>1, HeightFacts
    <3>2. u.child[z][o] # n
      <4>1. u.child[z][o] # 0 => u.parent[u.child[z][o]] = z
        BY <1>1, NodeFacts
      <4> QED
        BY <4>1, <1>1, <1>2, <1>3
    <3> QED
      BY <3>1, <3>2, <1>3 DEF FitsIn
  <2>2. FitsIn(u, g, n, 0, p)
    BY <1>2 DEF FitsIn
  <2>3. FitsIn(u, n, p, 0, p)
    BY DEF FitsIn
  <2>4. FitsIn(u, n, c, 0, p) /\ FitsIn(u, p, a, 0, p) /\ FitsIn(u, p, b, 0, p)
    BY <1>1, <1>2, <1>3, <1>9, <1>10 DEF FitsIn
  <2>5. \A z \in RbKeys \ S : u.color[z] = 1
    BY <1>1 DEF Coloured
  <2>6. u.parent[p] = g
    BY <1>2
  <2> QED
    BY <2>1, <2>2, <2>3, <2>4, <2>5, <2>6 DEF Contrasts
<1>13. Coloured(S, v, H, 0, "left", 0, p)
  <2>1. /\ Balances(S, u, p, s, u.child[p][Across(s)], H, H, 0, "left", 0, "left")
        /\ Contrasts(S, u, p, s, u.child[p][Across(s)], 0, p)
    BY <1>11, <1>12
  <2> QED
    BY <2>1, <1>1, <1>2, <1>4, <1>5, RotatedColours
<1>14. v.root # p /\ v.color[v.root] = 1
  BY <1>1, <1>2, <1>7
<1>15. \E E : Growing(S, E, H, v, p)
  BY <1>2, <1>5, <1>7, <1>13, <1>14 DEF Growing
<1>16. Kin(S, v, p, n, g, s)
  BY <1>1, <1>2, <1>7, <1>8 DEF Kin
<1> QED
  BY <1>6, <1>7, <1>8, <1>15, <1>16

\* Case 3: an outer child, and a black uncle.
LEMMA OuterTurned ==
    ASSUME TreeKeys, NEW S, NEW D, NEW H, NEW u, NEW n, Growing(S, D, H, u, n),
           NEW p, NEW g, NEW s, Kin(S, u, n, p, g, s), u.child[p][s] = n,
           ~RB!RedIn(u, u.child[g][Across(s)])
    PROVE  \E E, G : Growing(S, E, G,
                             RB!Rotate(RB!Paint(RB!Paint(u, p, 1), g, 0), g, Across(s)), n)
<1> DEFINE c == u.child[g][Across(s)]
           b == u.child[p][Across(s)]
           w1 == RB!Paint(u, p, 1)
           w == RB!Paint(w1, g, 0)
           v == RB!Rotate(w, g, Across(s))
           G == [H EXCEPT ![g] = H[p], ![p] = H[g]]
<1>1. /\ Shaped(S, D, u) /\ Coloured(S, u, H, 0, "left", 0, n) /\ n \in S /\ u.color[n] = 0
      /\ u.root = n \/ u.color[u.root] = 1
  BY DEF Growing
<1>2. /\ p \in S /\ g \in S /\ s \in TheSides
      /\ p = u.parent[n] /\ g = u.parent[p] /\ u.child[g][s] = p
      /\ u.color[p] = 0 /\ u.color[g] = 1
      /\ u.root \notin {n, p} /\ n # g /\ n # p /\ p # g
  BY DEF Kin
<1>3. /\ 0 \notin S /\ S \subseteq Links /\ S \subseteq RbKeys /\ Across(s) \in TheSides
      /\ Across(Across(s)) = s
  BY <1>1, <1>2, NothingBelowNull, SideFacts
<1>4. c = 0 \/ u.color[c] # 0
  BY DEF RB!RedIn, RB!NULL, RB!RED
<1>5. /\ c \in S \cup {0} /\ b \in S \cup {0} /\ c # g /\ b # p /\ b # n /\ c # p
  <2>1. p # 0 /\ n # 0
    BY <1>1, <1>2, <1>3
  <2>2. c \in S \cup {0} /\ c # g
    BY <1>1, <1>2, <1>3, NodeFacts
  <2>3. b \in S \cup {0} /\ b # p
    BY <1>1, <1>2, <1>3, NodeFacts
  <2>4. c # p /\ b # n
    BY <2>1, <1>1, <1>2, NodeFacts
  <2> QED
    BY <2>2, <2>3, <2>4
<1>6. /\ H[g] = 1 + H[p] /\ H[p] = H[c] /\ H[p] = H[n] /\ H[p] = H[b]
      /\ FitsIn(u, p, b, 0, n) /\ FitsIn(u, g, c, 0, n)
      /\ H[p] \in Nat \ {0} /\ H[g] \in Nat \ {0}
  <2>1. /\ H[g] = u.color[g] + H[u.child[g][s]] + Owes(g, s, 0, "left")
        /\ H[g] \in Nat /\ H[g] >= 1
    BY <1>1, <1>2, HeightFacts
  <2>2. /\ H[g] = u.color[g] + H[c] + Owes(g, Across(s), 0, "left") /\ H[c] \in Nat
        /\ FitsIn(u, g, c, 0, n)
    BY <1>1, <1>2, <1>3, HeightFacts
  <2>3. /\ H[p] = u.color[p] + H[u.child[p][s]] + Owes(p, s, 0, "left")
        /\ H[u.child[p][s]] \in Nat /\ H[p] \in Nat /\ H[p] >= 1
    BY <1>1, <1>2, HeightFacts
  <2>4. /\ H[p] = u.color[p] + H[b] + Owes(p, Across(s), 0, "left") /\ H[b] \in Nat
        /\ FitsIn(u, p, b, 0, n)
    BY <1>1, <1>2, <1>3, HeightFacts
  <2>5. /\ Owes(p, s, 0, "left") = 0 /\ Owes(p, Across(s), 0, "left") = 0
        /\ Owes(g, s, 0, "left") = 0 /\ Owes(g, Across(s), 0, "left") = 0
    BY <1>2, <1>3, NothingOwed
  <2>6. H[g] = 1 + H[p] /\ H[g] \in Nat \ {0} /\ H[p] \in Nat \ {0}
    BY <2>1, <2>3, <2>5, <1>2
  <2>7. H[g] = 1 + H[c]
    <3>1. u.color[g] = 1 /\ Owes(g, Across(s), 0, "left") = 0
      BY <2>5, <1>2
    <3>2. H[c] \in Nat /\ H[g] = u.color[g] + H[c] + Owes(g, Across(s), 0, "left")
      BY <2>2
    <3> HIDE DEF c
    <3> QED
      BY <3>1, <3>2
  <2>8. H[p] = H[n]
    BY <2>3, <2>5, <1>2
  <2>9. H[p] = H[b]
    BY <2>4, <2>5, <1>2
  <2>10. H[p] = H[c]
    BY <2>2, <2>6, <2>7
  <2> QED
    BY <2>2, <2>4, <2>6, <2>8, <2>9, <2>10
<1> HIDE DEF c, b
<1>7. Shaped(S, D, w1) /\ Painted(u, p, 1, w1)
  BY <1>1, <1>2, PaintedShape
<1> HIDE DEF w1
<1>8. Shaped(S, D, w) /\ Painted(w1, g, 0, w)
  BY <1>2, <1>7, PaintedShape
<1> HIDE DEF w
<1>9. /\ w.root = u.root /\ w.child = u.child /\ w.parent = u.parent
      /\ \A z \in RbKeys : w.color[z] = IF z = g THEN 0 ELSE IF z = p THEN 1 ELSE u.color[z]
  BY <1>7, <1>8 DEF Painted
<1>10. w.child[g][Across(Across(s))] = p /\ p # 0
  BY <1>2, <1>3, <1>9
<1>11. Rotated(w, g, Across(s), v) /\ \E E : Shaped(S, E, v)
  BY <1>2, <1>3, <1>8, <1>10, Turned
<1> HIDE DEF v
<1>12. /\ G \in Measures /\ G[0] = 1 /\ G[g] = H[p] /\ G[p] = H[g]
       /\ \A z \in Links \ {g, p} : G[z] = H[z]
  <2>1. H \in [Links -> Nat \ {0}] /\ H[0] = 1 /\ 0 \in Links
    BY <1>1 DEF Coloured, Measures, Links
  <2> QED
    BY <2>1, <1>2, <1>3, <1>6 DEF Measures
<1> HIDE DEF G
<1>13. Balances(S, w, g, Across(s), p, H, G, 0, "left", 0, "left")
  <2>1. Even(S \ {g, p}, w, H, 0, "left")
    <3> SUFFICES ASSUME NEW z \in S \ {g, p}, NEW o \in TheSides
                 PROVE  H[z] = w.color[z] + H[w.child[z][o]] + Owes(z, o, 0, "left")
      BY DEF Even
    <3>1. H[z] = u.color[z] + H[u.child[z][o]] + Owes(z, o, 0, "left")
      BY <1>1, HeightFacts
    <3> QED
      BY <3>1, <1>3, <1>9
  <2>2. /\ Owes(p, s, 0, "left") = 0 /\ Owes(p, Across(s), 0, "left") = 0
        /\ Owes(g, s, 0, "left") = 0 /\ Owes(g, Across(s), 0, "left") = 0
    BY <1>2, <1>3, NothingOwed
  <2>3. w.color[g] = 0 /\ w.color[p] = 1
    BY <1>2, <1>3, <1>9
  <2>4. /\ w.child[g][Across(s)] = c /\ w.child[p][Across(s)] = b
        /\ w.child[p][Across(Across(s))] = n
    BY <1>3, <1>9 DEF b, c
  <2>5. /\ G[g] = w.color[g] + H[w.child[g][Across(s)]] + Owes(g, Across(s), 0, "left")
        /\ G[g] = w.color[g] + H[w.child[p][Across(s)]] + Owes(g, Across(Across(s)), 0, "left")
        /\ G[p] = w.color[p] + G[g] + Owes(p, Across(s), 0, "left")
        /\ G[p] = w.color[p] + H[w.child[p][Across(Across(s))]] + Owes(p, Across(Across(s)), 0, "left")
    <3>1. /\ G[g] = 0 + H[c] + 0 /\ G[g] = 0 + H[b] + 0
          /\ G[p] = 1 + G[g] + 0 /\ G[p] = 1 + H[n] + 0
      BY <1>6, <1>12
    <3> QED
      BY <3>1, <2>2, <2>3, <2>4, <1>3
  <2> QED
    BY <2>1, <2>5, <1>12 DEF Balances
<1>14. Contrasts(S, w, g, Across(s), p, 0, n)
  <2>1. ASSUME NEW z \in S \ {g, p}, NEW o \in TheSides, w.child[z][o] # g
        PROVE  FitsIn(w, z, w.child[z][o], 0, n)
    <3>1. FitsIn(u, z, u.child[z][o], 0, n) /\ u.child[z][o] \in S \cup {0}
      BY <1>1, HeightFacts
    <3>2. u.child[z][o] # p
      <4>1. u.child[z][o] # 0 => u.parent[u.child[z][o]] = z
        BY <1>1, NodeFacts
      <4> QED
        BY <4>1, <1>2, <1>3
    <3>3. w.color[z] = u.color[z] /\ (u.child[z][o] # 0 => w.color[u.child[z][o]] = u.color[u.child[z][o]])
      BY <2>1, <3>1, <3>2, <1>3, <1>9
    <3> QED
      BY <3>1, <3>3, <1>9 DEF FitsIn
  <2>2. w.color[g] = 0 /\ w.color[p] = 1
    BY <1>2, <1>3, <1>9
  <2>3. /\ \A z : FitsIn(w, z, p, 0, n)
        /\ \A z : FitsIn(w, p, z, 0, n)
    BY <2>2 DEF FitsIn
  <2>4. FitsIn(w, g, c, 0, n)
    BY <1>3, <1>4, <1>5, <1>9 DEF FitsIn
  <2>5. FitsIn(w, g, b, 0, n)
    <3>1. b = 0 \/ u.color[b] # 0
      BY <1>2, <1>3, <1>5, <1>6 DEF FitsIn
    <3>2. b # 0 => w.color[b] = u.color[b] \/ b = g
      BY <1>3, <1>5, <1>9
    <3>3. b # g
      <4>1. b # 0 => u.parent[b] = p
        <5>1. u.child[p][Across(s)] # 0 => u.parent[u.child[p][Across(s)]] = p
          BY <1>1, <1>2, <1>3, NodeFacts
        <5> QED
          BY <5>1 DEF b
      <4>2. u.parent[g] # p
        <5>1. p \in D[g]
          BY <1>1, <1>2, <1>3, NodeFacts
        <5> QED
          BY <5>1, <1>1, <1>2, ParentFacts
      <4> QED
        BY <4>1, <4>2, <1>2, <1>3
    <3> QED
      BY <3>1, <3>2, <3>3 DEF FitsIn
  <2>6. \A z \in RbKeys \ S : w.color[z] = 1
    <3>1. \A z \in RbKeys \ S : u.color[z] = 1
      BY <1>1 DEF Coloured
    <3> QED
      BY <3>1, <1>2, <1>9
  <2>7. w.child[g][Across(s)] = c /\ w.child[p][Across(s)] = b
    BY <1>9 DEF b, c
  <2> QED
    BY <2>1, <2>3, <2>4, <2>5, <2>6, <2>7 DEF Contrasts
<1>15. Coloured(S, v, G, 0, "left", 0, n)
  <2>1. /\ Balances(S, w, g, Across(s), w.child[g][Across(Across(s))], H, G, 0, "left", 0, "left")
        /\ Contrasts(S, w, g, Across(s), w.child[g][Across(Across(s))], 0, n)
    BY <1>10, <1>13, <1>14
  <2>2. w.child[g][Across(Across(s))] # 0
    BY <1>10
  <2> QED
    BY <2>1, <2>2, <1>2, <1>3, <1>8, <1>11, RotatedColours
<1>16. v.color = w.color /\ v.root = IF w.parent[g] = 0 THEN p ELSE w.root
  BY <1>10, <1>11 DEF Rotated
<1>17. v.color[v.root] = 1 /\ v.color[n] = 0
  <2>1. u.root # 0 /\ u.root \in RbKeys /\ (u.parent[g] = 0 <=> g = u.root)
    BY <1>1, <1>2, <1>3, NothingBelowNull, ParentFacts
  <2> QED
    BY <2>1, <1>1, <1>2, <1>3, <1>9, <1>16
<1>18. \E E : Growing(S, E, G, v, n)
  BY <1>1, <1>11, <1>15, <1>17 DEF Growing
<1> QED
  BY <1>18 DEF v, w, w1

\* The end of both loops: a red node, or the root, is painted black.
LEMMA Blackened ==
    ASSUME TreeKeys, NEW S, NEW D, NEW H, NEW u, NEW px, NEW sx, NEW above, NEW below,
           Shaped(S, D, u), Coloured(S, u, H, px, sx, above, below), NEW n \in S,
           Paired(S, u, n, n),
           \/ n = u.root /\ px = 0
           \/ px \in S /\ sx \in TheSides /\ u.child[px][sx] = n /\ u.color[n] = 0
    PROVE  \E G : Coloured(S, RB!Paint(u, n, 1), G, 0, "left", 0, 0)
<1> DEFINE v == RB!Paint(u, n, 1)
           G == [H EXCEPT ![n] = H[n] + 1 - u.color[n]]
<1>1. 0 \notin S /\ S \subseteq Links /\ S \subseteq RbKeys
  BY NothingBelowNull
<1>2. Painted(u, n, 1, v)
  BY PaintedShape
<1> HIDE DEF v
<1>3. /\ v.child = u.child /\ v \in Trees
      /\ \A z \in RbKeys : v.color[z] = IF z = n THEN 1 ELSE u.color[z]
  BY <1>2 DEF Painted
<1>4. H \in Measures /\ H[0] = 1 /\ \A z \in RbKeys \ S : u.color[z] = 1
  BY DEF Coloured
<1>5. H[n] \in Nat \ {0} /\ u.color[n] \in {0, 1}
  <2>1. H[n] \in Nat \ {0}
    BY <1>1, <1>4 DEF Measures
  <2>2. u.color[n] \in {0, 1}
    BY ColourTypes
  <2> QED
    BY <2>1, <2>2
<1>6. /\ G \in Measures /\ G[0] = 1 /\ G[n] = H[n] + 1 - u.color[n]
      /\ \A z \in Links : z # n => G[z] = H[z]
  <2>1. H[n] + 1 - u.color[n] \in Nat \ {0}
    BY <1>5
  <2>2. H \in [Links -> Nat \ {0}] /\ 0 \in Links /\ n \in Links /\ n # 0
    BY <1>1, <1>4 DEF Measures, Links
  <2> QED
    BY <2>1, <2>2, <1>4 DEF Measures
<1> HIDE DEF G
<1>7. ASSUME NEW z \in S, NEW o \in TheSides, u.child[z][o] = n
      PROVE  z = px /\ o = sx /\ u.color[n] = 0
  <2>1. n # 0 /\ u.parent[n] = z
    BY <1>1, <1>7, NodeFacts
  <2>2. n # u.root
    BY <2>1, <1>1, NothingBelowNull
  <2>3. px \in S /\ sx \in TheSides /\ u.child[px][sx] = n /\ u.color[n] = 0
    BY <2>2
  <2>4. u.parent[n] = px /\ u.child[px][Across(sx)] # n
    BY <2>1, <2>3, NodeFacts
  <2> QED
    BY <2>1, <2>3, <2>4, <1>7, SideFacts
<1>8. ASSUME NEW z \in S, NEW o \in TheSides, u.child[z][o] # n
      PROVE  Owes(z, o, px, sx) = 0
  <2>1. ~(z = px /\ o = sx)
    BY <1>1, <1>8
  <2> QED
    BY <2>1 DEF Owes
<1>9. ASSUME NEW z \in S, NEW o \in TheSides
      PROVE  G[z] = v.color[z] + G[v.child[z][o]] + Owes(z, o, 0, "left")
  <2>1. Owes(z, o, 0, "left") = 0
    BY <1>1, NothingOwed
  <2>2. /\ H[z] = u.color[z] + H[u.child[z][o]] + Owes(z, o, px, sx)
        /\ H[u.child[z][o]] \in Nat /\ u.color[z] \in {0, 1} /\ u.child[z][o] \in S \cup {0}
    BY HeightFacts
  <2>3. u.child[z][o] \in Links /\ z \in Links /\ z \in RbKeys
    BY <2>2, <1>1 DEF Links
  <2>4. CASE z = n
    <3>1. u.child[n][o] # n
      BY NodeFacts
    <3>2. Owes(n, o, px, sx) = 0
      BY <3>1, <1>8
    <3> QED
      BY <3>1, <3>2, <2>1, <2>2, <2>3, <2>4, <1>3, <1>6
  <2>5. CASE z # n /\ u.child[z][o] = n
    <3>1. z = px /\ o = sx /\ u.color[n] = 0
      BY <2>5, <1>7
    <3>2. Owes(z, o, px, sx) = 1
      BY <3>1 DEF Owes
    <3> QED
      BY <3>1, <3>2, <2>1, <2>2, <2>3, <2>5, <1>3, <1>5, <1>6
  <2>6. CASE z # n /\ u.child[z][o] # n
    <3>1. Owes(z, o, px, sx) = 0
      BY <2>6, <1>8
    <3> QED
      BY <3>1, <2>1, <2>2, <2>3, <2>6, <1>3, <1>6
  <2> QED
    BY <2>4, <2>5, <2>6
<1>10. ASSUME NEW z \in S, NEW o \in TheSides
       PROVE  FitsIn(v, z, v.child[z][o], 0, 0)
  <2>1. FitsIn(u, z, u.child[z][o], n, n) /\ u.child[z][o] \in S \cup {0}
    BY HeightFacts DEF Paired
  <2> QED
    BY <2>1, <1>1, <1>3 DEF FitsIn
<1>11. \A z \in RbKeys \ S : v.color[z] = 1
  BY <1>3, <1>4
<1> QED
  BY <1>6, <1>9, <1>10, <1>11 DEF Coloured, Even, Paired, v

\* The tree after a pass of the loop, and its node.
GrownIn(u, n) ==
    LET p == u.parent[n]
        g == u.parent[p]
        s == RB!SideOf(u, p)
        c == u.child[g][RB!Other(s)]
        inner == RB!SideOf(u, n) # s
        top == IF inner THEN n ELSE p
        turned == IF inner THEN RB!Rotate(u, p, s) ELSE u
    IN IF RB!RedIn(u, c)
       THEN RB!Paint(RB!Paint(RB!Paint(u, c, 1), p, 1), g, 0)
       ELSE RB!Rotate(RB!Paint(RB!Paint(turned, top, 1), g, 0), g, RB!Other(s))

GrownAt(u, n) ==
    LET p == u.parent[n]
        g == u.parent[p]
        s == RB!SideOf(u, p)
    IN IF RB!RedIn(u, u.child[g][RB!Other(s)]) THEN g
       ELSE IF RB!SideOf(u, n) # s THEN p ELSE n

LEMMA GrownPass ==
    ASSUME TreeKeys, NEW S, NEW D, NEW H, NEW u, NEW n, Growing(S, D, H, u, n),
           RB!RedIn(u, u.parent[n])
    PROVE  \E E, G : Growing(S, E, G, GrownIn(u, n), GrownAt(u, n))
<1> DEFINE p == u.parent[n]
           g == u.parent[p]
           s == RB!SideOf(u, p)
           c == u.child[g][Across(s)]
           q == RB!SideOf(u, n)
<1>1. Kin(S, u, n, p, g, s)
  BY KinOfRed
<1>2. RB!Other(s) = Across(s)
  BY DEF RB!Other, Across
<1>3. s \in TheSides /\ p \in S /\ n \in S /\ Shaped(S, D, u) /\ 0 \notin S
  BY <1>1, NothingBelowNull DEF Kin, Growing
<1>4. q \in TheSides /\ u.child[p][q] = n
  <2>1. u.parent[n] # 0
    BY <1>3
  <2> QED
    BY <2>1, <1>3, SideOfIs
<1>5. CASE RB!RedIn(u, c)
  <2>1. /\ GrownAt(u, n) = g
        /\ GrownIn(u, n) = RB!Paint(RB!Paint(RB!Paint(u, c, 1), p, 1), g, 0)
    BY <1>2, <1>5 DEF GrownIn, GrownAt
  <2>2. \E G : Growing(S, D, G, RB!Paint(RB!Paint(RB!Paint(u, c, 1), p, 1), g, 0), g)
    <3> HIDE DEF p, g, s
    <3> QED
      BY <1>1, <1>5, RedUncle
  <2> QED
    BY <2>1, <2>2
<1>6. CASE ~RB!RedIn(u, c) /\ q = s
  <2>1. /\ GrownAt(u, n) = n
        /\ GrownIn(u, n) = RB!Rotate(RB!Paint(RB!Paint(u, p, 1), g, 0), g, Across(s))
    BY <1>2, <1>6 DEF GrownIn, GrownAt
  <2>2. \E E, G : Growing(S, E, G,
                          RB!Rotate(RB!Paint(RB!Paint(u, p, 1), g, 0), g, Across(s)), n)
    <3>1. u.child[p][s] = n
      BY <1>4, <1>6
    <3> HIDE DEF p, g, s
    <3> QED
      BY <3>1, <1>1, <1>6, OuterTurned
  <2> QED
    BY <2>1, <2>2
<1>7. CASE ~RB!RedIn(u, c) /\ q # s
  <2> DEFINE w == RB!Rotate(u, p, s)
  <2>1. /\ GrownAt(u, n) = p
        /\ GrownIn(u, n) = RB!Rotate(RB!Paint(RB!Paint(w, n, 1), g, 0), g, Across(s))
    BY <1>2, <1>7 DEF GrownIn, GrownAt
  <2>2. u.child[p][Across(s)] = n
    BY <1>3, <1>4, <1>7, SideFacts
  <2> HIDE DEF p, g, s, q
  <2>3. /\ \E E : Growing(S, E, H, w, p)
        /\ Kin(S, w, p, n, g, s) /\ w.child[n][s] = p
        /\ w.child[g][Across(s)] = c /\ w.color = u.color
    BY <2>2, <1>1, InnerTurned
  <2> HIDE DEF w, c
  <2>4. PICK E : Growing(S, E, H, w, p)
    BY <2>3
  <2>5. ~RB!RedIn(w, w.child[g][Across(s)])
    BY <2>3, <1>7 DEF RB!RedIn
  <2>6. \E F, G : Growing(S, F, G,
                          RB!Rotate(RB!Paint(RB!Paint(w, n, 1), g, 0), g, Across(s)), p)
    BY <2>3, <2>4, <2>5, OuterTurned
  <2> QED
    BY <2>1, <2>6
<1> QED
  BY <1>5, <1>6, <1>7

-----------------------------------------------------------------------------
(* The passes after a deletion.                                            *)

\* Below p on side s, where no red node is, there is one black node less.
Shrinking(S, D, H, u, p, s) ==
    /\ Shaped(S, D, u) /\ Coloured(S, u, H, p, s, 0, 0)
    /\ p \in S /\ s \in TheSides /\ u.color[u.root] = 1
    /\ ~RB!RedIn(u, u.child[p][s])

LEMMA SiblingFacts ==
    ASSUME TreeKeys, NEW S, NEW D, NEW H, NEW u, NEW p, NEW s, Shrinking(S, D, H, u, p, s)
    PROVE  LET n == u.child[p][s]
               w == u.child[p][Across(s)]
           IN /\ w \in S /\ n \in S \cup {0} /\ H[w] = H[n] + 1 /\ H[p] = u.color[p] + H[n] + 1
              /\ n # w /\ w # p /\ u.parent[w] = p /\ (n # 0 => u.parent[n] = p) /\ n # p
              /\ H[n] \in Nat /\ H[n] >= 1 /\ H[w] \in Nat /\ H[p] \in Nat
              /\ (n = 0 \/ u.color[n] = 1) /\ Across(s) \in TheSides /\ Across(Across(s)) = s
              /\ u.root \in S /\ u.root # 0 /\ u.root \notin {n, w}
<1> DEFINE n == u.child[p][s]
           w == u.child[p][Across(s)]
<1>1. /\ Shaped(S, D, u) /\ Coloured(S, u, H, p, s, 0, 0)
      /\ p \in S /\ s \in TheSides /\ ~RB!RedIn(u, n)
  BY DEF Shrinking
<1>2. Across(s) \in TheSides /\ Across(Across(s)) = s /\ Across(s) # s /\ 0 \notin S
  BY <1>1, SideFacts, NothingBelowNull
<1>3. n \in S \cup {0} /\ w \in S \cup {0} /\ n # p /\ w # p /\ (n # 0 => u.parent[n] = p)
      /\ (w # 0 => u.parent[w] = p) /\ (n # 0 => n # w) /\ (w # 0 => n # w)
  BY <1>1, <1>2, NodeFacts
<1>4. /\ H[p] = u.color[p] + H[n] + 1 /\ H[p] \in Nat /\ H[n] \in Nat /\ H[n] >= 1
      /\ u.color[p] \in Nat
  <2>1. Owes(p, s, p, s) = 1
    BY DEF Owes
  <2> QED
    BY <2>1, <1>1, HeightFacts
<1>5. H[p] = u.color[p] + H[w] /\ H[w] \in Nat
  <2>1. Owes(p, Across(s), p, s) = 0
    BY <1>2 DEF Owes
  <2>2. /\ H[p] = u.color[p] + H[w] + Owes(p, Across(s), p, s) /\ H[w] \in Nat
        /\ u.color[p] \in Nat
    BY <1>1, <1>2, HeightFacts
  <2> QED
    BY <2>1, <2>2
<1>6. H[w] = H[n] + 1
  <2> HIDE DEF n, w
  <2> QED
    BY <1>4, <1>5
<1>7. w # 0
  <2>1. H[0] = 1
    BY <1>1 DEF Coloured
  <2> HIDE DEF n, w
  <2> QED
    BY <2>1, <1>4, <1>6
<1>8. n = 0 \/ u.color[n] = 1
  <2>1. n = 0 \/ u.color[n] # 0
    BY <1>1 DEF RB!RedIn, RB!NULL, RB!RED
  <2> QED
    BY <2>1, <1>1, <1>3, ColourTypes
<1>9. u.root \in S /\ u.root # 0 /\ u.parent[u.root] = 0
  BY <1>1, <1>2, NothingBelowNull
<1> HIDE DEF n, w
<1>10. u.root \notin {n, w}
  BY <1>1, <1>2, <1>3, <1>7, <1>9
<1> QED
  BY <1>1, <1>2, <1>3, <1>4, <1>5, <1>6, <1>7, <1>8, <1>9, <1>10 DEF n, w

\* Case 1: the red sibling moves up, and its child is the sibling now.
LEMMA RedSiblingLifted ==
    ASSUME TreeKeys, NEW S, NEW D, NEW H, NEW u, NEW p, NEW s, Shrinking(S, D, H, u, p, s),
           u.color[u.child[p][Across(s)]] = 0,
           NEW v, v = RB!Rotate(RB!Paint(RB!Paint(u, u.child[p][Across(s)], 1), p, 0), p, s)
    PROVE  /\ \E E, G : Shrinking(S, E, G, v, p, s)
           /\ v.child[p][s] = u.child[p][s] /\ v.color[v.child[p][Across(s)]] = 1
<1> DEFINE n == u.child[p][s]
           w == u.child[p][Across(s)]
           b == u.child[w][s]
           c == u.child[w][Across(s)]
           t1 == RB!Paint(u, w, 1)
           t2 == RB!Paint(t1, p, 0)
           G == [H EXCEPT ![w] = H[p], ![p] = H[w]]
<1>1. /\ Shaped(S, D, u) /\ Coloured(S, u, H, p, s, 0, 0)
      /\ p \in S /\ s \in TheSides /\ u.color[u.root] = 1 /\ u.color[w] = 0
      /\ ~RB!RedIn(u, n)
  BY DEF Shrinking
<1>2. /\ w \in S /\ n \in S \cup {0} /\ H[w] = H[n] + 1 /\ H[p] = u.color[p] + H[n] + 1
      /\ n # w /\ w # p /\ u.parent[w] = p /\ (n # 0 => u.parent[n] = p) /\ n # p
      /\ H[n] \in Nat /\ H[n] >= 1 /\ H[w] \in Nat /\ H[p] \in Nat
      /\ (n = 0 \/ u.color[n] = 1) /\ Across(s) \in TheSides /\ Across(Across(s)) = s
      /\ u.root \in S /\ u.root # 0 /\ u.root \notin {n, w}
  BY SiblingFacts
<1>3. 0 \notin S /\ S \subseteq Links /\ S \subseteq RbKeys /\ w # 0
  BY <1>1, <1>2, NothingBelowNull
<1>4. FitsIn(u, p, w, 0, 0) /\ u.color[p] \in {0, 1}
  BY <1>1, <1>2, HeightFacts
<1>5. u.color[p] = 1
  BY <1>1, <1>3, <1>4 DEF FitsIn
<1>6. /\ H[w] = H[b] /\ b \in S \cup {0} /\ H[b] \in Nat /\ (b = 0 \/ u.color[b] # 0)
      /\ H[w] = H[c] /\ c \in S \cup {0} /\ H[c] \in Nat /\ (c = 0 \/ u.color[c] # 0)
  <2>1. /\ H[w] = u.color[w] + H[b] + Owes(w, s, p, s) /\ b \in S \cup {0} /\ H[b] \in Nat
        /\ FitsIn(u, w, b, 0, 0)
    BY <1>1, <1>2, HeightFacts
  <2>2. /\ H[w] = u.color[w] + H[c] + Owes(w, Across(s), p, s) /\ c \in S \cup {0} /\ H[c] \in Nat
        /\ FitsIn(u, w, c, 0, 0)
    BY <1>1, <1>2, HeightFacts
  <2>3. Owes(w, s, p, s) = 0 /\ Owes(w, Across(s), p, s) = 0
    BY <1>2 DEF Owes
  <2> HIDE DEF w, b, c
  <2>4. H[w] = H[b] /\ (b = 0 \/ u.color[b] # 0)
    BY <2>1, <2>3, <1>1, <1>3 DEF FitsIn
  <2>5. H[w] = H[c] /\ (c = 0 \/ u.color[c] # 0)
    BY <2>2, <2>3, <1>1, <1>3 DEF FitsIn
  <2> QED
    BY <2>1, <2>2, <2>4, <2>5
<1>7. b # 0 /\ b # p /\ b # w /\ c # p /\ c # w
  <2>1. b # 0
    <3>1. H[0] = 1
      BY <1>1 DEF Coloured
    <3>2. H[b] = H[n] + 1 /\ H[n] \in Nat /\ H[n] >= 1
      BY <1>2, <1>6
    <3> HIDE DEF w, b, n
    <3> QED
      BY <3>1, <3>2
  <2>2. w # 0 /\ b # w /\ c # w
    BY <1>1, <1>2, <1>3, NodeFacts
  <2>3. u.parent[b] = w /\ (c # 0 => u.parent[c] = w)
    BY <2>1, <1>1, <1>2, NodeFacts
  <2>4. u.parent[p] # w
    <3>1. w \in D[p]
      BY <1>1, <1>2, <1>3, NodeFacts
    <3> QED
      BY <3>1, <1>1, ParentFacts
  <2> HIDE DEF b, c, w
  <2> QED
    BY <2>1, <2>2, <2>3, <2>4, <1>1, <1>3
<1>8. v = RB!Rotate(t2, p, s)
  OBVIOUS
<1>9. n = u.child[p][s] /\ w = u.child[p][Across(s)] /\ b = u.child[w][s] /\ c = u.child[w][Across(s)]
  OBVIOUS
<1>10. v = RB!Rotate(RB!Paint(RB!Paint(u, w, 1), p, 0), p, s)
  OBVIOUS
<1> HIDE DEF n, w, b, c
<1>11. Shaped(S, D, t1) /\ Painted(u, w, 1, t1)
  BY <1>1, <1>2, PaintedShape
<1> HIDE DEF t1
<1>12. Shaped(S, D, t2) /\ Painted(t1, p, 0, t2)
  BY <1>1, <1>11, PaintedShape
<1> HIDE DEF t2
<1>13. /\ t2.root = u.root /\ t2.child = u.child /\ t2.parent = u.parent
       /\ \A z \in RbKeys : t2.color[z] = IF z = p THEN 0 ELSE IF z = w THEN 1 ELSE u.color[z]
  BY <1>11, <1>12 DEF Painted
<1>14. t2.child[p][Across(s)] = w /\ t2.child[p][Across(s)] # 0
  BY <1>3, <1>9, <1>13
<1>15. Rotated(t2, p, s, v) /\ \E E : Shaped(S, E, v)
  BY <1>1, <1>8, <1>12, <1>14, Turned
<1>16. /\ v.child[p][s] = n /\ v.child[p][Across(s)] = b
  <2>1. /\ v.child[p][s] = t2.child[p][s]
        /\ v.child[p][Across(s)] = t2.child[t2.child[p][Across(s)]][s]
    BY <1>1, <1>12, <1>14, <1>15, RotatedLinks
  <2> QED
    BY <2>1, <1>9, <1>13
<1>17. /\ G \in Measures /\ G[0] = 1 /\ G[w] = H[p] /\ G[p] = H[w]
       /\ \A z \in Links \ {p, w} : G[z] = H[z]
  <2>1. H \in [Links -> Nat \ {0}] /\ H[0] = 1 /\ 0 \in Links
    BY <1>1 DEF Coloured, Measures, Links
  <2>2. H[w] \in Nat \ {0} /\ H[p] \in Nat \ {0}
    BY <2>1, <1>1, <1>2, <1>3
  <2> QED
    BY <2>1, <2>2, <1>1, <1>2, <1>3 DEF Measures
<1> HIDE DEF G
<1>18. Balances(S, t2, p, s, w, H, G, p, s, p, s)
  <2>1. Even(S \ {p, w}, t2, H, p, s)
    <3> SUFFICES ASSUME NEW z \in S \ {p, w}, NEW o \in TheSides
                 PROVE  H[z] = t2.color[z] + H[t2.child[z][o]] + Owes(z, o, p, s)
      BY DEF Even
    <3>1. H[z] = u.color[z] + H[u.child[z][o]] + Owes(z, o, p, s)
      BY <1>1, HeightFacts
    <3> QED
      BY <3>1, <1>3, <1>13
  <2>2. /\ Owes(p, s, p, s) = 1 /\ Owes(p, Across(s), p, s) = 0
        /\ Owes(w, s, p, s) = 0 /\ Owes(w, Across(s), p, s) = 0
    BY <1>1, <1>2, SideFacts DEF Owes
  <2>3. t2.color[p] = 0 /\ t2.color[w] = 1
    BY <1>1, <1>2, <1>3, <1>13
  <2>4. t2.child[p][s] = n /\ t2.child[w][s] = b /\ t2.child[w][Across(s)] = c
    BY <1>9, <1>13
  <2>5. /\ G[p] = 0 + H[n] + 1 /\ G[p] = 0 + H[b] + 0
        /\ G[w] = 1 + G[p] + 0 /\ G[w] = 1 + H[c] + 0
    BY <1>2, <1>5, <1>6, <1>17
  <2>6. /\ G[p] = t2.color[p] + H[t2.child[p][s]] + Owes(p, s, p, s)
        /\ G[p] = t2.color[p] + H[t2.child[w][s]] + Owes(p, Across(s), p, s)
        /\ G[w] = t2.color[w] + G[p] + Owes(w, s, p, s)
        /\ G[w] = t2.color[w] + H[t2.child[w][Across(s)]] + Owes(w, Across(s), p, s)
    BY <2>2, <2>3, <2>4, <2>5
  <2> QED
    BY <2>1, <2>6, <1>17 DEF Balances
<1>19. Contrasts(S, t2, p, s, w, 0, 0)
  <2>1. ASSUME NEW z \in S \ {p, w}, NEW o \in TheSides, t2.child[z][o] # p
        PROVE  FitsIn(t2, z, t2.child[z][o], 0, 0)
    <3>1. FitsIn(u, z, u.child[z][o], 0, 0) /\ u.child[z][o] \in S \cup {0}
      BY <1>1, HeightFacts
    <3> QED
      BY <2>1, <3>1, <1>3, <1>13 DEF FitsIn
  <2>2. t2.color[w] = 1
    BY <1>1, <1>2, <1>3, <1>13
  <2>3. (\A z : FitsIn(t2, z, w, 0, 0)) /\ (\A z : FitsIn(t2, w, z, 0, 0))
    BY <2>2 DEF FitsIn
  <2>4. /\ n = 0 \/ t2.color[n] # 0
        /\ b = 0 \/ t2.color[b] # 0
    BY <1>2, <1>3, <1>6, <1>7, <1>13
  <2>5. FitsIn(t2, p, n, 0, 0) /\ FitsIn(t2, p, b, 0, 0)
    BY <2>4 DEF FitsIn
  <2>6. \A z \in RbKeys \ S : t2.color[z] = 1
    <3>1. \A z \in RbKeys \ S : u.color[z] = 1
      BY <1>1 DEF Coloured
    <3> QED
      BY <3>1, <1>1, <1>2, <1>13
  <2>7. t2.child[p][s] = n /\ t2.child[w][s] = b
    BY <1>9, <1>13
  <2> QED
    BY <2>1, <2>3, <2>5, <2>6, <2>7 DEF Contrasts
<1>20. Coloured(S, v, G, p, s, 0, 0)
  <2>1. /\ Balances(S, t2, p, s, t2.child[p][Across(s)], H, G, p, s, p, s)
        /\ Contrasts(S, t2, p, s, t2.child[p][Across(s)], 0, 0)
    BY <1>14, <1>18, <1>19
  <2> QED
    BY <2>1, <1>1, <1>12, <1>14, <1>15, RotatedColours
<1>21. v.color = t2.color /\ v.root = IF u.parent[p] = 0 THEN w ELSE u.root
  BY <1>13, <1>14, <1>15 DEF Rotated
<1>22. v.color[v.root] = 1
  <2>1. u.parent[p] = 0 <=> p = u.root
    BY <1>1, ParentFacts
  <2> QED
    BY <2>1, <1>1, <1>2, <1>3, <1>13, <1>21
<1>23. v.color[b] = 1 /\ ~RB!RedIn(v, n)
  <2>1. u.color[b] = 1 /\ b \in RbKeys
    <3>1. b \in S
      BY <1>6, <1>7
    <3> QED
      BY <3>1, <1>1, <1>3, <1>6, <1>7, ColourTypes
  <2>2. n # 0 => v.color[n] = 1
    BY <1>2, <1>3, <1>13, <1>21
  <2> QED
    BY <2>1, <2>2, <1>7, <1>13, <1>21 DEF RB!RedIn, RB!NULL, RB!RED
<1>24. \E E : Shrinking(S, E, G, v, p, s)
  BY <1>1, <1>15, <1>16, <1>20, <1>22, <1>23 DEF Shrinking
<1> QED
  BY <1>16, <1>23, <1>24 DEF n

\* The sibling w of the side s of p is black, with a red child near p only.
NearRed(u, p, s, w) ==
    /\ w = u.child[p][Across(s)] /\ u.color[w] = 1
    /\ RB!RedIn(u, u.child[w][s]) /\ ~RB!RedIn(u, u.child[w][Across(s)])

\* Now the far nephew is red, and p is as short on side s as before.
FarRedNow(S, u, p, s, v) ==
    /\ \E E, G : Shrinking(S, E, G, v, p, s)
    /\ v.child[p][s] = u.child[p][s] /\ v.color[v.child[p][Across(s)]] = 1
    /\ RB!RedIn(v, v.child[v.child[p][Across(s)]][Across(s)])

\* Case 3: the near nephew, red, becomes the sibling, and the old one its red child.
LEMMA NearNephewLifted ==
    ASSUME TreeKeys, NEW S, NEW D, NEW H, NEW u, NEW p, NEW s, Shrinking(S, D, H, u, p, s),
           NEW w, NearRed(u, p, s, w)
    PROVE  FarRedNow(S, u, p, s,
                     RB!Rotate(RB!Paint(RB!Paint(u, u.child[w][s], 1), w, 0), w, Across(s)))
<1> DEFINE o == Across(s)
           y == u.child[w][s]
           a == u.child[w][o]
           b == u.child[y][o]
           c == u.child[y][s]
           t1 == RB!Paint(u, y, 1)
           t2 == RB!Paint(t1, w, 0)
           G == [H EXCEPT ![w] = H[y], ![y] = H[w]]
<1>1. /\ Shaped(S, D, u) /\ Coloured(S, u, H, p, s, 0, 0)
      /\ p \in S /\ s \in TheSides /\ u.color[u.root] = 1
      /\ ~RB!RedIn(u, u.child[p][s])
  BY DEF Shrinking
<1>1a. w = u.child[p][Across(s)] /\ u.color[w] = 1
  BY DEF NearRed
<1>2. /\ w \in S /\ w # p /\ u.parent[w] = p /\ o \in TheSides /\ Across(o) = s /\ o # s
      /\ u.root \in S /\ u.root # 0 /\ u.root # w /\ u.child[p][s] # w
      /\ u.child[p][s] \in S \cup {0} /\ (u.child[p][s] # 0 => u.parent[u.child[p][s]] = p)
  <2>1. o # s
    BY <1>1, SideFacts
  <2>2. LET n1 == u.child[p][s]
            w1 == u.child[p][Across(s)]
        IN /\ w1 \in S /\ n1 \in S \cup {0} /\ n1 # w1 /\ w1 # p /\ u.parent[w1] = p
           /\ (n1 # 0 => u.parent[n1] = p) /\ Across(s) \in TheSides /\ Across(Across(s)) = s
           /\ u.root \in S /\ u.root # 0 /\ u.root # w1
    BY SiblingFacts
  <2> QED
    BY <2>1, <2>2, <1>1a
<1>3. 0 \notin S /\ S \subseteq Links /\ S \subseteq RbKeys /\ w # 0
  BY <1>1, <1>2, NothingBelowNull
<1>4. y # 0 /\ u.color[y] = 0 /\ (a = 0 \/ u.color[a] # 0)
  BY DEF NearRed, RB!RedIn, RB!NULL, RB!RED
<1>5. u.child[w][Across(o)] # 0
  BY <1>2, <1>4
<1>6z. Shaped(S, D, u) /\ w \in S /\ o \in TheSides /\ u.child[w][Across(o)] # 0
  BY <1>1, <1>2, <1>5
<1>6. /\ y \in S /\ a \in S \cup {0} /\ b \in S \cup {0} /\ c \in S \cup {0} /\ w # y
      /\ u.parent[y] = w /\ a \notin {w, y} /\ b \notin {w, y} /\ c \notin {w, y}
  <2>1. LET y1 == u.child[w][Across(o)]
            a1 == u.child[w][o]
            b1 == u.child[y1][o]
            c1 == u.child[y1][Across(o)]
        IN /\ y1 \in S /\ a1 \in S \cup {0} /\ b1 \in S \cup {0} /\ c1 \in S \cup {0}
           /\ w # y1 /\ u.parent[y1] = w /\ a1 \notin {w, y1} /\ b1 \notin {w, y1}
           /\ c1 \notin {w, y1}
    <3> HIDE DEF o
    <3>1. AroundIn(S, D, u, w, o)
      BY <1>6z, AroundRotation
    <3> QED
      BY <3>1 DEF AroundIn
  <2> QED
    BY <2>1, <1>2
<1>7. p # y
  <2>1. w \in D[p]
    <3>1. Shaped(S, D, u) /\ p \in S /\ Across(s) \in TheSides /\ u.child[p][Across(s)] # 0
      BY <1>1, <1>1a, <1>2, <1>3
    <3>2. u.child[p][Across(s)] \in D[p]
      BY <3>1, NodeFacts
    <3> QED
      BY <3>2, <1>1a
  <2>2. u.parent[p] # w
    BY <2>1, <1>1, ParentFacts
  <2> QED
    BY <2>2, <1>6
<1>8. /\ H[w] = 1 + H[y] /\ H[w] = 1 + H[a] /\ H[y] = H[b] /\ H[y] = H[c]
      /\ H[y] \in Nat /\ H[a] \in Nat /\ H[w] \in Nat /\ H[y] >= 1
      /\ (b = 0 \/ u.color[b] # 0) /\ (c = 0 \/ u.color[c] # 0)
  <2>1. H[w] = u.color[w] + H[y] + Owes(w, s, p, s) /\ H[y] \in Nat /\ H[w] \in Nat /\ H[y] >= 1
    BY <1>1, <1>2, HeightFacts
  <2>2. H[w] = u.color[w] + H[a] + Owes(w, o, p, s) /\ H[a] \in Nat
    BY <1>1, <1>2, HeightFacts
  <2>3. H[y] = u.color[y] + H[b] + Owes(y, o, p, s) /\ H[b] \in Nat /\ FitsIn(u, y, b, 0, 0)
    BY <1>1, <1>2, <1>6, HeightFacts
  <2>4. H[y] = u.color[y] + H[c] + Owes(y, s, p, s) /\ H[c] \in Nat /\ FitsIn(u, y, c, 0, 0)
    BY <1>1, <1>2, <1>6, HeightFacts
  <2>5. /\ Owes(w, s, p, s) = 0 /\ Owes(w, o, p, s) = 0
        /\ Owes(y, s, p, s) = 0 /\ Owes(y, o, p, s) = 0
    BY <1>2, <1>7 DEF Owes
  <2> HIDE DEF o, y, a, b, c
  <2>6. H[w] = 1 + H[y] /\ H[w] = 1 + H[a]
    BY <2>1, <2>2, <2>5, <1>1a
  <2>7. H[y] = H[b] /\ (b = 0 \/ u.color[b] # 0)
    BY <2>3, <2>5, <1>3, <1>4, <1>6 DEF FitsIn
  <2>8. H[y] = H[c] /\ (c = 0 \/ u.color[c] # 0)
    BY <2>4, <2>5, <1>3, <1>4, <1>6 DEF FitsIn
  <2> QED
    BY <2>1, <2>2, <2>6, <2>7, <2>8
<1>10. y = u.child[w][s] /\ a = u.child[w][o] /\ b = u.child[y][o] /\ c = u.child[y][s]
       /\ w = u.child[p][o]
  BY <1>1a
<1>10a. t2 = RB!Paint(RB!Paint(u, u.child[w][s], 1), w, 0)
  OBVIOUS
<1> HIDE DEF y, a, b, c
<1>11. Shaped(S, D, t1) /\ Painted(u, y, 1, t1)
  BY <1>1, <1>6, PaintedShape
<1> HIDE DEF t1
<1>12. Shaped(S, D, t2) /\ Painted(t1, w, 0, t2)
  BY <1>2, <1>11, PaintedShape
<1> HIDE DEF t2
<1> SUFFICES ASSUME NEW v, v = RB!Rotate(t2, w, o)
             PROVE  FarRedNow(S, u, p, s, v)
  BY <1>10a
<1>9. v = RB!Rotate(t2, w, o)
  OBVIOUS
<1>13. /\ t2.root = u.root /\ t2.child = u.child /\ t2.parent = u.parent
       /\ \A z \in RbKeys : t2.color[z] = IF z = w THEN 0 ELSE IF z = y THEN 1 ELSE u.color[z]
  BY <1>11, <1>12 DEF Painted
<1>14. t2.child[w][Across(o)] = y /\ t2.child[w][Across(o)] # 0
  BY <1>2, <1>4, <1>10, <1>13
<1>15. Rotated(t2, w, o, v) /\ \E E : Shaped(S, E, v)
  <2> HIDE DEF o
  <2> QED
    BY <1>2, <1>9, <1>12, <1>14, Turned
<1>16. /\ v.child[y][o] = w
       /\ \A z \in S \ {w, y}, q \in TheSides :
             \/ u.child[z][q] \notin {w, y} /\ v.child[z][q] = u.child[z][q]
             \/ u.child[z][q] = w /\ v.child[z][q] = y
  <2> HIDE DEF o
  <2>1. LET y1 == t2.child[w][Across(o)]
        IN /\ v.child[y1][o] = w
           /\ \A z \in S \ {w, y1}, q \in TheSides :
                 \/ t2.child[z][q] \notin {w, y1} /\ v.child[z][q] = t2.child[z][q]
                 \/ z = t2.parent[w] /\ t2.child[z][q] = w /\ v.child[z][q] = y1
    BY <1>2, <1>12, <1>14, <1>15, RotatedLinks
  <2> QED
    BY <2>1, <1>13, <1>14
<1>17. v.child[p][s] = u.child[p][s] /\ v.child[p][o] = y
  <2>1. p \in S \ {w, y}
    BY <1>1, <1>2, <1>7
  <2> QED
    BY <2>1, <1>1, <1>2, <1>10, <1>16
<1>18. /\ G \in Measures /\ G[0] = 1 /\ G[w] = H[y] /\ G[y] = H[w]
       /\ \A z \in Links \ {w, y} : G[z] = H[z]
  <2>1. H \in [Links -> Nat \ {0}] /\ H[0] = 1 /\ 0 \in Links
    BY <1>1 DEF Coloured, Measures, Links
  <2>2. H[w] \in Nat \ {0} /\ H[y] \in Nat \ {0}
    BY <2>1, <1>2, <1>3, <1>6
  <2> QED
    BY <2>1, <2>2, <1>2, <1>3, <1>6 DEF Measures
<1> HIDE DEF G
<1>19. Balances(S, t2, w, o, y, H, G, p, s, p, s)
  <2>1. Even(S \ {w, y}, t2, H, p, s)
    <3> SUFFICES ASSUME NEW z \in S \ {w, y}, NEW q \in TheSides
                 PROVE  H[z] = t2.color[z] + H[t2.child[z][q]] + Owes(z, q, p, s)
      BY DEF Even
    <3>1. H[z] = u.color[z] + H[u.child[z][q]] + Owes(z, q, p, s)
      BY <1>1, HeightFacts
    <3> QED
      BY <3>1, <1>3, <1>13
  <2>2. /\ Owes(w, o, p, s) = 0 /\ Owes(w, s, p, s) = 0
        /\ Owes(y, o, p, s) = 0 /\ Owes(y, s, p, s) = 0
    BY <1>2, <1>7 DEF Owes
  <2>3. t2.color[w] = 0 /\ t2.color[y] = 1
    BY <1>2, <1>3, <1>6, <1>13
  <2>4. t2.child[w][o] = a /\ t2.child[y][o] = b /\ t2.child[y][Across(o)] = c
    BY <1>2, <1>10, <1>13
  <2>5. /\ G[w] = 0 + H[a] + 0 /\ G[w] = 0 + H[b] + 0
        /\ G[y] = 1 + G[w] + 0 /\ G[y] = 1 + H[c] + 0
    BY <1>8, <1>18
  <2>6. /\ G[w] = t2.color[w] + H[t2.child[w][o]] + Owes(w, o, p, s)
        /\ G[w] = t2.color[w] + H[t2.child[y][o]] + Owes(w, Across(o), p, s)
        /\ G[y] = t2.color[y] + G[w] + Owes(y, o, p, s)
        /\ G[y] = t2.color[y] + H[t2.child[y][Across(o)]] + Owes(y, Across(o), p, s)
    BY <2>2, <2>3, <2>4, <2>5, <1>2
  <2> HIDE DEF o
  <2> QED
    BY <2>1, <2>6, <1>18 DEF Balances
<1>20. Contrasts(S, t2, w, o, y, 0, 0)
  <2>1. ASSUME NEW z \in S \ {w, y}, NEW q \in TheSides, t2.child[z][q] # w
        PROVE  FitsIn(t2, z, t2.child[z][q], 0, 0)
    <3>1. FitsIn(u, z, u.child[z][q], 0, 0) /\ u.child[z][q] \in S \cup {0}
      BY <1>1, HeightFacts
    <3> QED
      BY <2>1, <3>1, <1>3, <1>13 DEF FitsIn
  <2>2. t2.color[y] = 1
    BY <1>2, <1>3, <1>6, <1>13
  <2>3. (\A z : FitsIn(t2, z, y, 0, 0)) /\ (\A z : FitsIn(t2, y, z, 0, 0))
    BY <2>2 DEF FitsIn
  <2>4. /\ a = 0 \/ t2.color[a] # 0
        /\ b = 0 \/ t2.color[b] # 0
    BY <1>3, <1>4, <1>6, <1>8, <1>13
  <2>5. FitsIn(t2, w, a, 0, 0) /\ FitsIn(t2, w, b, 0, 0)
    BY <2>4 DEF FitsIn
  <2>6. \A z \in RbKeys \ S : t2.color[z] = 1
    <3>1. \A z \in RbKeys \ S : u.color[z] = 1
      BY <1>1 DEF Coloured
    <3> QED
      BY <3>1, <1>2, <1>6, <1>13
  <2>7. t2.child[w][o] = a /\ t2.child[y][o] = b
    BY <1>10, <1>13
  <2> HIDE DEF o
  <2> QED
    BY <2>1, <2>3, <2>5, <2>6, <2>7 DEF Contrasts
<1>21. Coloured(S, v, G, p, s, 0, 0)
  <2> HIDE DEF o
  <2>1. /\ Balances(S, t2, w, o, t2.child[w][Across(o)], H, G, p, s, p, s)
        /\ Contrasts(S, t2, w, o, t2.child[w][Across(o)], 0, 0)
    BY <1>14, <1>19, <1>20
  <2> QED
    BY <2>1, <1>2, <1>12, <1>14, <1>15, RotatedColours
<1>22. v.color = t2.color /\ v.root = u.root
  <2>1. t2.parent[w] # 0
    BY <1>1, <1>2, <1>3, <1>13
  <2> QED
    BY <2>1, <1>13, <1>15 DEF Rotated
<1>23. v.color[v.root] = 1
  BY <1>1, <1>2, <1>3, <1>13, <1>22
<1>24. v.color[y] = 1 /\ v.color[w] = 0
  BY <1>2, <1>3, <1>6, <1>13, <1>22
<1>25. ~RB!RedIn(v, v.child[p][s])
  <2>1. u.child[p][s] # 0 => v.color[u.child[p][s]] \in {u.color[u.child[p][s]], 1}
    BY <1>2, <1>3, <1>13, <1>22
  <2> QED
    BY <2>1, <1>1, <1>17 DEF RB!RedIn, RB!NULL, RB!RED
<1>26. \E E : Shrinking(S, E, G, v, p, s)
  BY <1>1, <1>15, <1>21, <1>23, <1>25 DEF Shrinking
<1>27. RB!RedIn(v, v.child[v.child[p][o]][o])
  BY <1>3, <1>16, <1>17, <1>24 DEF RB!RedIn, RB!NULL, RB!RED
<1> QED
  BY <1>17, <1>24, <1>26, <1>27 DEF FarRedNow

\* The sibling w of the side s of p is black, and its child away from p is red.
FarRed(u, p, s, w) ==
    w = u.child[p][Across(s)] /\ u.color[w] = 1 /\ RB!RedIn(u, u.child[w][Across(s)])

\* Case 4: the sibling moves up, and brings the missing black node.
LEMMA SiblingLifted ==
    ASSUME TreeKeys, NEW S, NEW D, NEW H, NEW u, NEW p, NEW s, Shrinking(S, D, H, u, p, s),
           NEW w, FarRed(u, p, s, w)
    PROVE  \A v : v = RB!Rotate(RB!Paint(RB!Paint(RB!Paint(u, w, u.color[p]), p, 1),
                                          u.child[w][Across(s)], 1), p, s) =>
              /\ \E E : Shaped(S, E, v)
              /\ \E G : Coloured(S, v, G, 0, "left", 0, 0)
              /\ v.color[v.root] = 1
<1> DEFINE n == u.child[p][s]
           b == u.child[w][s]
           c == u.child[w][Across(s)]
           t1 == RB!Paint(u, w, u.color[p])
           t2 == RB!Paint(t1, p, 1)
           t3 == RB!Paint(t2, c, 1)
           F == [H EXCEPT ![c] = H[c] + 1]
           G == [F EXCEPT ![w] = H[p], ![p] = 1 + H[n]]
<1>1. /\ Shaped(S, D, u) /\ Coloured(S, u, H, p, s, 0, 0)
      /\ p \in S /\ s \in TheSides /\ u.color[u.root] = 1
  BY DEF Shrinking
<1>1a. w = u.child[p][Across(s)] /\ u.color[w] = 1
  BY DEF FarRed
<1>2. /\ w \in S /\ n \in S \cup {0} /\ H[w] = H[n] + 1 /\ H[p] = u.color[p] + H[n] + 1
      /\ n # w /\ w # p /\ u.parent[w] = p /\ (n # 0 => u.parent[n] = p) /\ n # p
      /\ H[n] \in Nat /\ H[n] >= 1 /\ H[w] \in Nat /\ H[p] \in Nat
      /\ (n = 0 \/ u.color[n] = 1) /\ Across(s) \in TheSides /\ Across(Across(s)) = s
      /\ u.root \in S /\ u.root # 0 /\ u.root # w
  <2>1. LET w1 == u.child[p][Across(s)]
        IN /\ w1 \in S /\ n \in S \cup {0} /\ H[w1] = H[n] + 1 /\ H[p] = u.color[p] + H[n] + 1
           /\ n # w1 /\ w1 # p /\ u.parent[w1] = p /\ (n # 0 => u.parent[n] = p) /\ n # p
           /\ H[n] \in Nat /\ H[n] >= 1 /\ H[w1] \in Nat /\ H[p] \in Nat
           /\ (n = 0 \/ u.color[n] = 1) /\ Across(s) \in TheSides /\ Across(Across(s)) = s
           /\ u.root \in S /\ u.root # 0 /\ u.root # w1
    BY SiblingFacts
  <2> QED
    BY <2>1, <1>1a
<1>3. 0 \notin S /\ S \subseteq Links /\ S \subseteq RbKeys /\ w # 0 /\ Across(s) # s
  BY <1>1, <1>2, NothingBelowNull, SideFacts
<1>4. c # 0 /\ u.color[c] = 0
  BY DEF FarRed, RB!RedIn, RB!NULL, RB!RED
<1>5. Shaped(S, D, u) /\ p \in S /\ s \in TheSides /\ u.child[p][Across(s)] # 0
  BY <1>1, <1>1a, <1>3
<1>6. /\ b \in S \cup {0} /\ c \in S /\ b \notin {p, w} /\ c \notin {p, w}
      /\ b # c /\ u.parent[c] = w /\ n # c /\ u.color[p] \in {0, 1}
  <2>1. LET y1 == u.child[p][Across(s)]
            a1 == u.child[p][s]
            b1 == u.child[y1][s]
            c1 == u.child[y1][Across(s)]
        IN /\ b1 \in S \cup {0} /\ c1 \in S \cup {0} /\ b1 \notin {p, y1} /\ c1 \notin {p, y1}
           /\ (b1 # 0 => b1 # c1) /\ (c1 # 0 => c1 # a1 /\ u.parent[c1] = y1)
    <3>1. AroundIn(S, D, u, p, s)
      BY <1>5, AroundRotation
    <3> QED
      BY <3>1 DEF AroundIn
  <2>2. u.color[p] \in {0, 1}
    BY <1>1, ColourTypes
  <2> QED
    BY <2>1, <2>2, <1>1a, <1>4
<1>7. H[w] = 1 + H[b] /\ H[w] = 1 + H[c] /\ H[b] \in Nat /\ H[c] \in Nat
  <2>1. H[w] = u.color[w] + H[b] + Owes(w, s, p, s) /\ H[b] \in Nat
    BY <1>1, <1>2, HeightFacts
  <2>2. H[w] = u.color[w] + H[c] + Owes(w, Across(s), p, s) /\ H[c] \in Nat
    BY <1>1, <1>2, HeightFacts
  <2>3. Owes(w, s, p, s) = 0 /\ Owes(w, Across(s), p, s) = 0
    BY <1>2 DEF Owes
  <2> HIDE DEF b, c
  <2> QED
    BY <2>1, <2>2, <2>3, <1>1a
<1>8. t3 = RB!Paint(RB!Paint(RB!Paint(u, w, u.color[p]), p, 1), u.child[w][Across(s)], 1)
  OBVIOUS
<1>9. n = u.child[p][s] /\ b = u.child[w][s] /\ c = u.child[w][Across(s)]
  OBVIOUS
<1> HIDE DEF n, b, c
<1>10. H[n] = H[b] /\ H[n] = H[c]
  BY <1>2, <1>7
<1>11. Shaped(S, D, t1) /\ Painted(u, w, u.color[p], t1)
  <2>1. Shaped(S, D, u) /\ w \in S /\ u.color[p] \in {0, 1}
    BY <1>1, <1>2, <1>6
  <2> QED
    BY <2>1, PaintedShape
<1> HIDE DEF t1
<1>12. Shaped(S, D, t2) /\ Painted(t1, p, 1, t2)
  BY <1>1, <1>11, PaintedShape
<1> HIDE DEF t2
<1>13. Shaped(S, D, t3) /\ Painted(t2, c, 1, t3)
  BY <1>6, <1>12, PaintedShape
<1> HIDE DEF t3
<1> SUFFICES ASSUME NEW v, v = RB!Rotate(t3, p, s)
             PROVE  /\ \E E : Shaped(S, E, v)
                    /\ \E Z : Coloured(S, v, Z, 0, "left", 0, 0)
                    /\ v.color[v.root] = 1
  BY <1>8
<1>14. /\ t3.root = u.root /\ t3.child = u.child /\ t3.parent = u.parent
       /\ \A z \in RbKeys : t3.color[z] =
             IF z = c THEN 1 ELSE IF z = p THEN 1 ELSE IF z = w THEN u.color[p] ELSE u.color[z]
  BY <1>11, <1>12, <1>13 DEF Painted
<1>15. t3.child[p][Across(s)] = w /\ t3.child[p][Across(s)] # 0
  BY <1>1a, <1>3, <1>14
<1>16. Rotated(t3, p, s, v) /\ \E E : Shaped(S, E, v)
  BY <1>1, <1>13, <1>15, Turned
<1>17. /\ F \in Measures /\ F[0] = 1 /\ F[c] = H[c] + 1
       /\ \A z \in Links \ {c} : F[z] = H[z]
  <2>1. H \in [Links -> Nat \ {0}] /\ H[0] = 1 /\ 0 \in Links
    BY <1>1 DEF Coloured, Measures, Links
  <2>2. H[c] + 1 \in Nat \ {0}
    BY <1>7
  <2>3. c \in Links /\ c # 0
    BY <1>3, <1>4, <1>6
  <2> QED
    BY <2>1, <2>2, <2>3 DEF Measures
<1> HIDE DEF F
<1>18. /\ G \in Measures /\ G[0] = 1 /\ G[w] = H[p] /\ G[p] = 1 + H[n]
       /\ \A z \in Links \ {p, w} : G[z] = F[z]
  <2>1. F \in [Links -> Nat \ {0}] /\ F[0] = 1 /\ 0 \in Links
    BY <1>17 DEF Measures, Links
  <2>2. H[p] \in Nat \ {0} /\ 1 + H[n] \in Nat \ {0}
    <3>1. H[p] \in Nat \ {0}
      BY <1>1, <1>3 DEF Coloured, Measures
    <3> QED
      BY <3>1, <1>2
  <2>3. p \in Links /\ w \in Links /\ p # 0 /\ w # 0 /\ w # p
    BY <1>1, <1>2, <1>3
  <2> QED
    BY <2>1, <2>2, <2>3 DEF Measures
<1> HIDE DEF G
<1>19. /\ F[p] = H[p] /\ F[n] = H[n] /\ F[b] = H[b] /\ F[c] = H[n] + 1
  <2>1. p \in Links /\ n \in Links /\ b \in Links
    BY <1>1, <1>2, <1>3, <1>6 DEF Links
  <2> QED
    BY <2>1, <1>6, <1>10, <1>17
<1>20. Balances(S, t3, p, s, w, F, G, p, s, 0, "left")
  <2>1. Even(S \ {p, w}, t3, F, p, s)
    <3> SUFFICES ASSUME NEW z \in S \ {p, w}, NEW o \in TheSides
                 PROVE  F[z] = t3.color[z] + F[t3.child[z][o]] + Owes(z, o, p, s)
      BY DEF Even
    <3>1. H[z] = u.color[z] + H[u.child[z][o]] + Owes(z, o, p, s) /\ H[u.child[z][o]] \in Nat
          /\ u.child[z][o] \in S \cup {0}
      BY <1>1, HeightFacts
    <3>2. u.child[z][o] # c
      <4>1. u.child[z][o] # 0 => u.parent[u.child[z][o]] = z
        BY <1>1, NodeFacts
      <4> QED
        BY <4>1, <1>4, <1>6
    <3>3. F[u.child[z][o]] = H[u.child[z][o]]
      BY <3>1, <3>2, <1>3, <1>17 DEF Links
    <3>4. Owes(z, o, p, s) = 0
      BY DEF Owes
    <3>5. CASE z = c
      <4>1. F[c] = H[c] + 1 /\ t3.color[c] = 1
        BY <1>3, <1>6, <1>14, <1>17
      <4> QED
        BY <4>1, <3>1, <3>3, <3>4, <3>5, <1>4, <1>14
    <3>6. CASE z # c
      <4>1. F[z] = H[z] /\ t3.color[z] = u.color[z]
        BY <3>6, <1>3, <1>14, <1>17
      <4> QED
        BY <4>1, <3>1, <3>3, <3>4, <1>14
    <3> QED
      BY <3>5, <3>6
  <2>2. /\ Owes(p, s, 0, "left") = 0 /\ Owes(p, Across(s), 0, "left") = 0
        /\ Owes(w, s, 0, "left") = 0 /\ Owes(w, Across(s), 0, "left") = 0
        /\ \A z \in S \ {p, w}, o \in TheSides : Owes(z, o, 0, "left") = Owes(z, o, p, s)
    BY <1>1, <1>2, <1>3 DEF Owes
  <2>3. t3.color[p] = 1 /\ t3.color[w] = u.color[p]
    BY <1>1, <1>2, <1>3, <1>6, <1>14
  <2>4. t3.child[p][s] = n /\ t3.child[w][s] = b /\ t3.child[w][Across(s)] = c
    BY <1>9, <1>14
  <2>5. /\ G[p] = 1 + F[n] + 0 /\ G[p] = 1 + F[b] + 0
        /\ G[w] = u.color[p] + G[p] + 0 /\ G[w] = u.color[p] + F[c] + 0
    <3>1. u.color[p] \in Nat /\ H[n] \in Nat
      BY <1>2, <1>6
    <3>2. F[n] = H[n] /\ F[b] = H[n] /\ F[c] = H[n] + 1
      BY <1>10, <1>19
    <3>3. G[p] = 1 + H[n] /\ G[w] = u.color[p] + H[n] + 1
      BY <1>2, <1>18
    <3> QED
      BY <3>1, <3>2, <3>3
  <2>6. /\ G[p] = t3.color[p] + F[t3.child[p][s]] + Owes(p, s, 0, "left")
        /\ G[p] = t3.color[p] + F[t3.child[w][s]] + Owes(p, Across(s), 0, "left")
        /\ G[w] = t3.color[w] + G[p] + Owes(w, s, 0, "left")
        /\ G[w] = t3.color[w] + F[t3.child[w][Across(s)]] + Owes(w, Across(s), 0, "left")
    BY <2>2, <2>3, <2>4, <2>5
  <2> QED
    BY <2>1, <2>2, <2>6, <1>18, <1>19 DEF Balances
<1>21. Contrasts(S, t3, p, s, w, 0, 0)
  <2>1. ASSUME NEW z \in S \ {p, w}, NEW o \in TheSides, t3.child[z][o] # p
        PROVE  FitsIn(t3, z, t3.child[z][o], 0, 0)
    <3>1. /\ FitsIn(u, z, u.child[z][o], 0, 0) /\ u.child[z][o] \in S \cup {0}
          /\ u.child[z][o] # 0 => u.parent[u.child[z][o]] = z
      BY <1>1, HeightFacts, NodeFacts
    <3>2. u.child[z][o] # w
      BY <3>1, <1>2, <1>3
    <3>3. t3.color[z] \in {u.color[z], 1}
      BY <1>3, <1>14
    <3>4. u.child[z][o] # 0 => t3.color[u.child[z][o]] \in {u.color[u.child[z][o]], 1}
      BY <2>1, <3>1, <3>2, <1>3, <1>14
    <3> QED
      BY <3>1, <3>3, <3>4, <1>14 DEF FitsIn
  <2>2. t3.color[p] = 1 /\ t3.color[c] = 1 /\ t3.color[w] = u.color[p]
    BY <1>1, <1>2, <1>3, <1>6, <1>14
  <2>3. (\A z : FitsIn(t3, z, p, 0, 0)) /\ (\A z : FitsIn(t3, p, z, 0, 0)) /\ (\A z : FitsIn(t3, z, c, 0, 0))
    BY <2>2 DEF FitsIn
  <2>4. u.parent[p] # 0 => FitsIn(t3, u.parent[p], w, 0, 0)
    <3> DEFINE q == u.parent[p]
    <3> SUFFICES ASSUME q # 0 PROVE FitsIn(t3, q, w, 0, 0)
      OBVIOUS
    <3>1. q \in S /\ \E o \in TheSides : u.child[q][o] = p
      BY <1>1, ParentFacts
    <3>2. q # w /\ q # p
      <4>1. q \notin D[p] /\ q # p /\ w \in D[p]
        BY <1>1, <1>2, <1>3, ParentFacts, NodeFacts
      <4> QED
        BY <4>1
    <3> HIDE DEF q
    <3>3. FitsIn(u, q, p, 0, 0)
      BY <3>1, <1>1 DEF Coloured, Paired
    <3>4. t3.color[q] \in {u.color[q], 1}
      BY <3>1, <3>2, <1>3, <1>14
    <3> QED
      BY <3>1, <3>3, <3>4, <2>2, <1>1, <1>3 DEF FitsIn
  <2>5. \A z \in RbKeys \ S : t3.color[z] = 1
    <3>1. \A z \in RbKeys \ S : u.color[z] = 1
      BY <1>1 DEF Coloured
    <3> QED
      BY <3>1, <1>1, <1>2, <1>6, <1>14
  <2>6. t3.child[p][s] = n /\ t3.child[w][s] = b /\ t3.child[w][Across(s)] = c /\ t3.parent = u.parent
    BY <1>9, <1>14
  <2> QED
    BY <2>1, <2>3, <2>4, <2>5, <2>6 DEF Contrasts
<1>22. Coloured(S, v, G, 0, "left", 0, 0)
  <2>1. /\ Balances(S, t3, p, s, t3.child[p][Across(s)], F, G, p, s, 0, "left")
        /\ Contrasts(S, t3, p, s, t3.child[p][Across(s)], 0, 0)
    BY <1>15, <1>20, <1>21
  <2> QED
    BY <2>1, <1>1, <1>13, <1>15, <1>16, RotatedColours
<1>23. v.color = t3.color /\ v.root = IF u.parent[p] = 0 THEN w ELSE u.root
  BY <1>14, <1>15, <1>16 DEF Rotated
<1>24. v.color[v.root] = 1
  <2>1. u.parent[p] = 0 <=> p = u.root
    BY <1>1, ParentFacts
  <2> QED
    BY <2>1, <1>1, <1>2, <1>3, <1>6, <1>14, <1>23
<1> QED
  BY <1>16, <1>22, <1>24

\* Below p, or on one side of it the node n, there is one black node less, and what is
\* short is the tree when n is the root.  Only n may be red with a red node next to it.
Lacking(S, D, H, u, n, p) ==
    /\ Shaped(S, D, u)
    /\ \/ n = u.root /\ Coloured(S, u, H, 0, "left", n, n)
       \/ /\ p \in S /\ u.color[u.root] = 1
          /\ \E s \in TheSides : u.child[p][s] = n /\ Coloured(S, u, H, p, s, n, n)

\* The sibling w of the side s of p is black, and so are its children.
NoneRed(u, p, s, w) ==
    /\ w = u.child[p][Across(s)] /\ u.color[w] = 1
    /\ \A o \in TheSides : ~RB!RedIn(u, u.child[w][o])

\* Case 2: the sibling is painted red, and p is short.
LEMMA SiblingReddened ==
    ASSUME TreeKeys, NEW S, NEW D, NEW H, NEW u, NEW p, NEW s, Shrinking(S, D, H, u, p, s),
           NEW w, NoneRed(u, p, s, w)
    PROVE  \E G : Lacking(S, D, G, RB!Paint(u, w, 0), p, u.parent[p])
<1> DEFINE n == u.child[p][s]
           v == RB!Paint(u, w, 0)
           q == u.parent[p]
           G == [H EXCEPT ![w] = H[n], ![p] = u.color[p] + H[n]]
<1>1. /\ Shaped(S, D, u) /\ Coloured(S, u, H, p, s, 0, 0)
      /\ p \in S /\ s \in TheSides /\ u.color[u.root] = 1
  BY DEF Shrinking
<1>2. w = u.child[p][Across(s)] /\ u.color[w] = 1
  BY DEF NoneRed
<1>3. /\ w \in S /\ n \in S \cup {0} /\ H[w] = H[n] + 1 /\ H[p] = u.color[p] + H[n] + 1
      /\ n # w /\ w # p /\ u.parent[w] = p /\ n # p
      /\ H[n] \in Nat /\ H[n] >= 1 /\ Across(s) \in TheSides
      /\ u.root \in S /\ u.root # w
  <2>1. LET w1 == u.child[p][Across(s)]
        IN /\ w1 \in S /\ n \in S \cup {0} /\ H[w1] = H[n] + 1 /\ H[p] = u.color[p] + H[n] + 1
           /\ n # w1 /\ w1 # p /\ u.parent[w1] = p /\ n # p
           /\ H[n] \in Nat /\ H[n] >= 1 /\ Across(s) \in TheSides
           /\ u.root \in S /\ u.root # w1
    BY SiblingFacts
  <2> QED
    BY <2>1, <1>2
<1>4. /\ 0 \notin S /\ S \subseteq Links /\ S \subseteq RbKeys /\ Across(s) # s
      /\ (\A o \in TheSides : o = s \/ o = Across(s))
  BY <1>1, NothingBelowNull, SideFacts
<1>5. /\ q \in S \cup {0} /\ (q = 0 <=> p = u.root) /\ q \notin {p, w}
      /\ (q # 0 => \E o \in TheSides : u.child[q][o] = p)
  <2>1. /\ q \in S \cup {0} /\ (q = 0 <=> p = u.root) /\ q # p /\ q \notin D[p]
        /\ (q # 0 => \E o \in TheSides : u.child[q][o] = p)
    BY <1>1, ParentFacts
  <2>2. w \in D[p]
    <3>1. Shaped(S, D, u) /\ p \in S /\ Across(s) \in TheSides
      BY <1>1, <1>3
    <3>2. u.child[p][Across(s)] # 0 => u.child[p][Across(s)] \in D[p]
      BY <3>1, NodeFacts
    <3> QED
      BY <3>2, <1>2, <1>3, <1>4
  <2> QED
    BY <2>1, <2>2
<1>6. u.color[p] \in Nat
  BY <1>1, ColourTypes
<1>7. Painted(u, w, 0, v) /\ Shaped(S, D, v)
  BY <1>1, <1>3, PaintedShape
<1> HIDE DEF v
<1>8. /\ v.child = u.child /\ v.root = u.root /\ v.parent = u.parent
      /\ \A z \in RbKeys : v.color[z] = IF z = w THEN 0 ELSE u.color[z]
  BY <1>7 DEF Painted
<1>9. /\ G \in Measures /\ G[0] = 1 /\ G[w] = H[n] /\ G[p] = u.color[p] + H[n]
      /\ \A z \in Links \ {p, w} : G[z] = H[z]
  <2>1. H \in [Links -> Nat \ {0}] /\ H[0] = 1 /\ 0 \in Links
    BY <1>1 DEF Coloured, Measures, Links
  <2>2. H[n] \in Nat \ {0} /\ u.color[p] + H[n] \in Nat \ {0}
    BY <1>3, <1>6
  <2>3. p \in Links /\ w \in Links /\ p # 0 /\ w # 0 /\ w # p
    BY <1>1, <1>3, <1>4
  <2> QED
    BY <2>1, <2>2, <2>3 DEF Measures
<1> HIDE DEF G
<1>10. PICK o \in TheSides : q # 0 => u.child[q][o] = p
  BY <1>1, <1>5
<1>11. ASSUME NEW z \in S, NEW a \in TheSides
       PROVE  /\ H[z] = u.color[z] + H[u.child[z][a]] + Owes(z, a, p, s)
              /\ FitsIn(u, z, u.child[z][a], 0, 0) /\ u.child[z][a] \in S \cup {0}
              /\ H[u.child[z][a]] \in Nat /\ u.color[z] \in Nat /\ u.child[z][a] # z
              /\ u.child[z][a] # 0 => u.parent[u.child[z][a]] = z
  BY <1>1, HeightFacts, NodeFacts
<1>12. ASSUME NEW z \in S, NEW a \in TheSides
       PROVE  G[z] = v.color[z] + G[v.child[z][a]] + Owes(z, a, q, o)
  <2>1. CASE z = p
    <3>1. Owes(p, a, q, o) = 0
      BY <1>5 DEF Owes
    <3>2. G[u.child[p][a]] = H[n]
      BY <1>2, <1>3, <1>4, <1>9 DEF Links
    <3>3. v.color[p] = u.color[p]
      BY <1>1, <1>3, <1>4, <1>8
    <3> QED
      BY <2>1, <3>1, <3>2, <3>3, <1>3, <1>6, <1>8, <1>9
  <2>2. CASE z = w
    <3>1. Owes(w, a, q, o) = 0 /\ Owes(w, a, p, s) = 0
      BY <1>3, <1>5 DEF Owes
    <3>2. u.child[w][a] \notin {p, w}
      <4>1. u.child[w][a] # w /\ (u.child[w][a] # 0 => u.parent[u.child[w][a]] = w)
        BY <1>3, <1>11
      <4>2. p # 0
        BY <1>1, <1>4
      <4> QED
        BY <4>1, <4>2, <1>5
    <3>3. H[w] = 1 + H[u.child[w][a]] + 0 /\ H[u.child[w][a]] \in Nat
      BY <3>1, <1>2, <1>3, <1>11
    <3>4. G[u.child[w][a]] = H[u.child[w][a]]
      BY <3>2, <1>3, <1>4, <1>9, <1>11 DEF Links
    <3>5. v.color[w] = 0
      BY <1>3, <1>4, <1>8
    <3> QED
      BY <2>2, <3>1, <3>3, <3>4, <3>5, <1>3, <1>8, <1>9
  <2>3. CASE z \notin {p, w}
    <3>1. Owes(z, a, p, s) = 0 /\ v.color[z] = u.color[z] /\ G[z] = H[z]
      BY <2>3, <1>4, <1>8, <1>9 DEF Owes
    <3>2. u.child[z][a] # w
      BY <2>3, <1>3, <1>4, <1>11
    <3>3. CASE u.child[z][a] = p
      <4>1. q = z /\ q # 0
        BY <3>3, <1>1, <1>4, <1>11
      <4>2. u.child[q][Across(o)] # p
        <5>1. Shaped(S, D, u) /\ q \in S /\ o \in TheSides /\ u.child[q][o] = p /\ p # 0
          BY <4>1, <1>1, <1>4, <1>10
        <5> QED
          BY <5>1, NodeFacts
      <4>3. a = o
        BY <3>3, <4>1, <4>2, <1>10, SideFacts
      <4>4. Owes(z, a, q, o) = 1
        BY <4>1, <4>3 DEF Owes
      <4>5. H[z] = u.color[z] + H[p] + 0
        BY <3>1, <3>3, <1>11
      <4>6. G[z] = u.color[z] + G[p] + 1
        BY <4>5, <3>1, <1>3, <1>6, <1>9, <1>11
      <4> QED
        BY <3>1, <3>3, <4>4, <4>6, <1>8
    <3>4. CASE u.child[z][a] # p
      <4>1. Owes(z, a, q, o) = 0
        BY <3>4, <1>4, <1>10 DEF Owes
      <4>2. G[u.child[z][a]] = H[u.child[z][a]]
        BY <3>2, <3>4, <1>4, <1>9, <1>11 DEF Links
      <4> QED
        BY <4>1, <4>2, <3>1, <1>8, <1>11
    <3> QED
      BY <3>3, <3>4
  <2> QED
    BY <2>1, <2>2, <2>3
<1>13. ASSUME NEW z \in S, NEW a \in TheSides PROVE FitsIn(v, z, v.child[z][a], p, p)
  <2> SUFFICES ASSUME v.color[z] = 0, u.child[z][a] # 0, v.color[u.child[z][a]] = 0, z # p
               PROVE  FALSE
    BY <1>8 DEF FitsIn
  <2>1. u.child[z][a] # w /\ u.child[z][a] \in RbKeys /\ z \in RbKeys
    BY <1>3, <1>4, <1>11
  <2>2. u.color[u.child[z][a]] = 0
    BY <2>1, <1>8
  <2>3. z # w
    BY <2>2 DEF NoneRed, RB!RedIn, RB!NULL, RB!RED
  <2>4. u.color[z] = 0
    BY <2>1, <2>3, <1>8
  <2> QED
    BY <2>2, <2>4, <1>4, <1>11 DEF FitsIn
<1>14. \A z \in RbKeys \ S : v.color[z] = 1
  <2>1. \A z \in RbKeys \ S : u.color[z] = 1
    BY <1>1 DEF Coloured
  <2> QED
    BY <2>1, <1>3, <1>8
<1>15. Coloured(S, v, G, q, o, p, p)
  BY <1>9, <1>12, <1>13, <1>14 DEF Coloured, Even, Paired
<1>16. CASE q = 0
  <2>1. Even(S, v, G, 0, "left")
    BY <1>4, <1>12, <1>16, NothingOwed DEF Even
  <2>2. Coloured(S, v, G, 0, "left", p, p)
    BY <2>1, <1>15 DEF Coloured
  <2> QED
    BY <2>2, <1>5, <1>7, <1>8, <1>16 DEF Lacking, v
<1>17. CASE q # 0
  <2>1. q \in S /\ v.color[v.root] = 1 /\ v.child[q][o] = p
    BY <1>1, <1>3, <1>4, <1>5, <1>8, <1>10, <1>17
  <2> QED
    BY <2>1, <1>7, <1>15 DEF Lacking, v
<1> QED
  BY <1>16, <1>17

\* The side of p that is short: its left, when n is the left child.
ShortSide(u, n, p) == IF u.child[p].left = n THEN "left" ELSE "right"

LEMMA ShortNode ==
    ASSUME TreeKeys, NEW S, NEW D, NEW H, NEW u, NEW n, NEW p, Lacking(S, D, H, u, n, p),
           ~RB!RedIn(u, n), n # u.root
    PROVE  Shrinking(S, D, H, u, p, ShortSide(u, n, p)) /\ ShortSide(u, n, p) \in TheSides
<1>1. Shaped(S, D, u) /\ p \in S /\ u.color[u.root] = 1
  BY DEF Lacking
<1>2. PICK s \in TheSides : u.child[p][s] = n /\ Coloured(S, u, H, p, s, n, n)
  BY DEF Lacking
<1>3. Paired(S, u, 0, 0)
  <2> SUFFICES ASSUME NEW z \in S, NEW o \in TheSides PROVE FitsIn(u, z, u.child[z][o], 0, 0)
    BY DEF Paired
  <2>1. FitsIn(u, z, u.child[z][o], n, n)
    BY <1>1, <1>2, HeightFacts
  <2>2. n = 0 \/ u.color[n] # 0
    BY DEF RB!RedIn, RB!NULL, RB!RED
  <2>3. z # 0
    BY <1>1, NothingBelowNull
  <2> QED
    BY <2>1, <2>2, <2>3 DEF FitsIn
<1>4. Coloured(S, u, H, p, s, 0, 0)
  BY <1>2, <1>3 DEF Coloured
<1>5. Shrinking(S, D, H, u, p, s)
  BY <1>1, <1>2, <1>4 DEF Shrinking
<1>6. u.child[p][Across(s)] # u.child[p][s]
  BY <1>5, SiblingFacts
<1>7. ShortSide(u, n, p) = s
  BY <1>2, <1>6 DEF ShortSide, TheSides, Across
<1> QED
  BY <1>2, <1>5, <1>7

\* The tree after a pass of the loop, whose node is on side s of p.
Lifted(u, p, s) ==
    LET x == RB!LiftRedSibling(u, p, s)
        w == x.child[p][RB!Other(s)]
    IN IF \A o \in RB!Sides : ~RB!RedIn(x, x.child[w][o]) THEN RB!Paint(x, w, 0)
       ELSE RB!LiftSibling(RB!LiftNearNephew(x, p, s), p, s)

AllBlack(u, p, s) ==
    LET x == RB!LiftRedSibling(u, p, s)
        w == x.child[p][RB!Other(s)]
    IN \A o \in RB!Sides : ~RB!RedIn(x, x.child[w][o])

LEMMA BlackSibling ==
    ASSUME TreeKeys, NEW S, NEW D, NEW H, NEW u, NEW p, NEW s, Shrinking(S, D, H, u, p, s),
           NEW x, x = RB!LiftRedSibling(u, p, s)
    PROVE  /\ \E E, G : Shrinking(S, E, G, x, p, s)
           /\ x.color[x.child[p][Across(s)]] = 1
<1> DEFINE w == u.child[p][Across(s)]
<1>1. RB!Other(s) = Across(s)
  BY DEF RB!Other, Across
<1>2. CASE u.color[w] = 0
  <2>1. x = RB!Rotate(RB!Paint(RB!Paint(u, u.child[p][Across(s)], 1), p, 0), p, s)
    BY <1>1, <1>2 DEF RB!LiftRedSibling, RB!RED, RB!BLACK
  <2> QED
    BY <2>1, <1>2, RedSiblingLifted
<1>3. CASE u.color[w] # 0
  <2>1. x = u
    BY <1>1, <1>3 DEF RB!LiftRedSibling, RB!RED
  <2>2. w \in S /\ Shaped(S, D, u)
    BY SiblingFacts DEF Shrinking
  <2>3. u.color[w] = 1
    BY <2>2, <1>3, ColourTypes
  <2> QED
    BY <2>1, <2>3
<1> QED
  BY <1>2, <1>3

LEMMA RedNephew ==
    ASSUME TreeKeys, NEW S, NEW D, NEW H, NEW u, NEW p, NEW s, Shrinking(S, D, H, u, p, s),
           u.color[u.child[p][Across(s)]] = 1,
           NEW o \in TheSides, RB!RedIn(u, u.child[u.child[p][Across(s)]][o]),
           NEW v, v = RB!LiftNearNephew(u, p, s)
    PROVE  /\ \E E, G : Shrinking(S, E, G, v, p, s)
           /\ v.color[v.child[p][Across(s)]] = 1
           /\ RB!RedIn(v, v.child[v.child[p][Across(s)]][Across(s)])
<1> DEFINE w == u.child[p][Across(s)]
<1>1. RB!Other(s) = Across(s)
  BY DEF RB!Other, Across
<1>2. CASE RB!RedIn(u, u.child[w][Across(s)])
  <2>1. v = u
    BY <1>1, <1>2 DEF RB!LiftNearNephew
  <2> QED
    BY <2>1, <1>2
<1>3. CASE ~RB!RedIn(u, u.child[w][Across(s)])
  <2>1. v = RB!Rotate(RB!Paint(RB!Paint(u, u.child[w][s], 1), w, 0), w, Across(s))
    BY <1>1, <1>3 DEF RB!LiftNearNephew, RB!RED, RB!BLACK
  <2>2. o = s
    <3>1. s \in TheSides
      BY DEF Shrinking
    <3> QED
      BY <3>1, <1>3, SideFacts
  <2>3. NearRed(u, p, s, w)
    BY <2>2, <1>3 DEF NearRed
  <2> HIDE DEF w
  <2>4. FarRedNow(S, u, p, s, v)
    BY <2>1, <2>3, NearNephewLifted
  <2> QED
    BY <2>4 DEF FarRedNow
<1> QED
  BY <1>2, <1>3

LEMMA ShrunkPass ==
    ASSUME TreeKeys, NEW S, NEW D, NEW H, NEW u, NEW p, NEW s, Shrinking(S, D, H, u, p, s)
    PROVE  \E E, G : Lacking(S, E, G, Lifted(u, p, s),
                             IF AllBlack(u, p, s) THEN p ELSE Lifted(u, p, s).root,
                             RB!LiftRedSibling(u, p, s).parent[p])
<1> DEFINE x == RB!LiftRedSibling(u, p, s)
           w == x.child[p][Across(s)]
<1>1. RB!Other(s) = Across(s) /\ RB!Sides = TheSides
  BY DEF RB!Other, Across, RB!Sides, TheSides
<1>2. (\E E, G : Shrinking(S, E, G, x, p, s)) /\ x.color[w] = 1
  BY BlackSibling
<1>3. PICK E, G : Shrinking(S, E, G, x, p, s)
  BY <1>2
<1>4. CASE AllBlack(u, p, s)
  <2>1. Lifted(u, p, s) = RB!Paint(x, w, 0) /\ \A o \in TheSides : ~RB!RedIn(x, x.child[w][o])
    BY <1>1, <1>4 DEF Lifted, AllBlack
  <2>2. NoneRed(x, p, s, w)
    BY <2>1, <1>2 DEF NoneRed
  <2> HIDE DEF x, w
  <2>3. \E F : Lacking(S, E, F, RB!Paint(x, w, 0), p, x.parent[p])
    BY <2>2, <1>3, SiblingReddened
  <2> QED
    BY <2>1, <2>3, <1>4 DEF x
<1>5. CASE ~AllBlack(u, p, s)
  <2> DEFINE y == RB!LiftNearNephew(x, p, s)
             c == y.child[p][Across(s)]
             v == RB!LiftSibling(y, p, s)
  <2>1. Lifted(u, p, s) = v
    BY <1>5 DEF Lifted, AllBlack
  <2>2. PICK o \in TheSides : RB!RedIn(x, x.child[w][o])
    BY <1>1, <1>5 DEF AllBlack
  <2>3. v = RB!Rotate(RB!Paint(RB!Paint(RB!Paint(y, c, y.color[p]), p, 1),
                               y.child[c][Across(s)], 1), p, s)
    BY <1>1 DEF RB!LiftSibling, RB!BLACK
  <2> HIDE DEF x, v
  <2>4. /\ \E F, K : Shrinking(S, F, K, y, p, s)
        /\ y.color[c] = 1 /\ RB!RedIn(y, y.child[c][Across(s)])
    BY <2>2, <1>2, <1>3, RedNephew
  <2>5. PICK F, K : Shrinking(S, F, K, y, p, s)
    BY <2>4
  <2>6. FarRed(y, p, s, c)
    BY <2>4 DEF FarRed
  <2> HIDE DEF y, c
  <2>7. /\ \E B : Shaped(S, B, v)
        /\ \E B : Coloured(S, v, B, 0, "left", 0, 0)
        /\ v.color[v.root] = 1
    BY <2>3, <2>5, <2>6, SiblingLifted
  <2>8. PICK A, B : Shaped(S, A, v) /\ Coloured(S, v, B, 0, "left", 0, 0)
    BY <2>7
  <2>9. Paired(S, v, v.root, v.root)
    <3> SUFFICES ASSUME NEW z \in S, NEW a \in TheSides
                 PROVE  FitsIn(v, z, v.child[z][a], v.root, v.root)
      BY DEF Paired
    <3>1. FitsIn(v, z, v.child[z][a], 0, 0) /\ z # 0
      BY <2>8, HeightFacts, NothingBelowNull
    <3> QED
      BY <3>1 DEF FitsIn
  <2>10. Coloured(S, v, B, 0, "left", v.root, v.root)
    BY <2>8, <2>9 DEF Coloured
  <2> QED
    BY <2>1, <2>8, <2>10, <1>5 DEF Lacking
<1> QED
  BY <1>4, <1>5

-----------------------------------------------------------------------------
(* Taking a node out.                                                      *)

LEMMA FreedForm ==
    ASSUME NEW u \in Trees, NEW x \in RbKeys
    PROVE  /\ RB!Freed(u, x) \in Trees /\ RB!Freed(u, x).root = u.root
           /\ \A z \in RbKeys, o \in TheSides :
                 RB!Freed(u, x).child[z][o] = IF z = x THEN 0 ELSE u.child[z][o]
           /\ \A z \in RbKeys : RB!Freed(u, x).parent[z] = IF z = x THEN 0 ELSE u.parent[z]
           /\ \A z \in RbKeys : RB!Freed(u, x).color[z] = IF z = x THEN 1 ELSE u.color[z]
<1>1. /\ RB!Unused \in [TheSides -> Links] /\ 0 \in Links
      /\ \A o \in TheSides : RB!Unused[o] = 0
  BY DEF RB!Unused, RB!NULL, TheSides, Links
<1>2. RB!Freed(u, x) = [u EXCEPT !.child[x] = RB!Unused, !.parent[x] = 0, !.color[x] = 1]
  BY DEF RB!Freed, RB!NULL, RB!BLACK
<1>3. /\ u.child \in [RbKeys -> [TheSides -> Links]] /\ u.parent \in [RbKeys -> Links]
      /\ u.color \in [RbKeys -> {0, 1}]
      /\ u = [root |-> u.root, child |-> u.child, parent |-> u.parent, color |-> u.color]
      /\ u.root \in Links
  BY DEF Trees
<1> DEFINE k == [u.child EXCEPT ![x] = RB!Unused]
           q == [u.parent EXCEPT ![x] = 0]
           c == [u.color EXCEPT ![x] = 1]
<1>4. RB!Freed(u, x) = [root |-> u.root, child |-> k, parent |-> q, color |-> c]
  BY <1>2, <1>3
<1>5. /\ k \in [RbKeys -> [TheSides -> Links]] /\ q \in [RbKeys -> Links]
      /\ c \in [RbKeys -> {0, 1}]
  BY <1>1, <1>3
<1>6. /\ \A z \in RbKeys, o \in TheSides : k[z][o] = IF z = x THEN 0 ELSE u.child[z][o]
      /\ \A z \in RbKeys : q[z] = IF z = x THEN 0 ELSE u.parent[z]
      /\ \A z \in RbKeys : c[z] = IF z = x THEN 1 ELSE u.color[z]
  BY <1>1, <1>3
<1> HIDE DEF k, q, c
<1>7. RB!Freed(u, x) \in Trees
  BY <1>3, <1>4, <1>5 DEF Trees
<1> QED
  BY <1>4, <1>6, <1>7

\* What pointed to x points to y.
LEMMA ReplaceIs ==
    ASSUME TreeKeys, NEW S, NEW D, NEW u, Shaped(S, D, u), NEW x \in S, NEW y \in Links
    PROVE  /\ RB!Replace(u, x, y) \in Trees
           /\ RB!Replace(u, x, y).root = IF u.parent[x] = 0 THEN y ELSE u.root
           /\ RB!Replace(u, x, y).parent = u.parent /\ RB!Replace(u, x, y).color = u.color
           /\ \A z \in RbKeys, o \in TheSides : RB!Replace(u, x, y).child[z][o] =
                 IF z = u.parent[x] /\ u.child[z][o] = x THEN y ELSE u.child[z][o]
<1> DEFINE v == RB!Replace(u, x, y)
           p == u.parent[x]
<1>1. 0 \notin RbKeys /\ u \in Trees /\ x \in RbKeys
  BY NothingBelowNull DEF TreeKeys, Shaped
<1>2. /\ v \in Trees /\ v.root = (IF p = 0 THEN y ELSE u.root)
      /\ v.parent = u.parent /\ v.color = u.color
      /\ \A z \in RbKeys, o \in TheSides :
            v.child[z][o] = IF z = p /\ o = SideIn(u, x) THEN y ELSE u.child[z][o]
  BY <1>1, ReplaceForm
<1>3. ASSUME NEW o \in TheSides, p \in RbKeys
      PROVE  o = SideIn(u, x) <=> u.child[p][o] = x
  <2>1. PICK q \in TheSides : u.child[p][q] = x /\ u.child[p][Across(q)] # x
    BY <1>1, <1>3, ParentFacts
  <2>2. SideIn(u, x) = IF u.child[p]["left"] = x THEN "left" ELSE "right"
    BY DEF SideIn
  <2> HIDE DEF p
  <2>3. SideIn(u, x) = q
    BY <2>1, <2>2 DEF TheSides, Across
  <2> QED
    BY <2>1, <2>3, SideFacts
<1> HIDE DEF v, p
<1>4. ASSUME NEW z \in RbKeys, NEW o \in TheSides
      PROVE  v.child[z][o] = IF z = p /\ u.child[z][o] = x THEN y ELSE u.child[z][o]
  BY <1>2, <1>3
<1> QED
  BY <1>2, <1>4 DEF v, p

\* v is u without x, whose place c has.
Spliced(u, x, c, v) ==
    /\ v \in Trees /\ v.root = IF u.parent[x] = 0 THEN c ELSE u.root
    /\ \A z \in RbKeys, o \in TheSides : v.child[z][o] =
          IF z = x THEN 0
          ELSE IF z = u.parent[x] /\ u.child[z][o] = x THEN c ELSE u.child[z][o]
    /\ \A z \in RbKeys : v.parent[z] =
          IF z = x THEN 0 ELSE IF z = c THEN u.parent[x] ELSE u.parent[z]
    /\ \A z \in RbKeys : v.color[z] = IF z = x THEN 1 ELSE u.color[z]

LEMMA SpliceForm ==
    ASSUME TreeKeys, NEW S, NEW D, NEW u, Shaped(S, D, u), NEW x \in S, NEW c \in Links
    PROVE  Spliced(u, x, c, RB!SpliceOut(u, x, c))
<1> DEFINE p == u.parent[x]
           t1 == RB!Replace(u, x, c)
           t2 == RB!SetParent(t1, c, p)
           v == RB!Freed(t2, x)
<1>1. /\ x \in RbKeys /\ 0 \notin RbKeys /\ p \in Links
  BY ParentFacts, NothingBelowNull DEF Links, TreeKeys
<1>2. RB!SpliceOut(u, x, c) = v
  BY DEF RB!SpliceOut
<1>3. /\ t1 \in Trees /\ t1.root = (IF p = 0 THEN c ELSE u.root)
      /\ t1.parent = u.parent /\ t1.color = u.color
      /\ \A z \in RbKeys, o \in TheSides : t1.child[z][o] =
            IF z = p /\ u.child[z][o] = x THEN c ELSE u.child[z][o]
  BY ReplaceIs
<1> HIDE DEF t1, p
<1>4. /\ t2 \in Trees /\ t2.root = t1.root /\ t2.child = t1.child /\ t2.color = t1.color
      /\ \A z \in RbKeys : t2.parent[z] = IF c # 0 /\ z = c THEN p ELSE t1.parent[z]
  BY <1>1, <1>3, SetParentForm
<1> HIDE DEF t2
<1>5. /\ v \in Trees /\ v.root = t2.root
      /\ \A z \in RbKeys, o \in TheSides : v.child[z][o] = IF z = x THEN 0 ELSE t2.child[z][o]
      /\ \A z \in RbKeys : v.parent[z] = IF z = x THEN 0 ELSE t2.parent[z]
      /\ \A z \in RbKeys : v.color[z] = IF z = x THEN 1 ELSE t2.color[z]
  BY <1>1, <1>4, FreedForm
<1> HIDE DEF v
<1>6. /\ v.root = IF p = 0 THEN c ELSE u.root
      /\ \A z \in RbKeys, o \in TheSides : v.child[z][o] =
            IF z = x THEN 0 ELSE IF z = p /\ u.child[z][o] = x THEN c ELSE u.child[z][o]
      /\ \A z \in RbKeys : v.parent[z] = IF z = x THEN 0 ELSE IF z = c THEN p ELSE u.parent[z]
      /\ \A z \in RbKeys : v.color[z] = IF z = x THEN 1 ELSE u.color[z]
  BY <1>1, <1>3, <1>4, <1>5
<1> QED
  BY <1>2, <1>5, <1>6 DEF Spliced, p

LEMMA SplicedShape ==
    ASSUME TreeKeys, NEW S, NEW D, NEW u, Shaped(S, D, u), NEW x \in S, NEW e \in TheSides,
           u.child[x][Across(e)] = 0, NEW v, Spliced(u, x, u.child[x][e], v)
    PROVE  \E E : Shaped(S \ {x}, E, v)
<1> DEFINE c == u.child[x][e]
           q == u.parent[x]
           T == S \ {x}
           E == [z \in Links |-> IF z = x THEN {} ELSE D[z] \ {x}]
<1>1. /\ D[0] = {} /\ 0 \notin S /\ S \subseteq Links /\ S \subseteq RbKeys
      /\ Across(e) \in TheSides /\ \A o \in TheSides : o = e \/ o = Across(e)
  BY SideFacts, NothingBelowNull
<1>2. /\ u \in Trees /\ IsFiniteSet(S) /\ D \in [Links -> SUBSET S] /\ (\A z \in Links \ S : D[z] = {})
      /\ u.root \in S \cup {0} /\ D[u.root] = S /\ (u.root # 0 => u.parent[u.root] = 0)
      /\ \A z \in S \ {u.root} :
            u.parent[z] \in S /\ \E o \in TheSides : u.child[u.parent[z]][o] = z
      /\ \A z \in RbKeys \ S : u.parent[z] = 0 /\ \A o \in TheSides : u.child[z][o] = 0
  BY DEF Shaped
<1>3. \A z \in S, o \in TheSides :
          /\ u.child[z][o] \in S \cup {0}
          /\ u.child[z][o] # 0 => u.parent[u.child[z][o]] = z
          /\ D[z] = {z} \cup D[u.child[z][o]] \cup D[u.child[z][Across(o)]]
          /\ \A w \in D[u.child[z][o]] : Beyond(o, z, w)
  BY DEF Shaped
<1>4. /\ c \in S \cup {0} /\ c # x /\ x \notin D[c] /\ D[x] = {x} \cup D[c]
      /\ (c # 0 => u.parent[c] = x)
  BY <1>1, NodeFacts
<1>5. /\ q \in S \cup {0} /\ (q = 0 <=> x = u.root) /\ q # x
      /\ (q # 0 => \E o \in TheSides : u.child[q][o] = x)
  BY ParentFacts
<1>6. /\ v \in Trees /\ v.root = (IF q = 0 THEN c ELSE u.root)
      /\ \A z \in RbKeys, o \in TheSides : v.child[z][o] =
            IF z = x THEN 0
            ELSE IF z = q /\ u.child[z][o] = x THEN c ELSE u.child[z][o]
      /\ \A z \in RbKeys : v.parent[z] = IF z = x THEN 0 ELSE IF z = c THEN q ELSE u.parent[z]
  BY DEF Spliced
<1>7. \A o \in TheSides : u.child[x][o] \in {0, c}
  BY <1>1
<1>7a. \A z \in S : z \in D[z]
  BY NodeFacts DEF TheSides
<1> HIDE DEF c, q
<1>8. /\ E \in [Links -> SUBSET T] /\ (\A z \in Links \ T : E[z] = {})
      /\ \A z \in Links : z # x => E[z] = D[z] \ {x}
  BY <1>1, <1>2
<1> HIDE DEF E
<1>9. IsFiniteSet(T)
  BY <1>2, FS_Subset
<1>10. v.root \in T \cup {0} /\ E[v.root] = T /\ (v.root # 0 => v.parent[v.root] = 0)
  <2>1. CASE q = 0
    <3>1. x = u.root /\ v.root = c
      BY <2>1, <1>5, <1>6
    <3>2. D[c] = T /\ c \in Links
      BY <3>1, <1>1, <1>2, <1>4 DEF Links
    <3>3. E[c] = T
      BY <3>2, <1>4, <1>8
    <3> QED
      BY <3>1, <3>3, <2>1, <1>1, <1>4, <1>6
  <2>2. CASE q # 0
    <3>1. u.root \in S /\ u.root # x /\ v.root = u.root /\ u.root # 0
      <4>1. u.root # 0
        BY <1>1, <1>2
      <4> QED
        BY <4>1, <2>2, <1>2, <1>5, <1>6
    <3>2. u.root # c
      BY <3>1, <1>1, <1>2, <1>4
    <3>3. E[u.root] = T
      BY <3>1, <1>1, <1>2, <1>8
    <3> QED
      BY <3>1, <3>2, <3>3, <1>1, <1>2, <1>6
  <2> QED
    BY <2>1, <2>2
<1>11. ASSUME NEW z \in T, NEW o \in TheSides
       PROVE  /\ v.child[z][o] \in T \cup {0}
              /\ v.child[z][o] # 0 => v.parent[v.child[z][o]] = z
              /\ E[v.child[z][o]] = D[u.child[z][o]] \ {x}
  <2>1. z \in S /\ z # x /\ z \in RbKeys
    BY <1>1
  <2>2. u.child[z][o] = x => z = q
    BY <2>1, <1>1, <1>3 DEF q
  <2>3. CASE u.child[z][o] = x
    <3>1. v.child[z][o] = c
      BY <2>1, <2>2, <2>3, <1>6
    <3>2. c # 0 => v.parent[c] = z
      BY <2>2, <2>3, <1>1, <1>4, <1>6
    <3>3. E[c] = D[x] \ {x}
      BY <1>1, <1>4, <1>8 DEF Links
    <3> QED
      BY <3>1, <3>2, <3>3, <2>3, <1>4
  <2>4. CASE u.child[z][o] # x
    <3>1. v.child[z][o] = u.child[z][o] /\ u.child[z][o] \in T \cup {0}
      BY <2>1, <2>4, <1>3, <1>6
    <3>2. u.child[z][o] # 0 => v.parent[u.child[z][o]] = z
      <4>1. u.child[z][o] # 0 => u.parent[u.child[z][o]] = z /\ u.child[z][o] # c
        BY <2>1, <1>3, <1>4
      <4> QED
        BY <4>1, <3>1, <2>4, <1>1, <1>6
    <3>3. E[u.child[z][o]] = D[u.child[z][o]] \ {x}
      BY <3>1, <2>4, <1>1, <1>8 DEF Links
    <3> QED
      BY <3>1, <3>2, <3>3
  <2> QED
    BY <2>3, <2>4
<1>12. ASSUME NEW z \in T, NEW o \in TheSides
       PROVE  /\ E[z] = {z} \cup E[v.child[z][o]] \cup E[v.child[z][Across(o)]]
              /\ \A w \in E[v.child[z][o]] : Beyond(o, z, w)
  <2>1. Across(o) \in TheSides
    BY SideFacts
  <2>2. E[z] = D[z] \ {x} /\ z # x /\ z \in S
    BY <1>1, <1>8
  <2>3. /\ E[v.child[z][o]] = D[u.child[z][o]] \ {x}
        /\ E[v.child[z][Across(o)]] = D[u.child[z][Across(o)]] \ {x}
    BY <2>1, <1>11
  <2>4. /\ D[z] = {z} \cup D[u.child[z][o]] \cup D[u.child[z][Across(o)]]
        /\ \A w \in D[u.child[z][o]] : Beyond(o, z, w)
    BY <2>2, <1>3
  <2> QED
    BY <2>2, <2>3, <2>4
<1>13. ASSUME NEW z \in T \ {v.root}
       PROVE  v.parent[z] \in T /\ \E o \in TheSides : v.child[v.parent[z]][o] = z
  <2>1. z \in S /\ z # x /\ z \in RbKeys
    BY <1>1
  <2>2. CASE z = c
    <3>1. v.parent[z] = q /\ q # 0
      BY <2>1, <2>2, <1>6
    <3>2. PICK o \in TheSides : u.child[q][o] = x
      BY <3>1, <1>5
    <3>3. q \in T /\ q \in RbKeys
      BY <3>1, <1>1, <1>5
    <3>4. v.child[q][o] = c
      BY <3>2, <3>3, <1>6
    <3> QED
      BY <3>1, <3>3, <3>4, <2>2
  <2>3. CASE z # c
    <3>1. v.parent[z] = u.parent[z]
      BY <2>1, <2>3, <1>6
    <3>2. z # u.root
      BY <2>1, <1>5, <1>6
    <3>3. PICK o \in TheSides : u.parent[z] \in S /\ u.child[u.parent[z]][o] = z
      BY <2>1, <3>2, <1>2
    <3>4. u.parent[z] # x
      BY <2>1, <2>3, <3>3, <1>1, <1>7
    <3>5. v.child[u.parent[z]][o] = z
      BY <2>1, <3>3, <3>4, <1>1, <1>6
    <3> QED
      BY <3>1, <3>3, <3>4, <3>5
  <2> QED
    BY <2>2, <2>3
<1>14. ASSUME NEW z \in RbKeys \ T
       PROVE  v.parent[z] = 0 /\ \A o \in TheSides : v.child[z][o] = 0
  <2>1. CASE z = x
    BY <2>1, <1>6
  <2>2. CASE z # x
    <3>1. z \notin S /\ z # 0
      BY <2>2 DEF TreeKeys
    <3>2. z # c /\ z # q
      BY <3>1, <1>4, <1>5
    <3> QED
      BY <3>1, <3>2, <2>2, <1>2, <1>6
  <2> QED
    BY <2>1, <2>2
<1>15. T \in SUBSET RbKeys
  BY <1>1
<1> HIDE DEF T
<1>16. Shaped(T, E, v)
  BY <1>6, <1>8, <1>9, <1>10, <1>11, <1>12, <1>13, <1>14, <1>15 DEF Shaped
<1> QED
  BY <1>16 DEF T

\* Where x was there is one black node less, when x was black.
\* How v is coloured, when x of u has left its place to its child c.
Paled(S, H, u, x, c, v) ==
    LET q == u.parent[x]
    IN /\ u.color[x] = 0 =>
             q # 0 /\ (c = 0 \/ v.color[c] # 0) /\ Coloured(S \ {x}, v, H, 0, "left", 0, 0)
       /\ u.color[x] = 1 /\ q = 0 => Coloured(S \ {x}, v, H, 0, "left", c, c)
       /\ u.color[x] = 1 /\ q # 0 =>
             \E o \in TheSides : /\ v.child[q][o] = c /\ u.child[q][o] = x
                                 /\ Coloured(S \ {x}, v, H, q, o, c, c)
       /\ q # 0 => q \in S \ {x} /\ v.root = u.root /\ v.color[v.root] = 1
       /\ q = 0 => v.root = c

LEMMA SplicedColours ==
    ASSUME TreeKeys, NEW S, NEW D, NEW H, NEW u,
           Shaped(S, D, u), Coloured(S, u, H, 0, "left", 0, 0), u.color[u.root] = 1,
           NEW x \in S, NEW e \in TheSides, u.child[x][Across(e)] = 0,
           NEW v, Spliced(u, x, u.child[x][e], v)
    PROVE  Paled(S, H, u, x, u.child[x][e], v)
<1> DEFINE c == u.child[x][e]
           q == u.parent[x]
           T == S \ {x}
<1>1. /\ 0 \notin S /\ S \subseteq Links /\ S \subseteq RbKeys /\ x # 0
      /\ u.root \in S /\ u.root # 0
  BY NothingBelowNull
<1>2. /\ c \in S \cup {0} /\ c # x /\ H[x] = u.color[x] + H[c] + 0 /\ FitsIn(u, x, c, 0, 0)
      /\ H[c] \in Nat /\ u.color[x] \in {0, 1}
  <2>1. /\ H[x] = u.color[x] + H[c] + Owes(x, e, 0, "left") /\ FitsIn(u, x, c, 0, 0)
        /\ H[c] \in Nat /\ u.color[x] \in {0, 1}
    BY HeightFacts
  <2>2. Owes(x, e, 0, "left") = 0
    BY <1>1, NothingOwed
  <2>3. c \in S \cup {0} /\ c # x
    BY NodeFacts
  <2> QED
    BY <2>1, <2>2, <2>3
<1>3. /\ q \in S \cup {0} /\ (q = 0 <=> x = u.root) /\ q # x
      /\ (q # 0 => \E o \in TheSides : u.child[q][o] = x /\ u.child[q][Across(o)] # x)
  BY ParentFacts
<1>4. /\ v.root = (IF q = 0 THEN c ELSE u.root)
      /\ \A z \in RbKeys, o \in TheSides : v.child[z][o] =
            IF z = x THEN 0
            ELSE IF z = q /\ u.child[z][o] = x THEN c ELSE u.child[z][o]
      /\ \A z \in RbKeys : v.color[z] = IF z = x THEN 1 ELSE u.color[z]
  BY DEF Spliced
<1>5. PICK o \in TheSides : q # 0 => u.child[q][o] = x /\ u.child[q][Across(o)] # x
  BY <1>3
<1>6. ASSUME NEW z \in S, NEW a \in TheSides
      PROVE  /\ H[z] = u.color[z] + H[u.child[z][a]] /\ FitsIn(u, z, u.child[z][a], 0, 0)
             /\ H[u.child[z][a]] \in Nat /\ u.color[z] \in Nat /\ u.child[z][a] \in S \cup {0}
             /\ (u.child[z][a] = x => z = q)
  <2>1. /\ H[z] = u.color[z] + H[u.child[z][a]] + Owes(z, a, 0, "left")
        /\ FitsIn(u, z, u.child[z][a], 0, 0)
        /\ H[u.child[z][a]] \in Nat /\ u.color[z] \in Nat /\ u.child[z][a] \in S \cup {0}
    BY HeightFacts
  <2>2. Owes(z, a, 0, "left") = 0
    BY <1>1, NothingOwed
  <2>3. u.child[z][a] = x => z = q
    <3>1. u.child[z][a] # 0 => u.parent[u.child[z][a]] = z
      BY NodeFacts
    <3> QED
      BY <3>1, <1>1
  <2> QED
    BY <2>1, <2>2, <2>3
<1>7. /\ H \in Measures /\ H[0] = 1 /\ \A z \in RbKeys \ S : u.color[z] = 1
  BY DEF Coloured
<1>8. \A z \in RbKeys \ T : v.color[z] = 1
  BY <1>4, <1>7
<1> HIDE DEF c, q
<1>9. ASSUME NEW z \in T, NEW a \in TheSides
      PROVE  \/ /\ z = q /\ a = o /\ q # 0 /\ u.child[z][a] = x /\ v.child[z][a] = c
             \/ /\ ~(z = q /\ a = o) /\ u.child[z][a] # x /\ v.child[z][a] = u.child[z][a]
  <2>1. z \in RbKeys /\ z # x /\ z # 0 /\ z \in S
    BY <1>1
  <2>2. CASE z = q /\ a = o
    BY <2>1, <2>2, <1>4, <1>5
  <2>3. CASE ~(z = q /\ a = o)
    <3>1. u.child[z][a] # x
      <4>1. CASE z = q
        <5>1. a = Across(o)
          BY <4>1, <2>3, SideFacts
        <5> QED
          BY <5>1, <4>1, <2>1, <1>5
      <4>2. CASE z # q
        BY <4>2, <2>1, <1>6
      <4> QED
        BY <4>1, <4>2
    <3> QED
      BY <3>1, <2>1, <2>3, <1>4
  <2> QED
    BY <2>2, <2>3
<1>10. ASSUME NEW z \in T, NEW a \in TheSides
       PROVE  H[z] = v.color[z] + H[v.child[z][a]]
                     + (IF u.color[x] = 1 THEN Owes(z, a, q, o) ELSE 0)
  <2>1. z \in S /\ v.color[z] = u.color[z]
    BY <1>1, <1>4
  <2>2. H[z] = u.color[z] + H[u.child[z][a]] /\ H[u.child[z][a]] \in Nat /\ u.color[z] \in Nat
    BY <2>1, <1>6
  <2>3. CASE z = q /\ a = o /\ u.child[z][a] = x /\ v.child[z][a] = c
    <3>1. Owes(z, a, q, o) = 1
      BY <2>3 DEF Owes
    <3>2. H[z] = u.color[z] + (u.color[x] + H[c])
      BY <2>2, <2>3, <1>2
    <3> QED
      BY <3>1, <3>2, <2>1, <2>2, <2>3, <1>2
  <2>4. CASE ~(z = q /\ a = o) /\ v.child[z][a] = u.child[z][a]
    <3>1. Owes(z, a, q, o) = 0
      BY <2>4 DEF Owes
    <3> QED
      BY <3>1, <2>1, <2>2, <2>4
  <2> QED
    BY <2>3, <2>4, <1>9
<1>11. ASSUME NEW z \in T, NEW a \in TheSides
       PROVE  /\ FitsIn(v, z, v.child[z][a], c, c)
              /\ u.color[x] = 0 => FitsIn(v, z, v.child[z][a], 0, 0)
  <2>1. z \in S /\ v.color[z] = u.color[z] /\ FitsIn(u, z, u.child[z][a], 0, 0) /\ z # 0
        /\ u.child[z][a] \in S \cup {0}
    BY <1>1, <1>4, <1>6
  <2>2. CASE u.child[z][a] = x /\ v.child[z][a] = c
    <3>1. u.color[x] = 0 => c = 0 \/ u.color[c] # 0
      BY <1>1, <1>2 DEF FitsIn
    <3>2. c # 0 => v.color[c] = u.color[c]
      BY <1>1, <1>2, <1>4
    <3> QED
      BY <3>1, <3>2, <2>2 DEF FitsIn
  <2>3. CASE u.child[z][a] # x /\ v.child[z][a] = u.child[z][a]
    <3>1. u.child[z][a] # 0 => v.color[u.child[z][a]] = u.color[u.child[z][a]]
      BY <2>1, <2>3, <1>1, <1>4
    <3> QED
      BY <3>1, <2>1, <2>3 DEF FitsIn
  <2> QED
    BY <2>2, <2>3, <1>9
<1>12. ASSUME u.color[x] = 0
       PROVE  q # 0 /\ (c = 0 \/ v.color[c] # 0) /\ Coloured(T, v, H, 0, "left", 0, 0)
  <2>1. q # 0
    BY <1>3, <1>12
  <2>2. c = 0 \/ v.color[c] # 0
    BY <1>1, <1>2, <1>4, <1>12 DEF FitsIn
  <2>3. Even(T, v, H, 0, "left")
    <3> SUFFICES ASSUME NEW z \in T, NEW a \in TheSides
                 PROVE  H[z] = v.color[z] + H[v.child[z][a]] + Owes(z, a, 0, "left")
      BY DEF Even
    <3>1. Owes(z, a, 0, "left") = 0
      BY <1>1, NothingOwed
    <3> QED
      BY <3>1, <1>10, <1>12
  <2>4. Paired(T, v, 0, 0)
    BY <1>11, <1>12 DEF Paired
  <2> QED
    BY <2>1, <2>2, <2>3, <2>4, <1>7, <1>8 DEF Coloured
<1>13. ASSUME u.color[x] = 1
       PROVE  Coloured(T, v, H, q, o, c, c)
  <2>1. Even(T, v, H, q, o)
    BY <1>10, <1>13 DEF Even
  <2>2. Paired(T, v, c, c)
    BY <1>11 DEF Paired
  <2> QED
    BY <2>1, <2>2, <1>7, <1>8 DEF Coloured
<1>14. ASSUME u.color[x] = 1, q = 0
       PROVE  Coloured(T, v, H, 0, "left", c, c)
  <2>1. Coloured(T, v, H, q, o, c, c)
    BY <1>13, <1>14
  <2>2. Even(T, v, H, 0, "left")
    <3> SUFFICES ASSUME NEW z \in T, NEW a \in TheSides
                 PROVE  H[z] = v.color[z] + H[v.child[z][a]] + Owes(z, a, 0, "left")
      BY DEF Even
    <3>1. Owes(z, a, 0, "left") = 0 /\ Owes(z, a, 0, o) = 0
      BY <1>1, NothingOwed
    <3> QED
      BY <3>1, <1>10, <1>14
  <2> QED
    BY <2>1, <2>2 DEF Coloured
<1>15. q # 0 => q \in T /\ v.root = u.root /\ v.color[v.root] = 1 /\ v.child[q][o] = c
  BY <1>1, <1>3, <1>4, <1>5
<1> QED
  BY <1>4, <1>5, <1>12, <1>13, <1>14, <1>15 DEF Paled, c, q, T

\* v is w with r, which was not in it, in the place of x.
Superseded(w, x, r, v) ==
    /\ v \in Trees /\ v.root = IF w.parent[x] = 0 THEN r ELSE w.root
    /\ \A z \in RbKeys, o \in TheSides : v.child[z][o] =
          IF z = x THEN 0 ELSE IF z = r THEN w.child[x][o]
          ELSE IF w.child[z][o] = x THEN r ELSE w.child[z][o]
    /\ \A z \in RbKeys : v.parent[z] =
          IF z = x THEN 0 ELSE IF z = r THEN w.parent[x]
          ELSE IF w.parent[z] = x THEN r ELSE w.parent[z]
    /\ \A z \in RbKeys : v.color[z] =
          IF z = x THEN 1 ELSE IF z = r THEN w.color[x] ELSE w.color[z]

\* r is on the same side of every other node as x.
Stands(T, x, r) ==
    \A y \in T \ {x}, o \in TheSides :
        (Beyond(o, x, y) => Beyond(o, r, y)) /\ (Beyond(o, y, x) => Beyond(o, y, r))

LEMMA SupersededShape ==
    ASSUME TreeKeys, NEW T, NEW E, NEW w, Shaped(T, E, w), NEW x \in T, NEW r \in RbKeys \ T,
           Stands(T, x, r), NEW v, Superseded(w, x, r, v)
    PROVE  \E F : Shaped((T \ {x}) \cup {r}, F, v)
<1> DEFINE U == (T \ {x}) \cup {r}
           Ren(A) == IF x \in A THEN (A \ {x}) \cup {r} ELSE A
           F == [z \in Links |-> IF z = x THEN {} ELSE IF z = r THEN Ren(E[x]) ELSE Ren(E[z])]
<1>1. /\ E[0] = {} /\ 0 \notin T /\ T \subseteq Links /\ T \subseteq RbKeys /\ r # 0 /\ r # x
      /\ x \in RbKeys /\ r \in Links /\ 0 \in Links
  BY NothingBelowNull DEF TreeKeys, Links
<1>2. /\ w \in Trees /\ IsFiniteSet(T) /\ E \in [Links -> SUBSET T] /\ (\A z \in Links \ T : E[z] = {})
      /\ w.root \in T \cup {0} /\ E[w.root] = T /\ (w.root # 0 => w.parent[w.root] = 0)
      /\ \A z \in T \ {w.root} :
            w.parent[z] \in T /\ \E o \in TheSides : w.child[w.parent[z]][o] = z
      /\ \A z \in RbKeys \ T : w.parent[z] = 0 /\ \A o \in TheSides : w.child[z][o] = 0
  BY DEF Shaped
<1>3. \A z \in T, o \in TheSides :
          /\ w.child[z][o] \in T \cup {0} /\ w.child[z][o] # z
          /\ w.child[z][o] # 0 => w.parent[w.child[z][o]] = z
          /\ E[z] = {z} \cup E[w.child[z][o]] \cup E[w.child[z][Across(o)]]
          /\ \A y \in E[w.child[z][o]] : Beyond(o, z, y)
          /\ z \notin E[w.child[z][o]]
  <2>1. \A z \in T, o \in TheSides :
            /\ w.child[z][o] \in T \cup {0}
            /\ w.child[z][o] # 0 => w.parent[w.child[z][o]] = z
            /\ E[z] = {z} \cup E[w.child[z][o]] \cup E[w.child[z][Across(o)]]
            /\ \A y \in E[w.child[z][o]] : Beyond(o, z, y)
    BY DEF Shaped
  <2>2. \A z \in T, o \in TheSides : w.child[z][o] # z /\ z \notin E[w.child[z][o]]
    BY NodeFacts
  <2> QED
    BY <2>1, <2>2
<1>4. /\ w.parent[x] \in T \cup {0} /\ (w.parent[x] = 0 <=> x = w.root) /\ w.parent[x] # x
  BY ParentFacts
<1>5. /\ v \in Trees /\ v.root = (IF w.parent[x] = 0 THEN r ELSE w.root)
      /\ \A z \in RbKeys, o \in TheSides : v.child[z][o] =
            IF z = x THEN 0 ELSE IF z = r THEN w.child[x][o]
            ELSE IF w.child[z][o] = x THEN r ELSE w.child[z][o]
      /\ \A z \in RbKeys : v.parent[z] =
            IF z = x THEN 0 ELSE IF z = r THEN w.parent[x]
            ELSE IF w.parent[z] = x THEN r ELSE w.parent[z]
  BY DEF Superseded
<1>6. r \notin T /\ r \in RbKeys
  OBVIOUS
<1>7. /\ F \in [Links -> SUBSET U] /\ (\A z \in Links \ U : F[z] = {})
      /\ F[r] = Ren(E[x])
      /\ \A z \in Links \ {x, r} : F[z] = Ren(E[z])
  BY <1>1, <1>2, <1>6
<1> HIDE DEF F
<1>8. U \in SUBSET RbKeys /\ IsFiniteSet(U)
  <2>1. IsFiniteSet(T \ {x})
    BY <1>2, FS_Subset
  <2>2. IsFiniteSet(U)
    BY <2>1, FS_AddElement
  <2> QED
    BY <2>2, <1>1
\* What has the place of z.
<1> DEFINE At(z) == IF z = x THEN r ELSE z
<1>9. ASSUME NEW z \in T \cup {0}
      PROVE  At(z) \in U \cup {0} /\ F[At(z)] = Ren(E[z]) /\ (At(z) = 0 <=> z = 0)
  BY <1>1, <1>6, <1>7, <1>9
<1>10. ASSUME NEW z \in T, NEW o \in TheSides
       PROVE  /\ v.child[At(z)][o] = At(w.child[z][o])
              /\ w.child[z][o] # 0 => v.parent[At(w.child[z][o])] = At(z)
  <2>1. w.child[z][o] \in T \cup {0} /\ (w.child[z][o] # 0 => w.parent[w.child[z][o]] = z)
        /\ w.child[z][o] # z
    BY <1>3
  <2>2. At(z) \in RbKeys /\ At(z) # x
    BY <1>1
  <2>3. v.child[At(z)][o] = At(w.child[z][o])
    BY <2>1, <2>2, <1>1, <1>5, <1>6
  <2>4. ASSUME w.child[z][o] # 0 PROVE v.parent[At(w.child[z][o])] = At(z)
    <3>1. w.child[z][o] \in T /\ w.parent[w.child[z][o]] = z
      BY <2>1, <2>4
    <3> QED
      BY <3>1, <1>1, <1>4, <1>5, <1>6
  <2> QED
    BY <2>3, <2>4
<1>11. \A z \in U : \E y \in T : z = At(y)
  BY <1>1, <1>6
<1>12. v.root = At(w.root) /\ (v.root # 0 => v.parent[v.root] = 0)
  <2>1. CASE w.root = x
    BY <2>1, <1>1, <1>4, <1>5, <1>6
  <2>2. CASE w.root # x
    <3>1. v.root = w.root
      BY <2>2, <1>4, <1>5
    <3>2. ASSUME w.root # 0 PROVE v.parent[w.root] = 0
      <4>1. w.root \in T /\ w.root # r /\ w.parent[w.root] = 0
        BY <3>2, <1>2, <1>6
      <4> QED
        BY <4>1, <2>2, <1>1, <1>5
    <3> QED
      BY <2>2, <3>1, <3>2
  <2> QED
    BY <2>1, <2>2
<1>13. v.root \in U \cup {0} /\ F[v.root] = U
  <2>1. w.root \in T
    <3>1. w.root # 0
      BY <1>1, <1>2
    <3> QED
      BY <3>1, <1>2
  <2>2. Ren(T) = U
    OBVIOUS
  <2>3. v.root \in U \cup {0} /\ F[v.root] = Ren(E[w.root])
    BY <2>1, <1>9, <1>12
  <2> QED
    BY <2>2, <2>3, <1>2
<1>14. ASSUME NEW z \in T, NEW o \in TheSides
       PROVE  /\ F[At(z)] = {At(z)} \cup F[v.child[At(z)][o]] \cup F[v.child[At(z)][Across(o)]]
              /\ \A y \in F[v.child[At(z)][o]] : Beyond(o, At(z), y)
  <2>1. Across(o) \in TheSides
    BY SideFacts
  <2>2. /\ v.child[At(z)][o] = At(w.child[z][o]) /\ v.child[At(z)][Across(o)] = At(w.child[z][Across(o)])
        /\ w.child[z][o] \in T \cup {0} /\ w.child[z][Across(o)] \in T \cup {0}
    BY <2>1, <1>3, <1>10
  <2>3. /\ F[At(z)] = Ren(E[z]) /\ F[v.child[At(z)][o]] = Ren(E[w.child[z][o]])
        /\ F[v.child[At(z)][Across(o)]] = Ren(E[w.child[z][Across(o)]])
    BY <2>2, <1>9
  <2>4. E[z] = {z} \cup E[w.child[z][o]] \cup E[w.child[z][Across(o)]]
    BY <1>3
  <2>5. Ren(E[z]) = {At(z)} \cup Ren(E[w.child[z][o]]) \cup Ren(E[w.child[z][Across(o)]])
    <3> DEFINE A == E[w.child[z][o]]
               B == E[w.child[z][Across(o)]]
    <3>1. E[z] = {z} \cup A \cup B
      BY <2>4
    <3> HIDE DEF A, B
    <3>2. Ren({z} \cup A \cup B) = {At(z)} \cup Ren(A) \cup Ren(B)
      OBVIOUS
    <3> QED
      BY <3>1, <3>2 DEF A, B
  <2>6. ASSUME NEW y \in Ren(E[w.child[z][o]]) PROVE Beyond(o, At(z), y)
    <3>0. E[w.child[z][o]] \subseteq T
      BY <1>1, <1>2, <2>2 DEF Links
    <3>1. PICK b \in E[w.child[z][o]] : y = At(b)
      BY <2>6, <3>0, <1>6
    <3>2. Beyond(o, z, b) /\ b # z /\ b \in T
      BY <3>0, <3>1, <1>3
    <3>3. CASE z = x
      BY <3>1, <3>2, <3>3 DEF Stands
    <3>4. CASE b = x
      BY <3>1, <3>2, <3>4 DEF Stands
    <3>5. CASE z # x /\ b # x
      BY <3>1, <3>2, <3>5
    <3> QED
      BY <3>3, <3>4, <3>5
  <2> QED
    BY <2>3, <2>5, <2>6
<1>15. ASSUME NEW z \in T, At(z) # v.root
       PROVE  v.parent[At(z)] \in U /\ \E o \in TheSides : v.child[v.parent[At(z)]][o] = At(z)
  <2>1. z # w.root
    BY <1>12, <1>15
  <2>2. PICK o \in TheSides : w.parent[z] \in T /\ w.child[w.parent[z]][o] = z
    BY <2>1, <1>2
  <2>3. /\ v.child[At(w.parent[z])][o] = At(w.child[w.parent[z]][o])
        /\ v.parent[At(w.child[w.parent[z]][o])] = At(w.parent[z])
    BY <2>2, <1>1, <1>10
  <2>4. At(w.parent[z]) \in U
    BY <2>2, <1>1
  <2> QED
    BY <2>2, <2>3, <2>4
<1>16. ASSUME NEW z \in RbKeys \ U
       PROVE  v.parent[z] = 0 /\ \A o \in TheSides : v.child[z][o] = 0
  <2>1. CASE z = x
    BY <2>1, <1>5
  <2>2. CASE z # x
    <3>1. z \notin T /\ z # r
      BY <2>2
    <3>2. w.parent[z] = 0 /\ \A o \in TheSides : w.child[z][o] = 0
      BY <3>1, <1>2
    <3>3. x # 0
      BY <1>1
    <3> QED
      BY <3>1, <3>2, <3>3, <2>2, <1>5
  <2> QED
    BY <2>1, <2>2
<1>17. ASSUME NEW z \in U, NEW o \in TheSides
       PROVE  /\ v.child[z][o] \in U \cup {0}
              /\ v.child[z][o] # 0 => v.parent[v.child[z][o]] = z
              /\ F[z] = {z} \cup F[v.child[z][o]] \cup F[v.child[z][Across(o)]]
              /\ \A y \in F[v.child[z][o]] : Beyond(o, z, y)
  <2>1. PICK y \in T : z = At(y)
    BY <1>11
  <2>2. w.child[y][o] \in T \cup {0}
    BY <1>3
  <2>3. v.child[z][o] = At(w.child[y][o]) /\ (w.child[y][o] # 0 => v.parent[v.child[z][o]] = z)
    BY <2>1, <1>10
  <2>4. v.child[z][o] \in U \cup {0} /\ (v.child[z][o] = 0 <=> w.child[y][o] = 0)
    BY <2>2, <2>3, <1>9
  <2> QED
    BY <2>1, <2>3, <2>4, <1>14
<1>18. ASSUME NEW z \in U \ {v.root}
       PROVE  v.parent[z] \in U /\ \E o \in TheSides : v.child[v.parent[z]][o] = z
  <2>1. PICK y \in T : z = At(y)
    BY <1>11
  <2> QED
    BY <2>1, <1>15
<1> HIDE DEF U
<1>19. Shaped(U, F, v)
  BY <1>5, <1>7, <1>8, <1>12, <1>13, <1>16, <1>17, <1>18 DEF Shaped
<1> QED
  BY <1>19 DEF U

LEMMA SupersededColours ==
    ASSUME TreeKeys, NEW T, NEW E, NEW H, NEW w, NEW px, NEW sx, NEW above, NEW below,
           Shaped(T, E, w), Coloured(T, w, H, px, sx, above, below), px \in T \cup {0},
           NEW x \in T, NEW r \in RbKeys \ T, x \notin {above, below},
           r \notin {above, below}, NEW v, Superseded(w, x, r, v)
    PROVE  \E G : Coloured((T \ {x}) \cup {r}, v, G, IF px = x THEN r ELSE px, sx, above, below)
<1> DEFINE U == (T \ {x}) \cup {r}
           G == [H EXCEPT ![r] = H[x]]
           At(z) == IF z = x THEN r ELSE z
<1>1. /\ 0 \notin T /\ T \subseteq Links /\ T \subseteq RbKeys /\ r # 0 /\ r # x /\ r \notin T
      /\ r \in Links /\ r \in RbKeys /\ x \in RbKeys
  BY NothingBelowNull DEF TreeKeys, Links
<1>2. /\ \A z \in RbKeys, o \in TheSides : v.child[z][o] =
            IF z = x THEN 0 ELSE IF z = r THEN w.child[x][o]
            ELSE IF w.child[z][o] = x THEN r ELSE w.child[z][o]
      /\ \A z \in RbKeys : v.color[z] =
            IF z = x THEN 1 ELSE IF z = r THEN w.color[x] ELSE w.color[z]
  BY DEF Superseded
<1>3. ASSUME NEW z \in T, NEW o \in TheSides
      PROVE  /\ H[z] = w.color[z] + H[w.child[z][o]] + Owes(z, o, px, sx)
             /\ FitsIn(w, z, w.child[z][o], above, below)
             /\ w.child[z][o] \in T \cup {0} /\ w.child[z][o] # z
  BY HeightFacts, NodeFacts
<1>4. H \in Measures /\ H[0] = 1 /\ \A z \in RbKeys \ T : w.color[z] = 1
  BY DEF Coloured
<1>5. /\ G \in Measures /\ G[0] = 1 /\ G[r] = H[x] /\ \A z \in Links : z # r => G[z] = H[z]
  <2>1. H \in [Links -> Nat \ {0}] /\ 0 \in Links /\ x \in Links
    BY <1>1, <1>4 DEF Measures, Links
  <2> QED
    BY <2>1, <1>1, <1>4 DEF Measures
<1> HIDE DEF G
<1>6. \A z \in T : G[At(z)] = H[z] /\ v.color[At(z)] = w.color[z] /\ At(z) \in RbKeys
  BY <1>1, <1>2, <1>5
<1>7. ASSUME NEW z \in T, NEW o \in TheSides
      PROVE  v.child[At(z)][o] = At(w.child[z][o])
  <2>1. w.child[z][o] \in T \cup {0} /\ w.child[z][o] # z
    BY <1>3
  <2> QED
    BY <2>1, <1>1, <1>2
<1>8. \A z \in U : \E y \in T : z = At(y)
  BY <1>1
<1>9. ASSUME NEW z \in T, NEW o \in TheSides
      PROVE  /\ G[At(z)] = v.color[At(z)] + G[v.child[At(z)][o]] + Owes(At(z), o, At(px), sx)
             /\ FitsIn(v, At(z), v.child[At(z)][o], above, below)
  <2>1. w.child[z][o] \in T \cup {0} /\ At(0) = 0
    BY <1>1, <1>3
  <2>2. G[v.child[At(z)][o]] = H[w.child[z][o]]
    <3>1. CASE w.child[z][o] = 0
      BY <2>1, <3>1, <1>1, <1>4, <1>5, <1>7
    <3>2. CASE w.child[z][o] # 0
      BY <2>1, <3>2, <1>6, <1>7
    <3> QED
      BY <3>1, <3>2
  <2>3. Owes(At(z), o, At(px), sx) = Owes(z, o, px, sx)
    <3>1. At(z) = At(px) <=> z = px
      BY <1>1
    <3> HIDE DEF At
    <3> QED
      BY <3>1 DEF Owes
  <2>4. FitsIn(v, At(z), v.child[At(z)][o], above, below)
    <3> DEFINE a == w.child[z][o]
    <3>1. v.child[At(z)][o] = At(a) /\ a \in T \cup {0} /\ FitsIn(w, z, a, above, below)
      BY <2>1, <1>3, <1>7
    <3> HIDE DEF a
    <3>2. CASE a = 0
      BY <2>1, <3>1, <3>2 DEF FitsIn
    <3>3. CASE a # 0
      <4>1. v.color[At(a)] = w.color[a] /\ v.color[At(z)] = w.color[z] /\ a \in T
        BY <3>1, <3>3, <1>6
      <4>2. (z = above => At(z) = above) /\ (a = below => At(a) = below)
        OBVIOUS
      <4> HIDE DEF At
      <4> QED
        BY <3>1, <3>3, <4>1, <4>2 DEF FitsIn
    <3> QED
      BY <3>2, <3>3
  <2> QED
    BY <2>2, <2>3, <2>4, <1>3, <1>6
<1>10. \A z \in RbKeys \ U : v.color[z] = 1
  BY <1>1, <1>2, <1>4
<1>11. Even(U, v, G, At(px), sx) /\ Paired(U, v, above, below)
  <2> SUFFICES ASSUME NEW z \in U, NEW o \in TheSides
               PROVE  /\ G[z] = v.color[z] + G[v.child[z][o]] + Owes(z, o, At(px), sx)
                      /\ FitsIn(v, z, v.child[z][o], above, below)
    BY DEF Even, Paired
  <2>1. PICK y \in T : z = At(y)
    BY <1>8
  <2> QED
    BY <2>1, <1>9
<1>12. Coloured(U, v, G, At(px), sx, above, below)
  BY <1>5, <1>10, <1>11 DEF Coloured
<1> QED
  BY <1>12

\* The way up from a node below y passes through y.
LEMMA ParentWithin ==
    ASSUME TreeKeys, NEW S, NEW D, NEW u, Shaped(S, D, u), NEW y \in S, NEW r \in D[y], r # y
    PROVE  u.parent[r] \in D[y]
<1> DEFINE A == {v \in S : \A z \in D[v] : z # v => u.parent[z] \in D[v]}
<1>1. ASSUME NEW v \in S, \A s \in TheSides : u.child[v][s] # 0 => u.child[v][s] \in A
      PROVE  v \in A
  <2> SUFFICES ASSUME NEW z \in D[v], z # v PROVE u.parent[z] \in D[v]
    OBVIOUS
  <2>1. PICK s \in TheSides : z \in D[u.child[v][s]]
    <3>1. PICK s \in TheSides : TRUE
      BY DEF TheSides
    <3>2. D[v] = {v} \cup D[u.child[v][s]] \cup D[u.child[v][Across(s)]] /\ Across(s) \in TheSides
      BY NodeFacts, SideFacts
    <3> QED
      BY <3>2
  <2>2. /\ u.child[v][s] # 0 /\ D[u.child[v][s]] \subseteq D[v] /\ v \in D[v]
        /\ u.parent[u.child[v][s]] = v
    <3>1. u.child[v][s] # 0
      BY <2>1, NothingBelowNull
    <3> QED
      BY <3>1, NodeFacts
  <2>3. u.child[v][s] \in A
    BY <2>2, <1>1
  <2> QED
    BY <2>1, <2>2, <2>3
<1>2. \A v \in S : v \in A
  <2> HIDE DEF A
  <2> QED
    BY <1>1, FromBelow
<1> QED
  BY <1>2

\* A node is on one side of all nodes below another one, if it is not below that itself.
LEMMA OneSide ==
    ASSUME TreeKeys, NEW S, NEW D, NEW u, Shaped(S, D, u), NEW x \in S, NEW y \in S \ D[x]
    PROVE  \E o \in TheSides : \A z \in D[x] : Beyond(o, y, z)
<1> DEFINE A == {v \in S : \A a \in S \ D[v] : \E o \in TheSides : \A z \in D[v] : Beyond(o, a, z)}
<1>1. ASSUME NEW v \in S, u.parent[v] = 0 \/ u.parent[v] \in A
      PROVE  v \in A
  <2> SUFFICES ASSUME NEW a \in S \ D[v]
               PROVE  \E o \in TheSides : \A z \in D[v] : Beyond(o, a, z)
    OBVIOUS
  <2>1. CASE u.parent[v] = 0
    <3>1. v = u.root /\ v # 0
      BY <2>1, ParentFacts, NothingBelowNull
    <3>2. D[v] = S
      BY <3>1, NothingBelowNull
    <3> QED
      BY <3>2
  <2>2. CASE u.parent[v] # 0
    <3> DEFINE p == u.parent[v]
    <3>1. p \in A
      BY <2>2, <1>1
    <3>2. PICK s \in TheSides : u.child[p][s] = v /\ D[v] \subseteq D[p] /\ p \in S
      BY <2>2, ParentFacts
    <3> HIDE DEF p
    <3>3. CASE a \notin D[p]
      BY <3>1, <3>2, <3>3
    <3>4. CASE a \in D[p]
      <4>1. /\ D[p] = {p} \cup D[v] \cup D[u.child[p][Across(s)]]
            /\ \A z \in D[v] : Beyond(s, p, z)
            /\ Across(s) \in TheSides
        BY <3>2, SideFacts DEF Shaped
      <4>2. \A z \in D[u.child[p][Across(s)]] : Beyond(Across(s), p, z)
        BY <3>2, <4>1 DEF Shaped
      <4>3. CASE a = p
        BY <4>1, <4>3
      <4>4. CASE a # p
        <5>1. Beyond(Across(s), p, a)
          BY <3>4, <4>1, <4>2, <4>4
        <5>2. S \subseteq Int /\ D[v] \subseteq S
          BY NothingBelowNull, NodeFacts DEF TheSides
        <5>3. Beyond(s, a, p)
          BY <3>2, <5>1, <5>2 DEF Beyond, Across, TheSides
        <5>4. \A z \in D[v] : Beyond(s, a, z)
          BY <3>2, <4>1, <5>2, <5>3, SideFacts
        <5> QED
          BY <5>4
      <4> QED
        BY <4>3, <4>4
    <3> QED
      BY <3>3, <3>4
  <2> QED
    BY <2>1, <2>2
<1>2. \A v \in S : v \in A
  <2> HIDE DEF A
  <2> QED
    BY <1>1, FromAbove
<1> QED
  BY <1>2

\* r is the node that follows x, from below it.
Heir(S, D, u, x, r) ==
    /\ Shaped(S, D, u) /\ x \in S /\ u.child[x]["left"] # 0 /\ u.child[x]["right"] # 0
    /\ r = ExtremeIn(u, u.child[x]["right"], "left")

\* Its parent is x, or has it as the left child.
Hangs(u, x, r) == u.parent[r] = x \/ u.child[u.parent[r]]["left"] = r

LEMMA HeirFacts ==
    ASSUME TreeKeys, NEW S, NEW D, NEW u, NEW x, NEW r, Heir(S, D, u, x, r)
    PROVE  /\ r \in S /\ r # x /\ u.child[r]["left"] = 0 /\ Stands(S \ {r}, x, r)
           /\ r \in D[u.child[x]["right"]] /\ r \in D[x] /\ u.parent[r] \in S
           /\ Hangs(u, x, r)
<1> DEFINE w == u.child[x]["right"]
           p == u.parent[r]
<1>1. Shaped(S, D, u) /\ x \in S /\ w # 0 /\ r = ExtremeIn(u, w, "left")
  BY DEF Heir
<1>2. "left" \in TheSides /\ "right" \in TheSides /\ Across("left") = "right" /\ Across("right") = "left"
  BY DEF TheSides, Across
<1>3. /\ w \in S /\ D[w] \subseteq D[x] /\ x \notin D[w] /\ D[x] \subseteq S /\ u.parent[w] = x
      /\ D[x] = {x} \cup D[w] \cup D[u.child[x]["left"]] /\ x \in D[x]
  BY <1>1, <1>2, NodeFacts
<1> HIDE DEF w
<1>4. /\ r \in D[w] /\ u.child[r]["left"] = 0
      /\ \A z \in D[w] : z = r \/ Beyond("right", r, z)
  BY <1>1, <1>2, <1>3, ExtremeIs
<1>5. r \in S /\ r # x /\ r \in D[x] /\ S \subseteq Int
  BY <1>1, <1>3, <1>4, NothingBelowNull
<1>6. (\A z \in D[w] : x < z) /\ (\A z \in D[u.child[x]["left"]] : z < x)
  <2>1. \A o \in TheSides : \A z \in D[u.child[x][o]] : Beyond(o, x, z)
    BY <1>1 DEF Shaped
  <2> QED
    BY <2>1, <1>2 DEF Beyond, w
<1>7. ASSUME NEW y \in S, y # r, y # x
      PROVE  (y < x => y < r) /\ (x < y => r < y)
  <2>1. CASE y \in D[x]
    <3>1. y \in D[w] => r < y
      BY <1>4, <1>7 DEF Beyond
    <3>2. x < r
      BY <1>4, <1>6
    <3> QED
      <4>1. y \in D[w] => x < y
        BY <1>6
      <4>2. y \notin D[w] => y < x
        BY <2>1, <1>3, <1>6, <1>7
      <4>3. x \in Int /\ y \in Int /\ r \in Int
        BY <1>1, <1>5
      <4> QED
        BY <3>1, <3>2, <4>1, <4>2, <4>3
  <2>2. CASE y \notin D[x]
    <3>1. PICK o \in TheSides : \A z \in D[x] : Beyond(o, y, z)
      BY <2>2, <1>1, OneSide
    <3>2. Beyond(o, y, x) /\ Beyond(o, y, r)
      BY <3>1, <1>3, <1>5
    <3> QED
      BY <3>2, <1>1, <1>5 DEF Beyond, TheSides
  <2> QED
    BY <2>1, <2>2
<1>8. Stands(S \ {r}, x, r)
  BY <1>1, <1>5, <1>7 DEF Stands, Beyond, TheSides
<1>9. p \in S /\ (p = x \/ u.child[p]["left"] = r)
  <2>1. CASE r = w
    BY <2>1, <1>1, <1>3
  <2>2. CASE r # w
    <3>1. p \in D[w]
      BY <2>2, <1>1, <1>3, <1>4, ParentWithin
    <3>2. p \in S /\ p # r
      BY <3>1, <1>1, <1>3, <1>5, ParentFacts
    <3>3. Beyond("right", r, p)
      BY <3>1, <3>2, <1>4
    <3>4. PICK o \in TheSides : u.child[p][o] = r /\ r \in D[r]
      <4>1. p # 0
        BY <3>2, <1>1, NothingBelowNull
      <4>2. \E o \in TheSides : u.child[p][o] = r
        BY <4>1, <1>1, <1>5, ParentFacts
      <4> QED
        BY <4>2, <1>1, <1>5, NodeFacts
    <3> HIDE DEF p
    <3>5. Beyond(o, p, r)
      BY <3>2, <3>4, <1>1 DEF Shaped
    <3>6. o = "left"
      BY <3>2, <3>3, <3>5, <1>5 DEF Beyond, TheSides
    <3> QED
      BY <3>2, <3>4, <3>6
  <2> QED
    BY <2>1, <2>2
<1>10. p \in S /\ Hangs(u, x, r)
  BY <1>9 DEF Hangs
<1> QED
  BY <1>4, <1>5, <1>8, <1>10 DEF w

\* Where the nodes are that the exchange of x and its heir touches.
LEMMA HeirPlaces ==
    ASSUME TreeKeys, NEW S, NEW D, NEW u, NEW x, NEW r, Heir(S, D, u, x, r)
    PROVE  LET q == u.parent[x]
               p == u.parent[r]
               l == u.child[x]["left"]
               w == u.child[x]["right"]
               c == u.child[r]["right"]
           IN /\ l \in S /\ w \in S /\ p \in S /\ q \in S \cup {0} /\ c \in S \cup {0}
              /\ q \notin {x, r} /\ p # r /\ l \notin {x, r} /\ w \notin {x, l}
              /\ c \notin {x, r, l, w}
              /\ u.parent[l] = x /\ u.parent[w] = x /\ (c # 0 => u.parent[c] = r)
              /\ (p = x <=> r = w) /\ x # r /\ (p = x \/ u.child[p]["left"] = r)
<1> DEFINE q == u.parent[x]
           p == u.parent[r]
           l == u.child[x]["left"]
           w == u.child[x]["right"]
           c == u.child[r]["right"]
<1>1. Shaped(S, D, u) /\ x \in S /\ l # 0 /\ w # 0
  BY DEF Heir
<1>2. "left" \in TheSides /\ "right" \in TheSides /\ Across("left") = "right"
  BY DEF TheSides, Across
<1>3. r \in S /\ r # x /\ r \in D[w] /\ r \in D[x] /\ p \in S
  <2>1. r \in S
    BY HeirFacts
  <2>3. x \notin D[u.child[x]["right"]]
    BY <1>1, <1>2, NodeFacts
  <2>4. u.parent[r] \in S
    BY HeirFacts
  <2>2. r \in D[u.child[x]["right"]] /\ r \in D[x]
    BY HeirFacts
  <2> QED
    BY <2>1, <2>2, <2>3, <2>4
<1>4. l \in S /\ l # x /\ u.parent[l] = x /\ l \in D[l] /\ D[l] \cap D[w] = {} /\ l # w
  <2>1. Shaped(S, D, u) /\ x \in S /\ "left" \in TheSides /\ u.child[x]["left"] # 0
    BY <1>1, <1>2
  <2>2. /\ u.child[x]["left"] \in S \cup {0} /\ u.child[x]["left"] # x
        /\ D[u.child[x]["left"]] \cap D[u.child[x][Across("left")]] = {}
        /\ u.child[x]["left"] \in D[u.child[x]["left"]]
        /\ u.child[x]["left"] # u.child[x][Across("left")]
        /\ u.parent[u.child[x]["left"]] = x
    BY <2>1, NodeFacts
  <2> QED
    BY <2>1, <2>2, <1>2
<1>5. w \in S /\ w # x /\ u.parent[w] = x
  BY <1>1, <1>2, NodeFacts
<1>6. c \in S \cup {0} /\ c # r /\ (c # 0 => u.parent[c] = r)
  BY <1>1, <1>2, <1>3, NodeFacts
<1>7. q \in S \cup {0} /\ q # x /\ q \notin D[x]
  BY <1>1, ParentFacts
<1>8. p # r
  BY <1>1, <1>3, ParentFacts
<1>9. 0 \notin S
  BY <1>1, NothingBelowNull
<1>10. c # x
  <2>1. c # 0 => c \in D[r]
    <3>1. c # 0 => c \in D[c] /\ D[c] \subseteq D[r]
      BY <1>1, <1>2, <1>3, NodeFacts
    <3> QED
      BY <3>1
  <2>2. x \notin D[r]
    BY <1>1, <1>3, NotAbove
  <2> QED
    BY <2>1, <2>2, <1>1, <1>9
<1>11. r # l
  BY <1>3, <1>4
<1>12. p = x => r = w
  <2>1. ASSUME p = x PROVE r = w
    <3>1. p # 0
      BY <1>3, <1>9
    <3>2. PICK o \in TheSides : u.child[p][o] = r
      BY <3>1, <1>1, <1>3, ParentFacts
    <3> QED
      BY <2>1, <3>2, <1>11 DEF TheSides
  <2> QED
    BY <2>1
<1>15. x # r
  BY <1>3
<1>16. p = x \/ u.child[p]["left"] = r
  <2>1. Hangs(u, x, r)
    BY HeirFacts
  <2> QED
    BY <2>1 DEF Hangs
<1> HIDE DEF q, p, l, w, c
<1>13. c # l /\ c # w
  BY <1>1, <1>3, <1>4, <1>5, <1>6
<1>14. r = w => p = x
  BY <1>5 DEF p
<1> QED
  BY <1>3, <1>4, <1>5, <1>6, <1>7, <1>8, <1>10, <1>11, <1>12, <1>13, <1>14, <1>15, <1>16 DEF q, p, l, w, c

LEMMA SetChildIs ==
    ASSUME NEW u \in Trees, NEW p \in RbKeys, NEW s \in TheSides, NEW y \in Links
    PROVE  /\ RB!SetChild(u, p, s, y) \in Trees /\ RB!SetChild(u, p, s, y).root = u.root
           /\ RB!SetChild(u, p, s, y).parent = u.parent
           /\ RB!SetChild(u, p, s, y).color = u.color
           /\ \A z \in RbKeys, o \in TheSides : RB!SetChild(u, p, s, y).child[z][o] =
                 IF z = p /\ o = s THEN y ELSE u.child[z][o]
BY SetChildForm DEF RB!SetChild

\* The heir has been pulled out of its own place, if it was not next to x.
Pulled(t1, x, r, v) ==
    LET p == t1.parent[r]
        c == t1.child[r]["right"]
        w == t1.child[x]["right"]
    IN /\ v \in Trees /\ v.root = t1.root /\ v.color = t1.color
       /\ \A z \in RbKeys, o \in TheSides : v.child[z][o] =
             IF p = x THEN t1.child[z][o]
             ELSE IF z = r /\ o = "right" THEN w
             ELSE IF z = p /\ o = "left" THEN c ELSE t1.child[z][o]
       /\ \A z \in RbKeys : v.parent[z] =
             IF p = x THEN t1.parent[z]
             ELSE IF z = w THEN r ELSE IF z = c THEN p ELSE t1.parent[z]

LEMMA PullOutForm ==
    ASSUME 0 \notin RbKeys, NEW u \in Trees, NEW x \in RbKeys, NEW r \in RbKeys,
           u.parent[r] \in RbKeys
    PROVE  Pulled(u, x, r, RB!PullOut(u, x, r))
<1> DEFINE p == u.parent[r]
           c == u.child[r]["right"]
           w == u.child[x]["right"]
           a1 == RB!SetParent(u, c, p)
           a2 == RB!SetChild(a1, p, "left", c)
           a3 == RB!SetChild(a2, r, "right", w)
           v == RB!SetParent(a3, w, r)
<1>1. /\ p \in Links /\ c \in Links /\ w \in Links /\ r \in Links /\ p \in RbKeys
      /\ "left" \in TheSides /\ "right" \in TheSides
  BY DEF Trees, Links, TheSides
<1>2. CASE p = x
  <2>1. RB!PullOut(u, x, r) = u
    BY <1>2 DEF RB!PullOut
  <2> QED
    BY <2>1, <1>2 DEF Pulled
<1>3. CASE p # x
  <2>1. RB!PullOut(u, x, r) = v
    BY <1>3 DEF RB!PullOut
  <2> HIDE DEF p, c, w
  <2>2. /\ a1 \in Trees /\ a1.root = u.root /\ a1.child = u.child /\ a1.color = u.color
        /\ \A z \in RbKeys : a1.parent[z] = IF c # 0 /\ z = c THEN p ELSE u.parent[z]
    BY <1>1, SetParentForm
  <2> HIDE DEF a1
  <2>3. /\ a2 \in Trees /\ a2.root = a1.root /\ a2.parent = a1.parent /\ a2.color = a1.color
        /\ \A z \in RbKeys, o \in TheSides : a2.child[z][o] =
              IF z = p /\ o = "left" THEN c ELSE a1.child[z][o]
    <3>1. a1 \in Trees /\ p \in RbKeys /\ "left" \in TheSides /\ c \in Links
      BY <1>1, <2>2
    <3> QED
      BY <3>1, SetChildIs
  <2> HIDE DEF a2
  <2>4. /\ a3 \in Trees /\ a3.root = a2.root /\ a3.parent = a2.parent /\ a3.color = a2.color
        /\ \A z \in RbKeys, o \in TheSides : a3.child[z][o] =
              IF z = r /\ o = "right" THEN w ELSE a2.child[z][o]
    BY <1>1, <2>3, SetChildIs
  <2> HIDE DEF a3
  <2>5. /\ v \in Trees /\ v.root = a3.root /\ v.child = a3.child /\ v.color = a3.color
        /\ \A z \in RbKeys : v.parent[z] = IF w # 0 /\ z = w THEN r ELSE a3.parent[z]
    <3>1. a3 \in Trees /\ w \in Links /\ r \in Links
      BY <1>1, <2>4
    <3> QED
      BY <3>1, SetParentForm
  <2> HIDE DEF v
  <2>6. v.root = u.root /\ v.color = u.color
    BY <2>2, <2>3, <2>4, <2>5
  <2>7. \A z \in RbKeys, o \in TheSides : v.child[z][o] =
            IF z = r /\ o = "right" THEN w
            ELSE IF z = p /\ o = "left" THEN c ELSE u.child[z][o]
    BY <2>2, <2>3, <2>4, <2>5
  <2>8. \A z \in RbKeys : v.parent[z] = IF z = w THEN r ELSE IF z = c THEN p ELSE u.parent[z]
    <3> SUFFICES ASSUME NEW z \in RbKeys
                 PROVE  v.parent[z] = IF z = w THEN r ELSE IF z = c THEN p ELSE u.parent[z]
      OBVIOUS
    <3>1. z # 0 /\ v.parent[z] = IF w # 0 /\ z = w THEN r ELSE a3.parent[z]
      BY <2>5
    <3>2. a3.parent = a1.parent
      BY <2>3, <2>4
    <3>3. a1.parent[z] = IF c # 0 /\ z = c THEN p ELSE u.parent[z]
      BY <2>2
    <3> QED
      BY <3>1, <3>2, <3>3
  <2> QED
    BY <2>1, <2>5, <2>6, <2>7, <2>8, <1>3 DEF Pulled, p, c, w
<1> QED
  BY <1>2, <1>3

\* The heir has taken over the parent, the colour and the left child of x.
TakenOver(k, x, r, v) ==
    LET l == k.child[x]["left"]
    IN /\ v \in Trees /\ v.root = k.root
       /\ \A z \in RbKeys, o \in TheSides : v.child[z][o] =
             IF z = r /\ o = "left" THEN l ELSE k.child[z][o]
       /\ \A z \in RbKeys : v.parent[z] =
             IF z = l THEN r ELSE IF z = r THEN k.parent[x] ELSE k.parent[z]
       /\ \A z \in RbKeys : v.color[z] = IF z = r THEN k.color[x] ELSE k.color[z]

LEMMA TakeOverForm ==
    ASSUME 0 \notin RbKeys, NEW k \in Trees, NEW x \in RbKeys, NEW r \in RbKeys
    PROVE  TakenOver(k, x, r, RB!TakeOver(k, x, r))
<1> DEFINE l == k.child[x]["left"]
           e == k.color[x]
           q == k.parent[x]
           a1 == RB!Paint(k, r, e)
           a2 == RB!SetParent(a1, r, q)
           a3 == RB!SetChild(a2, r, "left", l)
           v == RB!SetParent(a3, l, r)
<1>1. l \in Links /\ q \in Links /\ r \in Links /\ r # 0 /\ e \in {0, 1} /\ "left" \in TheSides
  BY DEF Trees, Links, TheSides
<1>2. RB!TakeOver(k, x, r) = v
  BY DEF RB!TakeOver
<1> HIDE DEF l, e, q
<1>3. Painted(k, r, e, a1)
  BY <1>1, PaintForm
<1>4. /\ a1 \in Trees /\ a1.root = k.root /\ a1.child = k.child /\ a1.parent = k.parent
      /\ \A z \in RbKeys : a1.color[z] = IF z = r THEN e ELSE k.color[z]
  BY <1>3 DEF Painted
<1> HIDE DEF a1
<1>5. /\ a2 \in Trees /\ a2.root = a1.root /\ a2.child = a1.child /\ a2.color = a1.color
      /\ \A z \in RbKeys : a2.parent[z] = IF r # 0 /\ z = r THEN q ELSE a1.parent[z]
  <2>1. a1 \in Trees /\ r \in Links /\ q \in Links
    BY <1>1, <1>4
  <2> QED
    BY <2>1, SetParentForm
<1> HIDE DEF a2
<1>6. /\ a3 \in Trees /\ a3.root = a2.root /\ a3.parent = a2.parent /\ a3.color = a2.color
      /\ \A z \in RbKeys, o \in TheSides : a3.child[z][o] =
            IF z = r /\ o = "left" THEN l ELSE a2.child[z][o]
  <2>1. a2 \in Trees /\ r \in RbKeys /\ "left" \in TheSides /\ l \in Links
    BY <1>1, <1>5
  <2> QED
    BY <2>1, SetChildIs
<1> HIDE DEF a3
<1>7. /\ v \in Trees /\ v.root = a3.root /\ v.child = a3.child /\ v.color = a3.color
      /\ \A z \in RbKeys : v.parent[z] = IF l # 0 /\ z = l THEN r ELSE a3.parent[z]
  <2>1. a3 \in Trees /\ l \in Links /\ r \in Links
    BY <1>1, <1>6
  <2> QED
    BY <2>1, SetParentForm
<1> HIDE DEF v
<1>8. /\ v.root = k.root
      /\ \A z \in RbKeys, o \in TheSides : v.child[z][o] =
            IF z = r /\ o = "left" THEN l ELSE k.child[z][o]
      /\ \A z \in RbKeys : v.parent[z] =
            IF z = l THEN r ELSE IF z = r THEN q ELSE k.parent[z]
      /\ \A z \in RbKeys : v.color[z] = IF z = r THEN e ELSE k.color[z]
  BY <1>1, <1>4, <1>5, <1>6, <1>7
<1> QED
  BY <1>2, <1>7, <1>8 DEF TakenOver, l, e, q

\* The exchange is that the heir leaves its own place, and has then that of x.
LEMMA SupersedeForm ==
    ASSUME TreeKeys, NEW S, NEW D, NEW u, NEW x, NEW r, Heir(S, D, u, x, r)
    PROVE  \E w : /\ Spliced(u, r, u.child[r]["right"], w)
                  /\ Superseded(w, x, r, RB!Supersede(u, x, r))
<1> DEFINE q == u.parent[x]
           p == u.parent[r]
           l == u.child[x]["left"]
           e == u.child[x]["right"]
           c == u.child[r]["right"]
           w == RB!SpliceOut(u, r, c)
           t1 == RB!Replace(u, x, r)
           k == RB!PullOut(t1, x, r)
           j == RB!TakeOver(k, x, r)
           v == RB!Freed(j, x)
<1>1. Shaped(S, D, u) /\ x \in S
  BY DEF Heir
<1>2. r \in S
  BY HeirFacts
<1>3. /\ l \in S /\ e \in S /\ p \in S /\ q \in S \cup {0} /\ c \in S \cup {0}
      /\ q \notin {x, r} /\ p # r /\ l \notin {x, r} /\ e \notin {x, l}
      /\ c \notin {x, r, l, e}
      /\ u.parent[l] = x /\ u.parent[e] = x /\ (c # 0 => u.parent[c] = r)
      /\ (p = x <=> r = e) /\ x # r /\ (p = x \/ u.child[p]["left"] = r)
  BY HeirPlaces
<1>4. /\ 0 \notin S /\ S \subseteq Links /\ S \subseteq RbKeys /\ 0 \notin RbKeys /\ u \in Trees
      /\ c \in Links
  <2>1. /\ 0 \notin S /\ S \subseteq Links /\ S \subseteq RbKeys /\ 0 \notin RbKeys /\ u \in Trees
    <3>1. /\ 0 \notin S /\ S \subseteq Links /\ S \subseteq RbKeys
      BY <1>1, NothingBelowNull
    <3> QED
      BY <3>1, <1>1 DEF TreeKeys, Shaped
  <2> QED
    BY <2>1, <1>3 DEF Links
<1>5. \A z \in TheSides : z = "left" \/ z = "right"
  BY DEF TheSides
<1>6. "left" \in TheSides /\ "right" \in TheSides /\ Across("left") = "right"
  BY DEF TheSides, Across
<1>7. p # x => u.child[p]["left"] = r /\ u.child[p]["right"] # r
  <2> SUFFICES ASSUME p # x PROVE u.child[p]["left"] = r /\ u.child[p]["right"] # r
    OBVIOUS
  <2>1. u.child[p]["left"] = r
    BY <1>3
  <2>2. Shaped(S, D, u) /\ p \in S /\ "left" \in TheSides /\ u.child[p]["left"] # 0
    BY <2>1, <1>1, <1>2, <1>3, <1>4, <1>6
  <2>3. u.child[p]["left"] # u.child[p][Across("left")]
    BY <2>2, NodeFacts
  <2> QED
    BY <2>1, <2>3, <1>6
<1>8. \A z \in RbKeys : u.parent[z] = x => z \in {l, e}
  <2> SUFFICES ASSUME NEW z \in RbKeys, u.parent[z] = x PROVE z \in {l, e}
    OBVIOUS
  <2>1. x # 0
    BY <1>1, <1>4
  <2>2. z \in S
    BY <2>1, <1>1 DEF Shaped
  <2>3. \E o \in TheSides : u.child[x][o] = z
    BY <2>1, <2>2, <1>1, ParentFacts
  <2> QED
    BY <2>3, <1>5
<1>9. \A z \in RbKeys, o \in TheSides : u.child[z][o] = x => z = q
  <2> SUFFICES ASSUME NEW z \in RbKeys, NEW o \in TheSides, u.child[z][o] = x PROVE z = q
    OBVIOUS
  <2>1. x # 0
    BY <1>1, <1>4
  <2>2. z \in S
    BY <2>1, <1>1 DEF Shaped
  <2> QED
    BY <2>1, <2>2, <1>1 DEF Shaped
<1>10. RB!Supersede(u, x, r) = v
  BY DEF RB!Supersede
<1>11. u.child[x]["left"] = l /\ u.child[x]["right"] = e /\ u.child[r]["right"] = c
  OBVIOUS
<1>12. u.parent[x] = q /\ u.parent[r] = p
  OBVIOUS
<1> HIDE DEF q, p, l, e, c
<1>13. Spliced(u, r, c, w)
  BY <1>1, <1>2, <1>4, SpliceForm
<1> HIDE DEF w
<1>14. /\ w.root = u.root
       /\ \A z \in RbKeys, o \in TheSides : w.child[z][o] =
             IF z = r THEN 0 ELSE IF z = p /\ u.child[z][o] = r THEN c ELSE u.child[z][o]
       /\ \A z \in RbKeys : w.parent[z] = IF z = r THEN 0 ELSE IF z = c THEN p ELSE u.parent[z]
       /\ \A z \in RbKeys : w.color[z] = IF z = r THEN 1 ELSE u.color[z]
  BY <1>3, <1>4, <1>12, <1>13 DEF Spliced
<1>15. /\ t1 \in Trees /\ t1.root = (IF q = 0 THEN r ELSE u.root)
       /\ t1.parent = u.parent /\ t1.color = u.color
       /\ \A z \in RbKeys, o \in TheSides : t1.child[z][o] =
             IF z = q /\ u.child[z][o] = x THEN r ELSE u.child[z][o]
  <2>1. r \in Links
    BY <1>2, <1>4
  <2> QED
    BY <2>1, <1>1, <1>12, ReplaceIs
<1> HIDE DEF t1
<1>16. /\ t1.child[r]["right"] = c /\ t1.child[x]["right"] = e /\ t1.parent[r] = p
       /\ t1.child[x]["left"] = l
  BY <1>1, <1>2, <1>3, <1>4, <1>6, <1>11, <1>12, <1>15
<1>17. Pulled(t1, x, r, k)
  <2>1. 0 \notin RbKeys /\ t1 \in Trees /\ x \in RbKeys /\ r \in RbKeys /\ t1.parent[r] \in RbKeys
    BY <1>1, <1>2, <1>3, <1>4, <1>15, <1>16
  <2> QED
    BY <2>1, PullOutForm
<1> HIDE DEF k
<1>18. /\ k \in Trees /\ k.root = t1.root /\ k.color = t1.color
       /\ \A z \in RbKeys, o \in TheSides : k.child[z][o] =
             IF p = x THEN t1.child[z][o]
             ELSE IF z = r /\ o = "right" THEN e
             ELSE IF z = p /\ o = "left" THEN c ELSE t1.child[z][o]
       /\ \A z \in RbKeys : k.parent[z] =
             IF p = x THEN t1.parent[z]
             ELSE IF z = e THEN r ELSE IF z = c THEN p ELSE t1.parent[z]
  BY <1>16, <1>17 DEF Pulled
<1>19. TakenOver(k, x, r, j)
  <2>1. 0 \notin RbKeys /\ k \in Trees /\ x \in RbKeys /\ r \in RbKeys
    BY <1>1, <1>2, <1>4, <1>18
  <2> QED
    BY <2>1, TakeOverForm
<1>20. /\ k.child[x]["left"] = l /\ k.parent[x] = q /\ k.color[x] = u.color[x]
  <2>2. x \in RbKeys /\ x # r /\ x # e /\ x # c
    BY <1>1, <1>3, <1>4, <1>7, <1>11
  <2> QED
    BY <2>2, <1>6, <1>12, <1>15, <1>16, <1>18
<1> HIDE DEF j
<1>21. /\ j \in Trees /\ j.root = k.root
       /\ \A z \in RbKeys, o \in TheSides : j.child[z][o] =
             IF z = r /\ o = "left" THEN l ELSE k.child[z][o]
       /\ \A z \in RbKeys : j.parent[z] =
             IF z = l THEN r ELSE IF z = r THEN q ELSE k.parent[z]
       /\ \A z \in RbKeys : j.color[z] = IF z = r THEN u.color[x] ELSE k.color[z]
  BY <1>19, <1>20 DEF TakenOver
<1>22. /\ v \in Trees /\ v.root = j.root
       /\ \A z \in RbKeys, o \in TheSides : v.child[z][o] = IF z = x THEN 0 ELSE j.child[z][o]
       /\ \A z \in RbKeys : v.parent[z] = IF z = x THEN 0 ELSE j.parent[z]
       /\ \A z \in RbKeys : v.color[z] = IF z = x THEN 1 ELSE j.color[z]
  <2>1. j \in Trees /\ x \in RbKeys
    BY <1>1, <1>4, <1>21
  <2> QED
    BY <2>1, FreedForm
<1> HIDE DEF v
<1>23. w.parent[x] = q /\ w.color[x] = u.color[x] /\ x # r
  <2>1. x # r
    BY <1>3
  <2> QED
    BY <2>1, <1>1, <1>3, <1>4, <1>12, <1>14
<1>24. v.root = IF w.parent[x] = 0 THEN r ELSE w.root
  BY <1>14, <1>15, <1>18, <1>21, <1>22, <1>23
<1>25. \A o \in TheSides : w.child[x][o] = IF o = "left" THEN l ELSE IF p = x THEN c ELSE e
  <2> SUFFICES ASSUME NEW o \in TheSides
               PROVE  w.child[x][o] = IF o = "left" THEN l ELSE IF p = x THEN c ELSE e
    OBVIOUS
  <2>1. w.child[x][o] = IF x = p /\ u.child[x][o] = r THEN c ELSE u.child[x][o]
    BY <1>1, <1>4, <1>14, <1>23
  <2>2. CASE o = "left"
    BY <2>1, <2>2, <1>3, <1>11
  <2>3. CASE o = "right"
    BY <2>1, <2>3, <1>3, <1>11
  <2> QED
    BY <2>2, <2>3, <1>5
<1>26. ASSUME NEW z \in RbKeys, NEW o \in TheSides
       PROVE  v.child[z][o] = IF z = x THEN 0 ELSE IF z = r THEN w.child[x][o]
                              ELSE IF w.child[z][o] = x THEN r ELSE w.child[z][o]
  <2>1. CASE z = x
    BY <2>1, <1>22
  <2>2. CASE z = r
    <3>1. v.child[r][o] = IF o = "left" THEN l ELSE k.child[r][o]
      BY <2>2, <1>21, <1>22, <1>23
    <3>2. o = "right" => k.child[r][o] = IF p = x THEN c ELSE e
      BY <2>2, <1>16, <1>18
    <3> QED
      BY <2>2, <3>1, <3>2, <1>5, <1>23, <1>25
  <2>3. CASE z \notin {x, r}
    <3>1. v.child[z][o] = IF p # x /\ z = p /\ o = "left" THEN c
                          ELSE IF z = q /\ u.child[z][o] = x THEN r ELSE u.child[z][o]
      BY <2>3, <1>15, <1>18, <1>21, <1>22
    <3>2. w.child[z][o] = IF z = p /\ u.child[z][o] = r THEN c ELSE u.child[z][o]
      BY <2>3, <1>14
    <3>3. z = p => (u.child[z][o] = r <=> o = "left")
      BY <2>3, <1>5, <1>7
    <3>4. u.child[z][o] = x => z = q
      BY <1>9
    <3> QED
      BY <2>3, <3>1, <3>2, <3>3, <3>4, <1>3, <1>23
  <2> QED
    BY <2>1, <2>2, <2>3
<1>27. ASSUME NEW z \in RbKeys
       PROVE  v.parent[z] = IF z = x THEN 0 ELSE IF z = r THEN w.parent[x]
                            ELSE IF w.parent[z] = x THEN r ELSE w.parent[z]
  <2>1. CASE z = x
    BY <2>1, <1>22
  <2>2. CASE z = r
    BY <2>2, <1>3, <1>21, <1>22, <1>23
  <2>3. CASE z \notin {x, r}
    <3>1. v.parent[z] = IF z = l THEN r
                        ELSE IF p = x THEN u.parent[z]
                        ELSE IF z = e THEN r ELSE IF z = c THEN p ELSE u.parent[z]
      BY <2>3, <1>15, <1>18, <1>21, <1>22
    <3>2. w.parent[z] = IF z = c THEN p ELSE u.parent[z]
      BY <2>3, <1>14
    <3>3. z = c => u.parent[z] = r
      BY <1>3, <1>4
    <3> QED
      BY <2>3, <3>1, <3>2, <3>3, <1>3, <1>8, <1>23
  <2> QED
    BY <2>1, <2>2, <2>3
<1>28. \A z \in RbKeys : v.color[z] =
          IF z = x THEN 1 ELSE IF z = r THEN w.color[x] ELSE w.color[z]
  <2> SUFFICES ASSUME NEW z \in RbKeys
               PROVE  v.color[z] = IF z = x THEN 1 ELSE IF z = r THEN w.color[x] ELSE w.color[z]
    OBVIOUS
  <2>1. v.color[z] = IF z = x THEN 1 ELSE j.color[z]
    BY <1>22
  <2>2. j.color[z] = IF z = r THEN u.color[x] ELSE k.color[z]
    BY <1>21
  <2>3. k.color = u.color
    BY <1>15, <1>18
  <2>4. w.color[z] = IF z = r THEN 1 ELSE u.color[z]
    BY <1>14
  <2> QED
    BY <2>1, <2>2, <2>3, <2>4, <1>23
<1>29. Superseded(w, x, r, v)
  BY <1>22, <1>24, <1>26, <1>27, <1>28 DEF Superseded
<1> QED
  BY <1>10, <1>11, <1>13, <1>29

-----------------------------------------------------------------------------
(* Between two operations, and after an unlink.                            *)

\* u is a red-black tree of the keys S.
RedBlackTree(S, D, H, u) ==
    /\ Shaped(S, D, u) /\ Coloured(S, u, H, 0, "left", 0, 0)
    /\ u.root = 0 \/ u.color[u.root] = 1

LEMMA RootBlack ==
    ASSUME TreeKeys, NEW S, NEW D, NEW H, NEW u, RedBlackTree(S, D, H, u), NEW x \in S
    PROVE  u.root # 0 /\ u.color[u.root] = 1
<1>1. Shaped(S, D, u)
  BY DEF RedBlackTree
<1>2. u.root # 0
  BY <1>1, NothingBelowNull DEF Shaped
<1> QED
  BY <1>2 DEF RedBlackTree

\* After a node with a free side leaves its place to its other child, there is a
\* red-black tree, or there is a black node less above that child.
LEMMA SplicedTree ==
    ASSUME TreeKeys, NEW S, NEW D, NEW H, NEW u, RedBlackTree(S, D, H, u),
           NEW x \in S, NEW e \in TheSides, u.child[x][Across(e)] = 0,
           NEW v, Spliced(u, x, u.child[x][e], v)
    PROVE  /\ u.color[x] = 0 => \E E : RedBlackTree(S \ {x}, E, H, v)
           /\ u.color[x] = 1 => \E E : Lacking(S \ {x}, E, H, v, u.child[x][e], u.parent[x])
<1> DEFINE c == u.child[x][e]
           q == u.parent[x]
<1>1. /\ Shaped(S, D, u) /\ Coloured(S, u, H, 0, "left", 0, 0) /\ u.color[u.root] = 1
  BY RootBlack DEF RedBlackTree
<1>2. PICK E : Shaped(S \ {x}, E, v)
  BY <1>1, SplicedShape
<1>3. /\ u.color[x] = 0 =>
            q # 0 /\ (c = 0 \/ v.color[c] # 0) /\ Coloured(S \ {x}, v, H, 0, "left", 0, 0)
      /\ u.color[x] = 1 /\ q = 0 => Coloured(S \ {x}, v, H, 0, "left", c, c)
      /\ u.color[x] = 1 /\ q # 0 =>
            \E o \in TheSides : /\ v.child[q][o] = c /\ u.child[q][o] = x
                                /\ Coloured(S \ {x}, v, H, q, o, c, c)
      /\ q # 0 => q \in S \ {x} /\ v.root = u.root /\ v.color[v.root] = 1
      /\ q = 0 => v.root = c
  <2>1. Paled(S, H, u, x, c, v)
    BY <1>1, SplicedColours
  <2> QED
    BY <2>1 DEF Paled
<1> HIDE DEF c, q
<1>4. u.color[x] = 0 => RedBlackTree(S \ {x}, E, H, v)
  BY <1>2, <1>3 DEF RedBlackTree
<1>5. u.color[x] = 1 => Lacking(S \ {x}, E, H, v, c, q)
  <2>1. CASE q = 0
    BY <2>1, <1>2, <1>3 DEF Lacking
  <2>2. CASE q # 0
    BY <2>2, <1>2, <1>3 DEF Lacking
  <2> QED
    BY <2>1, <2>2
<1> QED
  BY <1>4, <1>5 DEF c, q

\* The same when x leaves its place to its heir, for the place of the heir.
LEMMA SupersededTree ==
    ASSUME TreeKeys, NEW S, NEW D, NEW H, NEW u, RedBlackTree(S, D, H, u),
           NEW x, NEW r, Heir(S, D, u, x, r), NEW v, v = RB!Supersede(u, x, r)
    PROVE  /\ u.color[r] = 0 => \E E, G : RedBlackTree(S \ {x}, E, G, v)
           /\ u.color[r] = 1 => \E E, G : Lacking(S \ {x}, E, G, v, u.child[r]["right"],
                                             IF u.parent[r] = x THEN r ELSE u.parent[r])
<1> DEFINE q == u.parent[r]
           c == u.child[r]["right"]
           T == S \ {r}
           p == IF q = x THEN r ELSE q
<1>1. /\ Shaped(S, D, u) /\ Coloured(S, u, H, 0, "left", 0, 0) /\ x \in S /\ u.color[u.root] = 1
  BY RootBlack DEF RedBlackTree, Heir
<1>2. /\ r \in S /\ u.child[r]["left"] = 0 /\ Stands(S \ {r}, x, r)
  BY HeirFacts
<1>3. /\ q \in S /\ q # r /\ c \in S \cup {0} /\ c \notin {x, r} /\ x # r
  BY HeirPlaces
<1>4. /\ 0 \notin S /\ S \subseteq RbKeys
  BY <1>1, NothingBelowNull
<1>5. PICK w : Spliced(u, r, c, w) /\ Superseded(w, x, r, v)
  BY SupersedeForm
<1>6. "right" \in TheSides /\ Across("right") = "left"
  BY DEF TheSides, Across
<1>7. u.child[r][Across("right")] = 0
  BY <1>2, <1>6
<1>8. PICK E : Shaped(T, E, w)
  BY <1>1, <1>2, <1>5, <1>6, <1>7, SplicedShape
<1>9. /\ u.color[r] = 0 => Coloured(T, w, H, 0, "left", 0, 0)
      /\ u.color[r] = 1 =>
            \E o \in TheSides : w.child[q][o] = c /\ Coloured(T, w, H, q, o, c, c)
      /\ w.root = u.root /\ w.color[w.root] = 1
  <2>1. q # 0
    BY <1>3, <1>4
  <2>2. Paled(S, H, u, r, c, w)
    BY <1>1, <1>2, <1>5, <1>6, <1>7, SplicedColours
  <2> QED
    BY <2>1, <2>2 DEF Paled
<1>10. x \in T /\ r \in RbKeys \ T /\ (T \ {x}) \cup {r} = S \ {x}
  BY <1>1, <1>2, <1>3, <1>4
<1>11. PICK F : Shaped(S \ {x}, F, v)
  <2>1. \E F : Shaped((T \ {x}) \cup {r}, F, v)
    BY <1>2, <1>5, <1>8, <1>10, SupersededShape
  <2> QED
    BY <2>1, <1>10
<1> HIDE DEF q, c
<1>12. v.color[v.root] = 1
  <2>1. /\ v.root = IF w.parent[x] = 0 THEN r ELSE w.root
        /\ \A z \in RbKeys : v.color[z] =
              IF z = x THEN 1 ELSE IF z = r THEN w.color[x] ELSE w.color[z]
    BY <1>5 DEF Superseded
  <2>2. w.parent[x] = 0 => w.root = x
    BY <1>8, <1>10, ParentFacts
  <2>3. w.root \in T
    <3>1. w.root \in T \cup {0} /\ (w.root = 0 => T = {})
      <4>1. E[0] = {}
        BY <1>8, NothingBelowNull
      <4>2. w.root \in T \cup {0} /\ E[w.root] = T
        BY <1>8 DEF Shaped
      <4> QED
        BY <4>1, <4>2
    <3> QED
      BY <3>1, <1>10
  <2>4. r \in RbKeys /\ w.root \in RbKeys /\ w.root # r
    BY <2>3, <1>4, <1>10
  <2>5. CASE w.parent[x] = 0
    BY <2>1, <2>2, <2>4, <2>5, <1>3, <1>9
  <2>6. CASE w.parent[x] # 0
    BY <2>1, <2>4, <2>6, <1>9
  <2> QED
    BY <2>5, <2>6
<1>13. u.color[r] = 0 => \E G : RedBlackTree(S \ {x}, F, G, v)
  <2> SUFFICES ASSUME u.color[r] = 0 PROVE \E G : RedBlackTree(S \ {x}, F, G, v)
    OBVIOUS
  <2>1. /\ Shaped(T, E, w) /\ Coloured(T, w, H, 0, "left", 0, 0) /\ 0 \in T \cup {0}
        /\ x \notin {0, 0} /\ r \notin {0, 0} /\ x \in T /\ r \in RbKeys \ T
        /\ Superseded(w, x, r, v)
    BY <1>1, <1>2, <1>4, <1>5, <1>8, <1>9, <1>10
  <2>2. \E G : Coloured((T \ {x}) \cup {r}, v, G, IF 0 = x THEN r ELSE 0, "left", 0, 0)
    BY <2>1, SupersededColours
  <2>3. PICK G : Coloured(S \ {x}, v, G, 0, "left", 0, 0)
    BY <2>1, <2>2, <1>10
  <2>4. RedBlackTree(S \ {x}, F, G, v)
    BY <2>3, <1>11, <1>12 DEF RedBlackTree
  <2> QED
    BY <2>4
<1>14. u.color[r] = 1 => \E G : Lacking(S \ {x}, F, G, v, c, p)
  <2> SUFFICES ASSUME u.color[r] = 1 PROVE \E G : Lacking(S \ {x}, F, G, v, c, p)
    OBVIOUS
  <2>1. PICK o \in TheSides : w.child[q][o] = c /\ Coloured(T, w, H, q, o, c, c)
    BY <1>9
  <2>2. /\ Shaped(T, E, w) /\ Coloured(T, w, H, q, o, c, c) /\ q \in T \cup {0}
        /\ x \notin {c, c} /\ r \notin {c, c} /\ x \in T /\ r \in RbKeys \ T
        /\ Superseded(w, x, r, v)
    BY <2>1, <1>3, <1>5, <1>8, <1>10
  <2>3. \E G : Coloured((T \ {x}) \cup {r}, v, G, IF q = x THEN r ELSE q, o, c, c)
    BY <2>2, SMTT(60), SupersededColours
  <2>4. PICK G : Coloured(S \ {x}, v, G, p, o, c, c)
    BY <2>3, <1>10
  <2>5. p \in S \ {x} /\ v.child[p][o] = c
    <3>1. \A z \in RbKeys, a \in TheSides : v.child[z][a] =
             IF z = x THEN 0 ELSE IF z = r THEN w.child[x][a]
             ELSE IF w.child[z][a] = x THEN r ELSE w.child[z][a]
      BY <1>5 DEF Superseded
    <3>2. CASE q = x
      BY <3>1, <3>2, <2>1, <1>2, <1>3, <1>4
    <3>3. CASE q # x
      BY <3>1, <3>3, <2>1, <1>2, <1>3, <1>4
    <3> QED
      BY <3>2, <3>3
  <2> HIDE DEF p
  <2>6. Lacking(S \ {x}, F, G, v, c, p)
    BY <2>1, <2>4, <2>5, <1>11, <1>12 DEF Lacking
  <2> QED
    BY <2>6
<1> QED
  BY <1>13, <1>14 DEF q, c

-----------------------------------------------------------------------------
(* What the operations make of a red-black tree.                           *)

LEMMA InsertedTree ==
    ASSUME TreeKeys, NEW S, NEW D, NEW H, NEW u, RedBlackTree(S, D, H, u), NEW key \in RbKeys \ S
    PROVE  \E E, G : Growing(S \cup {key}, E, G, InsertIn(u, key), key)
<1>1. Shaped(S, D, u) /\ Coloured(S, u, H, 0, "left", 0, 0)
  BY DEF RedBlackTree
<1>2. PICK E : Shaped(S \cup {key}, E, InsertIn(u, key))
  BY <1>1, InsertedShape
<1>3. /\ \E G : Coloured(S \cup {key}, InsertIn(u, key), G, 0, "left", 0, key)
      /\ InsertIn(u, key).color[key] = 0
      /\ InsertIn(u, key).root # key => /\ u.root # 0 /\ InsertIn(u, key).root = u.root
                                        /\ InsertIn(u, key).color[u.root] = u.color[u.root]
  <2>1. /\ Shaped(S, D, u) /\ key \in RbKeys \ S
        /\ Coloured(S, u, H, 0, "left", 0, 0)
    BY <1>1
  <2>2. NewLeaf(S, u, InsertIn(u, key), key, "left")
    BY <2>1, InsertedColours
  <2> QED
    BY <2>2 DEF NewLeaf
<1>4. PICK G : Coloured(S \cup {key}, InsertIn(u, key), G, 0, "left", 0, key)
  BY <1>3
<1>5. InsertIn(u, key).root = key \/ InsertIn(u, key).color[InsertIn(u, key).root] = 1
  BY <1>3 DEF RedBlackTree
<1>6. Growing(S \cup {key}, E, G, InsertIn(u, key), key)
  BY <1>2, <1>3, <1>4, <1>5 DEF Growing
<1> QED
  BY <1>6

LEMMA GrownEnd ==
    ASSUME TreeKeys, NEW S, NEW D, NEW H, NEW u, NEW n, Growing(S, D, H, u, n),
           ~RB!RedIn(u, u.parent[n])
    PROVE  \E G : RedBlackTree(S, D, G, RB!Paint(u, u.root, 1))
<1> DEFINE r == u.root
           v == RB!Paint(u, r, 1)
<1>1. Shaped(S, D, u) /\ Coloured(S, u, H, 0, "left", 0, n) /\ n \in S
  BY DEF Growing
<1>2. 0 \notin S /\ S \subseteq RbKeys /\ r \in S
  <2>1. /\ 0 \notin S /\ S \subseteq RbKeys /\ (u.root = 0 => S = {})
        /\ (u.root # 0 => u.root \in S)
    BY <1>1, NothingBelowNull
  <2> QED
    BY <2>1, <1>1
<1>3. Paired(S, u, r, r)
  <2> SUFFICES ASSUME NEW z \in S, NEW o \in TheSides PROVE FitsIn(u, z, u.child[z][o], r, r)
    BY DEF Paired
  <2>1. FitsIn(u, z, u.child[z][o], 0, n) /\ z # 0
    BY <1>1, <1>2, HeightFacts
  <2>2. u.child[z][o] # 0 => u.parent[u.child[z][o]] = z
    BY <1>1, NodeFacts
  <2>3. u.child[z][o] = n => u.color[z] # 0
    BY <2>1, <2>2, <1>1, <1>2 DEF RB!RedIn, RB!NULL, RB!RED
  <2> QED
    BY <2>1, <2>3 DEF FitsIn
<1>4. Painted(u, r, 1, v) /\ Shaped(S, D, v)
  BY <1>1, <1>2, PaintedShape
<1> HIDE DEF v
<1>5. v.color[v.root] = 1
  BY <1>2, <1>4 DEF Painted
<1>6. \E G : Coloured(S, RB!Paint(u, r, 1), G, 0, "left", 0, 0)
  <2>1. r = u.root /\ 0 = 0
    OBVIOUS
  <2> HIDE DEF r
  <2> QED
    BY <2>1, <1>1, <1>2, <1>3, Blackened
<1> QED
  BY <1>4, <1>5, <1>6 DEF RedBlackTree, v

LEMMA ShrunkEnd ==
    ASSUME TreeKeys, NEW S, NEW D, NEW H, NEW u, NEW n, NEW p, Lacking(S, D, H, u, n, p),
           RB!RedIn(u, n) \/ n = u.root
    PROVE  \E G : RedBlackTree(S, D, G, IF n = 0 THEN u ELSE RB!Paint(u, n, 1))
<1>1. Shaped(S, D, u)
  BY DEF Lacking
<1>2. /\ 0 \notin S /\ S \subseteq RbKeys /\ (u.root = 0 => S = {})
      /\ (u.root # 0 => u.root \in S /\ u.parent[u.root] = 0)
  BY <1>1, NothingBelowNull
<1>3. CASE n = 0
  <2>1. u.root = 0
    BY <1>3 DEF RB!RedIn, RB!NULL
  <2>2. Coloured(S, u, H, 0, "left", 0, 0)
    BY <2>1, <1>2, <1>3 DEF Lacking
  <2> QED
    BY <2>1, <2>2, <1>1, <1>3 DEF RedBlackTree
<1>4. CASE n # 0
  <2> DEFINE v == RB!Paint(u, n, 1)
  <2>1. n = u.root => n \in S /\ u.parent[n] = 0
    BY <1>2, <1>4
  <2>2. ASSUME p \in S, NEW s \in TheSides, u.child[p][s] = n
        PROVE  n \in S /\ u.parent[n] = p /\ p # 0
    BY <2>2, <1>1, <1>2, <1>4, NodeFacts
  <2>3. n \in S
    BY <2>1, <2>2 DEF Lacking
  <2>4. Painted(u, n, 1, v) /\ Shaped(S, D, v)
    BY <2>3, <1>1, PaintedShape
  <2> HIDE DEF v
  <2>5. v.root = 0 \/ v.color[v.root] = 1
    <3>1. v.root = u.root /\ \A z \in RbKeys : v.color[z] = IF z = n THEN 1 ELSE u.color[z]
      BY <2>4 DEF Painted
    <3>2. n = u.root \/ u.color[u.root] = 1
      BY DEF Lacking
    <3> QED
      BY <3>1, <3>2, <1>2
  <2>6. CASE n = u.root
    <3>1. Coloured(S, u, H, 0, "left", n, n)
      BY <2>1, <2>2, <2>6 DEF Lacking
    <3>2. Paired(S, u, n, n)
      BY <3>1 DEF Coloured
    <3>3. n = u.root /\ 0 = 0
      BY <2>6
    <3>4. \E G : Coloured(S, RB!Paint(u, n, 1), G, 0, "left", 0, 0)
      BY <3>1, <3>2, <3>3, <2>3, <1>1, Blackened
    <3> QED
      BY <3>4, <2>4, <2>5, <1>4 DEF RedBlackTree, v
  <2>7. CASE n # u.root
    <3>1. PICK s \in TheSides : u.child[p][s] = n /\ Coloured(S, u, H, p, s, n, n) /\ p \in S
      BY <2>7 DEF Lacking
    <3>2. Paired(S, u, n, n)
      BY <3>1 DEF Coloured
    <3>3. u.color[n] = 0
      BY <2>7 DEF RB!RedIn, RB!RED
    <3>4. \E G : Coloured(S, RB!Paint(u, n, 1), G, 0, "left", 0, 0)
      BY <3>1, <3>2, <3>3, <2>3, <1>1, Blackened
    <3> QED
      BY <3>4, <2>4, <2>5, <1>4 DEF RedBlackTree, v
  <2> QED
    BY <2>6, <2>7
<1> QED
  BY <1>3, <1>4

\* The tree without a node.
EmptyTree ==
    [root |-> 0, child |-> [x \in RbKeys |-> [left |-> 0, right |-> 0]],
     parent |-> [x \in RbKeys |-> 0], color |-> [x \in RbKeys |-> 1]]

LEMMA NoNodes ==
    ASSUME TreeKeys
    PROVE  \E D, H : RedBlackTree({}, D, H, EmptyTree)
<1> DEFINE D == [z \in Links |-> {}]
           H == [z \in Links |-> 1]
           u == EmptyTree
<1>1. /\ u.root = 0 /\ u.parent = [x \in RbKeys |-> 0] /\ u.color = [x \in RbKeys |-> 1]
      /\ u.child = [x \in RbKeys |-> [left |-> 0, right |-> 0]]
      /\ u = [root |-> u.root, child |-> u.child, parent |-> u.parent, color |-> u.color]
  BY DEF EmptyTree
<1>2. [left |-> 0, right |-> 0] \in [TheSides -> Links] /\ 0 \in Links
  BY DEF TheSides, Links
<1>3. u \in Trees
  BY <1>1, <1>2 DEF Trees
<1>4. IsFiniteSet({})
  BY FS_EmptySet
<1>5. \A x \in RbKeys, o \in TheSides : u.child[x][o] = 0
  BY <1>1 DEF TheSides
<1> HIDE DEF u
<1>6. Shaped({}, D, u)
  BY <1>1, <1>2, <1>3, <1>4, <1>5 DEF Shaped
<1>7. Coloured({}, u, H, 0, "left", 0, 0)
  BY <1>1, <1>2 DEF Coloured, Measures, Even, Paired
<1>8. RedBlackTree({}, D, H, u)
  BY <1>1, <1>6, <1>7 DEF RedBlackTree
<1> QED
  BY <1>8 DEF u

-----------------------------------------------------------------------------
(* The steps of the tree.                                                  *)

\* The state of the tree whose nodes are S.
Standing(S, D, H, u, c, n, p) ==
    \/ c = "idle" /\ n = 0 /\ p = 0 /\ RedBlackTree(S, D, H, u)
    \/ c = "insert" /\ p = 0 /\ Growing(S, D, H, u, n)
    \/ c = "delete" /\ n \in Links /\ p \in Links /\ Lacking(S, D, H, u, n, p)

Holds(S) == \E D, H : Standing(S, D, H, rbTree, rbPc, rbNode, rbParent)

LEMMA StandingShaped ==
    ASSUME NEW S, NEW D, NEW H, NEW u, NEW c, NEW n, NEW p, Standing(S, D, H, u, c, n, p)
    PROVE  Shaped(S, D, u)
BY DEF Standing, RedBlackTree, Growing, Lacking

LEMMA TreeInit ==
    ASSUME TreeKeys, RB!Init
    PROVE  Holds({})
<1>1. rbTree = EmptyTree /\ rbPc = "idle" /\ rbNode = 0 /\ rbParent = 0
  BY DEF RB!Init, RB!NULL, RB!BLACK, RB!Unused, EmptyTree
<1>2. PICK D, H : RedBlackTree({}, D, H, EmptyTree)
  BY NoNodes
<1>3. Standing({}, D, H, rbTree, rbPc, rbNode, rbParent)
  BY <1>1, <1>2 DEF Standing
<1> QED
  BY <1>3 DEF Holds

LEMMA InsertStep ==
    ASSUME TreeKeys, NEW S, Holds(S), NEW key \in RbKeys, RB!Insert(key)
    PROVE  key \notin S /\ Holds(S \cup {key})'
<1>1. rbPc = "idle" /\ RB!Search(key) = 0 /\ rbPc' = "insert" /\ rbNode' = key
      /\ rbParent' = rbParent
  BY DEF RB!Insert, RB!NULL
<1>2. rbTree' = InsertIn(rbTree, key)
  <2>1. RB!Place(key) = PlaceIn(rbTree, key)
    BY LookupForms
  <2>2. rbTree' = LET y == RB!Place(key)
                      fresh == RB!SetParent(RB!Paint(rbTree, key, 0), key, y)
                  IN IF y = 0 THEN [fresh EXCEPT !.root = key]
                     ELSE [fresh EXCEPT !.child[y][IF key < y THEN "left" ELSE "right"] = key]
    BY DEF RB!Insert, RB!NULL, RB!RED
  <2> QED
    BY <2>1, <2>2 DEF InsertIn
<1>3. PICK D, H : Standing(S, D, H, rbTree, rbPc, rbNode, rbParent)
  BY DEF Holds
<1>4. RedBlackTree(S, D, H, rbTree) /\ rbParent = 0
  BY <1>1, <1>3 DEF Standing
<1>5. key \notin S
  <2>1. Shaped(S, D, rbTree)
    BY <1>3, StandingShaped
  <2>2. SearchIn(rbTree, key) = IF key \in S THEN key ELSE 0
    BY <2>1, SearchIs
  <2>3. key # 0
    BY DEF TreeKeys
  <2> QED
    BY <2>2, <2>3, <1>1, LookupForms
<1>6. PICK E, G : Growing(S \cup {key}, E, G, InsertIn(rbTree, key), key)
  BY <1>4, <1>5, InsertedTree
<1>7. Standing(S \cup {key}, E, G, rbTree', rbPc', rbNode', rbParent')
  BY <1>1, <1>2, <1>4, <1>6 DEF Standing
<1> QED
  BY <1>5, <1>7 DEF Holds

LEMMA InsertFixupStep ==
    ASSUME TreeKeys, NEW S, Holds(S), RB!InsertFixup
    PROVE  Holds(S)'
<1>1. /\ rbPc = "insert" /\ RB!RedIn(rbTree, rbTree.parent[rbNode])
      /\ rbPc' = rbPc /\ rbParent' = rbParent
  BY DEF RB!InsertFixup, RB!Red
<1>2. rbTree' = GrownIn(rbTree, rbNode) /\ rbNode' = GrownAt(rbTree, rbNode)
  <2> DEFINE p == rbTree.parent[rbNode]
             g == rbTree.parent[p]
             s == RB!SideOf(rbTree, p)
             c == rbTree.child[g][RB!Other(s)]
             inner == RB!SideOf(rbTree, rbNode) # s
             top == IF inner THEN rbNode ELSE p
             turned == IF inner THEN RB!Rotate(rbTree, p, s) ELSE rbTree
  <2>1. IF RB!RedIn(rbTree, c)
        THEN /\ rbTree' = RB!Paint(RB!Paint(RB!Paint(rbTree, c, 1), p, 1), g, 0)
             /\ rbNode' = g
        ELSE /\ rbTree' = RB!Rotate(RB!Paint(RB!Paint(turned, top, 1), g, 0), g, RB!Other(s))
             /\ rbNode' = IF inner THEN p ELSE rbNode
    BY DEF RB!InsertFixup, RB!Red, RB!RED, RB!BLACK
  <2> QED
    BY <2>1 DEF GrownIn, GrownAt
<1>3. PICK D, H : Standing(S, D, H, rbTree, rbPc, rbNode, rbParent)
  BY DEF Holds
<1>4. Growing(S, D, H, rbTree, rbNode) /\ rbParent = 0
  BY <1>1, <1>3 DEF Standing
<1>5. PICK E, G : Growing(S, E, G, GrownIn(rbTree, rbNode), GrownAt(rbTree, rbNode))
  BY <1>1, <1>4, GrownPass
<1>6. Standing(S, E, G, rbTree', rbPc', rbNode', rbParent')
  BY <1>1, <1>2, <1>4, <1>5 DEF Standing
<1> QED
  BY <1>6 DEF Holds

LEMMA InsertFixupEndsStep ==
    ASSUME TreeKeys, NEW S, Holds(S), RB!InsertFixupEnds
    PROVE  Holds(S)'
<1>1. /\ rbPc = "insert" /\ ~RB!RedIn(rbTree, rbTree.parent[rbNode])
      /\ rbTree' = RB!Paint(rbTree, rbTree.root, 1)
      /\ rbPc' = "idle" /\ rbNode' = 0 /\ rbParent' = 0
  BY DEF RB!InsertFixupEnds, RB!Red, RB!BLACK, RB!Done, RB!NULL
<1>2. PICK D, H : Standing(S, D, H, rbTree, rbPc, rbNode, rbParent)
  BY DEF Holds
<1>3. Growing(S, D, H, rbTree, rbNode)
  BY <1>1, <1>2 DEF Standing
<1>4. PICK G : RedBlackTree(S, D, G, RB!Paint(rbTree, rbTree.root, 1))
  BY <1>1, <1>3, GrownEnd
<1>5. Standing(S, D, G, rbTree', rbPc', rbNode', rbParent')
  BY <1>1, <1>4 DEF Standing
<1> QED
  BY <1>5 DEF Holds

LEMMA LiftedLinks ==
    ASSUME TreeKeys, NEW S, NEW D, NEW H, NEW u, NEW p, NEW s, Shrinking(S, D, H, u, p, s)
    PROVE  RB!LiftRedSibling(u, p, s).parent[p] \in Links
<1> DEFINE x == RB!LiftRedSibling(u, p, s)
<1>1. \E E, G : Shrinking(S, E, G, x, p, s)
  BY BlackSibling
<1> HIDE DEF x
<1>2. PICK E, G : Shrinking(S, E, G, x, p, s)
  BY <1>1
<1>3. Shaped(S, E, x) /\ p \in S
  BY <1>2 DEF Shrinking
<1>4. x.parent[p] \in S \cup {0} /\ S \subseteq RbKeys
  BY <1>3, ParentFacts, NothingBelowNull
<1> QED
  BY <1>4 DEF Links, x

LEMMA LackingRoot ==
    ASSUME TreeKeys, NEW S, NEW D, NEW H, NEW u, NEW p, Lacking(S, D, H, u, u.root, p), NEW q
    PROVE  Lacking(S, D, H, u, u.root, q)
<1> DEFINE n == u.root
<1>1. Shaped(S, D, u)
  BY DEF Lacking
<1>2. /\ 0 \notin S /\ (n = 0 => S = {}) /\ (n # 0 => u.parent[n] = 0)
  BY <1>1, NothingBelowNull
<1>3. ASSUME p \in S, NEW s \in TheSides, u.child[p][s] = n
      PROVE  FALSE
  <2>1. n # 0
    BY <1>2, <1>3
  <2>2. u.child[p][s] # 0 => u.parent[u.child[p][s]] = p
    BY <1>1, <1>3, NodeFacts
  <2> QED
    BY <2>1, <2>2, <1>2, <1>3
<1>4. Coloured(S, u, H, 0, "left", n, n)
  BY <1>3 DEF Lacking
<1> QED
  BY <1>1, <1>4 DEF Lacking

LEMMA DeleteFixupStep ==
    ASSUME TreeKeys, NEW S, Holds(S), RB!DeleteFixup
    PROVE  Holds(S)'
<1> DEFINE s == ShortSide(rbTree, rbNode, rbParent)
           x == RB!LiftRedSibling(rbTree, rbParent, s)
           w == x.child[rbParent][RB!Other(s)]
<1>1. /\ rbPc = "delete" /\ ~RB!RedIn(rbTree, rbNode) /\ rbNode # rbTree.root
      /\ rbPc' = rbPc
  BY DEF RB!DeleteFixup, RB!Red
<1>2. IF \A o \in RB!Sides : ~RB!RedIn(x, x.child[w][o])
      THEN /\ rbTree' = RB!Paint(x, w, 0)
           /\ rbNode' = rbParent /\ rbParent' = x.parent[rbParent]
      ELSE /\ rbTree' = RB!LiftSibling(RB!LiftNearNephew(x, rbParent, s), rbParent, s)
           /\ rbNode' = rbTree'.root /\ rbParent' = rbParent
  BY DEF RB!DeleteFixup, RB!RED, ShortSide
<1>3. /\ rbTree' = Lifted(rbTree, rbParent, s)
      /\ rbNode' = IF AllBlack(rbTree, rbParent, s) THEN rbParent
                   ELSE Lifted(rbTree, rbParent, s).root
      /\ rbParent' = IF AllBlack(rbTree, rbParent, s)
                     THEN RB!LiftRedSibling(rbTree, rbParent, s).parent[rbParent] ELSE rbParent
  <2>1. /\ rbTree' = Lifted(rbTree, rbParent, s)
        /\ AllBlack(rbTree, rbParent, s) => rbNode' = rbParent /\ rbParent' = x.parent[rbParent]
        /\ ~AllBlack(rbTree, rbParent, s) => rbNode' = rbTree'.root /\ rbParent' = rbParent
    BY <1>2 DEF Lifted, AllBlack
  <2> QED
    BY <2>1
<1>4. PICK D, H : Standing(S, D, H, rbTree, rbPc, rbNode, rbParent)
  BY DEF Holds
<1>5. Lacking(S, D, H, rbTree, rbNode, rbParent) /\ rbParent \in Links
  BY <1>1, <1>4 DEF Standing
<1>6. Shrinking(S, D, H, rbTree, rbParent, s)
  BY <1>1, <1>5, ShortNode
<1> HIDE DEF s, x, w
<1>7. \E E, G : Lacking(S, E, G, Lifted(rbTree, rbParent, s),
                        IF AllBlack(rbTree, rbParent, s) THEN rbParent
                        ELSE Lifted(rbTree, rbParent, s).root,
                        RB!LiftRedSibling(rbTree, rbParent, s).parent[rbParent])
  BY <1>6, ShrunkPass
<1>8. PICK E, G : Lacking(S, E, G, rbTree', rbNode',
                          RB!LiftRedSibling(rbTree, rbParent, s).parent[rbParent])
  BY <1>3, <1>7
<1>9. rbTree' \in Trees /\ Shaped(S, E, rbTree') /\ S \subseteq Links
  BY <1>8, NothingBelowNull DEF Lacking, Shaped
<1>10. rbParent \in S
  BY <1>6 DEF Shrinking
<1>11. CASE AllBlack(rbTree, rbParent, s)
  <2>1. Lacking(S, E, G, rbTree', rbNode', rbParent')
    BY <1>3, <1>8, <1>11
  <2>2. rbNode' \in Links
    BY <1>3, <1>5, <1>11
  <2>3. rbParent' \in Links
    <3>1. RB!LiftRedSibling(rbTree, rbParent, s).parent[rbParent] \in Links
      BY <1>6, LiftedLinks
    <3> QED
      BY <3>1, <1>3, <1>11
  <2> QED
    BY <2>1, <2>2, <2>3, <1>1 DEF Holds, Standing
<1>12. CASE ~AllBlack(rbTree, rbParent, s)
  <2>1. rbNode' = rbTree'.root /\ rbParent' = rbParent
    BY <1>3, <1>12
  <2>2. rbNode' \in Links
    BY <2>1, <1>9 DEF Trees
  <2>3. Lacking(S, E, G, rbTree', rbNode', rbParent')
    BY <2>1, <1>8, LackingRoot
  <2> QED
    BY <2>1, <2>2, <2>3, <1>1, <1>5 DEF Holds, Standing
<1> QED
  BY <1>11, <1>12

LEMMA DeleteFixupEndsStep ==
    ASSUME TreeKeys, NEW S, Holds(S), RB!DeleteFixupEnds
    PROVE  Holds(S)'
<1> DEFINE v == IF rbNode = 0 THEN rbTree ELSE RB!Paint(rbTree, rbNode, 1)
<1>1. /\ rbPc = "delete" /\ (RB!RedIn(rbTree, rbNode) \/ rbNode = rbTree.root)
      /\ rbTree' = v
      /\ rbPc' = "idle" /\ rbNode' = 0 /\ rbParent' = 0
  BY DEF RB!DeleteFixupEnds, RB!Red, RB!BLACK, RB!Done, RB!NULL
<1>2. PICK D, H : Standing(S, D, H, rbTree, rbPc, rbNode, rbParent)
  BY DEF Holds
<1>3. Lacking(S, D, H, rbTree, rbNode, rbParent)
  BY <1>1, <1>2 DEF Standing
<1>4. PICK G : RedBlackTree(S, D, G, v)
  BY <1>1, <1>3, ShrunkEnd
<1> HIDE DEF v
<1>5. Standing(S, D, G, rbTree', rbPc', rbNode', rbParent')
  BY <1>1, <1>4 DEF Standing
<1> QED
  BY <1>5 DEF Holds

LEMMA DestroyStep ==
    ASSUME TreeKeys, NEW S, Holds(S), RB!Destroy
    PROVE  Holds({})'
<1>1. /\ rbPc = "idle" /\ rbPc' = rbPc /\ rbNode' = rbNode /\ rbParent' = rbParent
      /\ rbTree' = [rbTree EXCEPT !.root = 0, !.child = [x \in RbKeys |-> [left |-> 0, right |-> 0]],
                                  !.parent = [x \in RbKeys |-> 0], !.color = [x \in RbKeys |-> 1]]
  BY DEF RB!Destroy, RB!NULL, RB!BLACK, RB!Unused
<1>2. PICK D, H : Standing(S, D, H, rbTree, rbPc, rbNode, rbParent)
  BY DEF Holds
<1>3. rbNode = 0 /\ rbParent = 0 /\ Shaped(S, D, rbTree)
  BY <1>1, <1>2, StandingShaped DEF Standing
<1>4. rbTree \in Trees
  BY <1>3 DEF Shaped
<1>5. rbTree' = EmptyTree
  BY <1>1, <1>4 DEF Trees, EmptyTree
<1>6. PICK E, G : RedBlackTree({}, E, G, EmptyTree)
  BY NoNodes
<1>7. Standing({}, E, G, rbTree', rbPc', rbNode', rbParent')
  BY <1>1, <1>3, <1>5, <1>6 DEF Standing
<1> QED
  BY <1>7 DEF Holds

\* What the unlink of x leaves of the nodes S.
Unlinked(S, x, k) ==
    /\ k.color = 0 => \E E, G : RedBlackTree(S \ {x}, E, G, k.tree)
    /\ k.color # 0 => \E E, G : Lacking(S \ {x}, E, G, k.tree, k.node, k.parent)
    /\ k.node \in Links /\ k.parent \in Links /\ k.color \in {0, 1}

\* A node that has not two children is spliced out, the other one superseded.
LEMMA UnlinkedTree ==
    ASSUME TreeKeys, NEW S, NEW D, NEW H, RedBlackTree(S, D, H, rbTree), NEW x \in S
    PROVE  Unlinked(S, x, RB!Unlink(x))
<1> DEFINE k == RB!Unlink(x)
           l == rbTree.child[x]["left"]
           e == rbTree.child[x]["right"]
           c == RB!OnlyChild(x)
           r == RB!Extreme(e, "left")
<1>1. Shaped(S, D, rbTree)
  BY DEF RedBlackTree
<1>2. 0 \notin S /\ S \subseteq RbKeys
  BY <1>1, NothingBelowNull
<1>3. "left" \in TheSides /\ "right" \in TheSides /\ Across("left") = "right" /\ Across("right") = "left"
  BY DEF TheSides, Across
<1>4. IF 0 \in {l, e}
      THEN k = [tree |-> RB!SpliceOut(rbTree, x, c), color |-> rbTree.color[x], node |-> c,
                parent |-> rbTree.parent[x]]
      ELSE k = [tree |-> RB!Supersede(rbTree, x, r), color |-> rbTree.color[r],
                node |-> rbTree.child[r]["right"],
                parent |-> IF rbTree.parent[r] = x THEN r ELSE rbTree.parent[r]]
  BY DEF RB!Unlink, RB!NULL
<1>5. c = IF l # 0 THEN l ELSE e
  BY DEF RB!OnlyChild, RB!NULL
<1> HIDE DEF k, c
<1>6. CASE l = 0 \/ e = 0
  <2>1. PICK s \in TheSides : c = rbTree.child[x][s] /\ rbTree.child[x][Across(s)] = 0
    <3>1. CASE l = 0
      BY <3>1, <1>3, <1>5
    <3>2. CASE l # 0
      BY <3>2, <1>3, <1>5, <1>6
    <3> QED
      BY <3>1, <3>2
  <2>2. /\ k.tree = RB!SpliceOut(rbTree, x, c) /\ k.color = rbTree.color[x] /\ k.node = c
        /\ k.parent = rbTree.parent[x]
    BY <1>4, <1>6
  <2>3. c \in S \cup {0} /\ rbTree.parent[x] \in S \cup {0} /\ rbTree.color[x] \in {0, 1}
    <3>1. rbTree.child[x][s] \in S \cup {0}
      BY <1>1, NodeFacts
    <3>2. rbTree.parent[x] \in S \cup {0}
      BY <1>1, ParentFacts
    <3>3. rbTree.color[x] \in {0, 1}
      BY <1>1, ColourTypes
    <3> QED
      BY <2>1, <3>1, <3>2, <3>3
  <2>4. c \in Links /\ rbTree.parent[x] \in Links
    BY <2>3, <1>2 DEF Links
  <2> DEFINE v == RB!SpliceOut(rbTree, x, c)
  <2>5. Spliced(rbTree, x, c, v)
    BY <2>4, <1>1, SpliceForm
  <2> HIDE DEF v
  <2>6. Spliced(rbTree, x, rbTree.child[x][s], v)
    BY <2>1, <2>5
  <2>7. /\ rbTree.color[x] = 0 => \E E : RedBlackTree(S \ {x}, E, H, v)
        /\ rbTree.color[x] = 1 =>
              \E E : Lacking(S \ {x}, E, H, v, rbTree.child[x][s], rbTree.parent[x])
    BY <2>1, <2>6, SplicedTree
  <2>8. k.tree = v /\ k.node = rbTree.child[x][s]
    BY <2>1, <2>2 DEF v
  <2> HIDE DEF l, e, r
  <2>9. k.color = 0 => \E E, G : RedBlackTree(S \ {x}, E, G, k.tree)
    BY <2>2, <2>7, <2>8
  <2>10. k.color # 0 => \E E, G : Lacking(S \ {x}, E, G, k.tree, k.node, k.parent)
    BY <2>2, <2>3, <2>7, <2>8
  <2> QED
    BY <2>2, <2>3, <2>4, <2>9, <2>10 DEF k, Unlinked
<1>7. CASE l # 0 /\ e # 0
  <2>1. r = ExtremeIn(rbTree, e, "left")
    BY LookupForms
  <2>2. Heir(S, D, rbTree, x, r)
    BY <2>1, <1>1, <1>7 DEF Heir
  <2>3. /\ k.tree = RB!Supersede(rbTree, x, r) /\ k.color = rbTree.color[r]
        /\ k.node = rbTree.child[r]["right"]
        /\ k.parent = IF rbTree.parent[r] = x THEN r ELSE rbTree.parent[r]
    BY <1>4, <1>7
  <2> HIDE DEF r, l, e
  <2>4. r \in S
    BY <2>2, HeirFacts
  <2>5. rbTree.parent[r] \in S
    BY <2>2, HeirFacts
  <2>6. rbTree.child[r]["right"] \in S \cup {0}
    BY <2>4, <1>1, <1>3, NodeFacts
  <2>7. rbTree.color[r] \in {0, 1}
    BY <2>4, <1>1, ColourTypes
  <2> DEFINE v == RB!Supersede(rbTree, x, r)
  <2>8. v = RB!Supersede(rbTree, x, r)
    OBVIOUS
  <2> HIDE DEF v
  <2>9. /\ rbTree.color[r] = 0 => \E E, G : RedBlackTree(S \ {x}, E, G, v)
        /\ rbTree.color[r] = 1 =>
              \E E, G : Lacking(S \ {x}, E, G, v, rbTree.child[r]["right"],
                                IF rbTree.parent[r] = x THEN r ELSE rbTree.parent[r])
    BY <2>2, <2>8, SupersededTree
  <2>10. k.node \in Links /\ k.parent \in Links
    BY <2>3, <2>4, <2>5, <2>6, <1>2 DEF Links
  <2>11. k.color = 0 => \E E, G : RedBlackTree(S \ {x}, E, G, k.tree)
    BY <2>3, <2>8, <2>9
  <2>12. k.color # 0 => \E E, G : Lacking(S \ {x}, E, G, k.tree, k.node, k.parent)
    BY <2>3, <2>7, <2>8, <2>9
  <2> QED
    BY <2>3, <2>7, <2>10, <2>11, <2>12 DEF k, Unlinked
<1> QED
  BY <1>6, <1>7

LEMMA DeleteStep ==
    ASSUME TreeKeys, NEW S, Holds(S), NEW key \in RbKeys, RB!Delete(key)
    PROVE  key \in S /\ Holds(S \ {key})'
<1> DEFINE k == RB!Unlink(key)
<1>1. /\ rbPc = "idle" /\ RB!Search(key) # 0 /\ rbTree' = k.tree
      /\ IF k.color = 1 THEN rbPc' = "delete" /\ rbNode' = k.node /\ rbParent' = k.parent
         ELSE rbPc' = rbPc /\ rbNode' = rbNode /\ rbParent' = rbParent
  BY DEF RB!Delete, RB!NULL, RB!BLACK
<1>2. PICK D, H : Standing(S, D, H, rbTree, rbPc, rbNode, rbParent)
  BY DEF Holds
<1>3. RedBlackTree(S, D, H, rbTree) /\ rbNode = 0 /\ rbParent = 0
  BY <1>1, <1>2 DEF Standing
<1>4. key \in S
  <2>1. Shaped(S, D, rbTree)
    BY <1>2, StandingShaped
  <2>2. SearchIn(rbTree, key) = IF key \in S THEN key ELSE 0
    BY <2>1, SearchIs
  <2> QED
    BY <2>2, <1>1, LookupForms
<1>5. /\ k.color = 0 => \E E, G : RedBlackTree(S \ {key}, E, G, k.tree)
      /\ k.color # 0 => \E E, G : Lacking(S \ {key}, E, G, k.tree, k.node, k.parent)
      /\ k.node \in Links /\ k.parent \in Links /\ k.color \in {0, 1}
  <2>1. Unlinked(S, key, k)
    BY <1>3, <1>4, UnlinkedTree
  <2> QED
    BY <2>1 DEF Unlinked
<1> HIDE DEF k
<1>6. CASE k.color = 0
  <2>1. PICK E, G : RedBlackTree(S \ {key}, E, G, k.tree)
    BY <1>5, <1>6
  <2>2. Standing(S \ {key}, E, G, rbTree', rbPc', rbNode', rbParent')
    BY <2>1, <1>1, <1>3, <1>6 DEF Standing
  <2> QED
    BY <2>2, <1>4 DEF Holds
<1>7. CASE k.color = 1
  <2>1. PICK E, G : Lacking(S \ {key}, E, G, k.tree, k.node, k.parent)
    BY <1>5, <1>7
  <2>2. Standing(S \ {key}, E, G, rbTree', rbPc', rbNode', rbParent')
    BY <2>1, <1>1, <1>5, <1>7 DEF Standing
  <2> QED
    BY <2>2, <1>4 DEF Holds
<1> QED
  BY <1>5, <1>6, <1>7

-----------------------------------------------------------------------------
(* What holds of the tree in every state.                                  *)

LEMMA InIs ==
    ASSUME TreeKeys, NEW S, Holds(S)
    PROVE  RB!In = S /\ S \subseteq RbKeys
<1>1. PICK D, H : Standing(S, D, H, rbTree, rbPc, rbNode, rbParent)
  BY DEF Holds
<1>2. Shaped(S, D, rbTree)
  BY <1>1, StandingShaped
<1>3. S \subseteq RbKeys
  BY <1>2, NothingBelowNull
<1>4. \A x \in RbKeys : RB!Search(x) = IF x \in S THEN x ELSE 0
  BY <1>2, SearchIs, LookupForms
<1> QED
  BY <1>3, <1>4 DEF RB!In, TreeKeys

LEMMA InIsNext ==
    ASSUME TreeKeys, NEW S, Holds(S)'
    PROVE  RB!In' = S
<1>1. PICK D, H : Standing(S, D, H, rbTree', rbPc', rbNode', rbParent')
  BY DEF Holds
<1>2. Shaped(S, D, rbTree')
  BY <1>1, StandingShaped
<1>3. S \subseteq RbKeys
  BY <1>2, NothingBelowNull
<1>4. \A x \in RbKeys : RB!Search(x)' = IF x \in S THEN x ELSE 0
  BY <1>2, SearchIs, LookupForms
<1> QED
  BY <1>3, <1>4 DEF RB!In, TreeKeys

LEMMA TreeTyped ==
    ASSUME TreeKeys, NEW S, Holds(S)
    PROVE  RB!TypeOK
<1>1. PICK D, H : Standing(S, D, H, rbTree, rbPc, rbNode, rbParent)
  BY DEF Holds
<1>2. Shaped(S, D, rbTree)
  BY <1>1, StandingShaped
<1>3. rbTree \in Trees /\ S \subseteq Links /\ 0 \in Links
  BY <1>2, NothingBelowNull DEF Shaped, Links
<1>4. rbPc \in {"idle", "insert", "delete"} /\ rbNode \in Links /\ rbParent \in Links
  BY <1>1, <1>3 DEF Standing, Growing
<1> QED
  BY <1>3, <1>4 DEF RB!TypeOK, RB!NULL, RB!RED, RB!BLACK, RB!Sides, Trees, Links, TheSides

LEMMA TreeLinked ==
    ASSUME TreeKeys, NEW S, Holds(S)
    PROVE  RB!ParentLinks
<1>1. PICK D, H : Standing(S, D, H, rbTree, rbPc, rbNode, rbParent)
  BY DEF Holds
<1>2. Shaped(S, D, rbTree)
  BY <1>1, StandingShaped
<1>3. RB!In = S
  BY InIs
<1> QED
  BY <1>2, <1>3 DEF RB!ParentLinks, RB!NULL, RB!Sides, TheSides, Shaped

LEMMA TreeWalked ==
    ASSUME TreeKeys, NEW S, Holds(S)
    PROVE  RB!Walks
<1>1. PICK D, H : Standing(S, D, H, rbTree, rbPc, rbNode, rbParent)
  BY DEF Holds
<1>2. Shaped(S, D, rbTree)
  BY <1>1, StandingShaped
<1>3. RB!In = S /\ S \subseteq Int /\ 0 \notin S
  BY <1>2, InIs, NothingBelowNull
<1> SUFFICES ASSUME NEW x \in S
             PROVE  LET above == {y \in S : y > x}
                        below == {y \in S : y < x}
                    IN /\ above = {} => RB!Neighbour(x, "right") = 0
                       /\ above # {} => RB!Neighbour(x, "right") \in above
                                         /\ \A y \in above : RB!Neighbour(x, "right") <= y
                       /\ below = {} => RB!Neighbour(x, "left") = 0
                       /\ below # {} => RB!Neighbour(x, "left") \in below
                                         /\ \A y \in below : RB!Neighbour(x, "left") >= y
  BY <1>3 DEF RB!Walks, RB!NULL
<1> DEFINE a == NeighbourIn(rbTree, x, "right")
           b == NeighbourIn(rbTree, x, "left")
<1>4. RB!Neighbour(x, "right") = a /\ RB!Neighbour(x, "left") = b
  BY LookupForms
<1>5. \/ a = 0 /\ \A z \in S : ~Beyond("right", x, z)
      \/ a \in S /\ Beyond("right", x, a) /\ \A z \in S : Beyond("right", x, z) =>
                                                  z = a \/ Beyond("right", a, z)
  BY <1>2, NeighbourIs DEF TheSides
<1>6. \/ b = 0 /\ \A z \in S : ~Beyond("left", x, z)
      \/ b \in S /\ Beyond("left", x, b) /\ \A z \in S : Beyond("left", x, z) =>
                                                 z = b \/ Beyond("left", b, z)
  BY <1>2, NeighbourIs DEF TheSides
<1> HIDE DEF a, b
<1>7. \/ a = 0 /\ \A z \in S : ~(x < z)
      \/ a \in S /\ x < a /\ \A z \in S : x < z => z = a \/ a < z
  BY <1>5 DEF Beyond
<1>8. \/ b = 0 /\ \A z \in S : ~(z < x)
      \/ b \in S /\ b < x /\ \A z \in S : z < x => z = b \/ z < b
  BY <1>6 DEF Beyond
<1> DEFINE above == {y \in S : y > x}
           below == {y \in S : y < x}
<1>9. /\ above = {} => a = 0
      /\ above # {} => a \in above /\ \A y \in above : a <= y
  <2>1. \A y : y \in above <=> y \in S /\ x < y
    OBVIOUS
  <2> HIDE DEF above
  <2>2. CASE a = 0 /\ \A z \in S : ~(x < z)
    <3>1. above = {}
      BY <2>1, <2>2
    <3> QED
      BY <3>1, <2>2
  <2>3. CASE a \in S /\ x < a /\ \A z \in S : x < z => z = a \/ a < z
    <3>1. a \in above
      BY <2>1, <2>3
    <3>2. ASSUME NEW y \in above PROVE a <= y
      <4>1. y \in S /\ x < y /\ y \in Int /\ a \in Int
        BY <2>1, <2>3, <1>3
      <4>2. y = a \/ a < y
        BY <2>3, <4>1
      <4> QED
        BY <4>1, <4>2
    <3> QED
      BY <3>1, <3>2
  <2> QED
    BY <2>2, <2>3, <1>7
<1>10. /\ below = {} => b = 0
       /\ below # {} => b \in below /\ \A y \in below : b >= y
  <2>1. \A y : y \in below <=> y \in S /\ y < x
    OBVIOUS
  <2> HIDE DEF below
  <2>2. CASE b = 0 /\ \A z \in S : ~(z < x)
    <3>1. below = {}
      BY <2>1, <2>2
    <3> QED
      BY <3>1, <2>2
  <2>3. CASE b \in S /\ b < x /\ \A z \in S : z < x => z = b \/ z < b
    <3>1. b \in below
      BY <2>1, <2>3
    <3>2. ASSUME NEW y \in below PROVE b >= y
      <4>1. y \in S /\ y < x /\ y \in Int /\ b \in Int
        BY <2>1, <2>3, <1>3
      <4>2. y = b \/ y < b
        BY <2>3, <4>1
      <4> QED
        BY <4>1, <4>2
    <3> QED
      BY <3>1, <3>2
  <2> QED
    BY <2>2, <2>3, <1>8
<1> HIDE DEF above, below
<1> QED
  BY <1>4, <1>9, <1>10 DEF above, below

\* The black nodes counted on the ways down.
IsHeights(f, u) ==
    f = [x \in Links |-> IF x = 0 THEN {1}
                         ELSE {h + u.color[x] : h \in f[u.child[x]["left"]] \cup f[u.child[x]["right"]]}]

LEMMA HeightsExist ==
    ASSUME TreeKeys, NEW S, NEW D, NEW H, NEW u, RedBlackTree(S, D, H, u)
    PROVE  \E f : IsHeights(f, u)
<1> DEFINE f == [x \in Links |-> IF x = 0 THEN {1} ELSE IF x \in S THEN {H[x]} ELSE {2}]
           All(x) == {h + u.color[x] : h \in f[u.child[x]["left"]] \cup f[u.child[x]["right"]]}
<1>1. Shaped(S, D, u) /\ Coloured(S, u, H, 0, "left", 0, 0)
  BY DEF RedBlackTree
<1>2. 0 \notin S /\ S \subseteq RbKeys /\ 0 \in Links /\ S \subseteq Links
  BY <1>1, NothingBelowNull DEF Links
<1>3. H[0] = 1 /\ \A z \in RbKeys \ S : u.color[z] = 1 /\ u.child[z]["left"] = 0 /\ u.child[z]["right"] = 0
  <2>1. H[0] = 1 /\ \A z \in RbKeys \ S : u.color[z] = 1
    BY <1>1 DEF Coloured
  <2>2. \A z \in RbKeys \ S, o \in TheSides : u.child[z][o] = 0
    BY <1>1 DEF Shaped
  <2> QED
    BY <2>1, <2>2 DEF TheSides
<1>4. \A z \in S \cup {0} : f[z] = {H[z]}
  BY <1>2, <1>3
<1>5. f[0] = {1}
  BY <1>2
<1>6. \A z \in RbKeys \ S : z # 0 => f[z] = {2}
  BY DEF Links
<1>7. \A z \in Links : f[z] = IF z = 0 THEN {1} ELSE f[z]
  BY <1>5
<1> HIDE DEF f
<1>8. ASSUME NEW x \in S PROVE All(x) = {H[x]}
  <2>1. \A o \in TheSides : /\ H[x] = u.color[x] + H[u.child[x][o]] + Owes(x, o, 0, "left")
                            /\ H[u.child[x][o]] \in Nat /\ u.color[x] \in Nat
                            /\ u.child[x][o] \in S \cup {0}
    BY <1>1, HeightFacts
  <2>2. \A o \in TheSides : Owes(x, o, 0, "left") = 0
    BY <1>2, NothingOwed
  <2>3. "left" \in TheSides /\ "right" \in TheSides
    BY DEF TheSides
  <2> DEFINE l == u.child[x]["left"]
             r == u.child[x]["right"]
  <2>4. /\ H[x] = u.color[x] + H[l] + 0 /\ H[x] = u.color[x] + H[r] + 0
        /\ H[l] \in Nat /\ H[r] \in Nat /\ u.color[x] \in Nat
        /\ l \in S \cup {0} /\ r \in S \cup {0}
    BY <2>1, <2>2, <2>3
  <2> HIDE DEF l, r
  <2>5. f[l] \cup f[r] = {H[l]} /\ H[l] + u.color[x] = H[x]
    <3>1. H[l] = H[r] /\ H[l] + u.color[x] = H[x]
      BY <2>4
    <3> QED
      BY <3>1, <2>4, <1>4
  <2>6. {h + u.color[x] : h \in f[l] \cup f[r]} = {H[x]}
    BY <2>5
  <2> QED
    BY <2>6 DEF l, r
<1>9. ASSUME NEW x \in RbKeys \ S PROVE All(x) = {2}
  BY <1>3, <1>5
<1>10. \A x \in Links : x # 0 => f[x] = All(x)
  BY <1>2, <1>4, <1>6, <1>8, <1>9 DEF Links
<1>11. f = [x \in Links |-> IF x = 0 THEN {1} ELSE All(x)]
  <2>1. f = [x \in Links |-> f[x]]
    BY DEF f
  <2>2. \A x \in Links : f[x] = IF x = 0 THEN {1} ELSE All(x)
    BY <1>5, <1>10
  <2> HIDE DEF All
  <2> QED
    BY <2>1, <2>2, Zenon
<1> QED
  BY <1>11, Zenon DEF IsHeights

LEMMA HeightsAre ==
    ASSUME TreeKeys, NEW S, NEW D, NEW H, NEW u, RedBlackTree(S, D, H, u),
           NEW f, IsHeights(f, u)
    PROVE  f[u.root] = {H[u.root]}
<1>1. Shaped(S, D, u) /\ Coloured(S, u, H, 0, "left", 0, 0)
  BY DEF RedBlackTree
<1>2. 0 \notin S /\ S \subseteq RbKeys /\ 0 \in Links /\ S \subseteq Links
  BY <1>1, NothingBelowNull DEF Links
<1>3. \A x \in Links : f[x] = IF x = 0 THEN {1}
          ELSE {h + u.color[x] : h \in f[u.child[x]["left"]] \cup f[u.child[x]["right"]]}
  BY DEF IsHeights
<1>4. H[0] = 1 /\ f[0] = {1}
  BY <1>1, <1>2, <1>3 DEF Coloured
<1> DEFINE A == {x \in S : f[x] = {H[x]}}
<1>5. ASSUME NEW x \in S, \A s \in TheSides : u.child[x][s] # 0 => u.child[x][s] \in A
      PROVE  x \in A
  <2>1. \A o \in TheSides : /\ H[x] = u.color[x] + H[u.child[x][o]] + Owes(x, o, 0, "left")
                            /\ H[u.child[x][o]] \in Nat /\ u.color[x] \in Nat
                            /\ u.child[x][o] \in S \cup {0}
    BY <1>1, HeightFacts
  <2>2. \A o \in TheSides : Owes(x, o, 0, "left") = 0
    BY <1>2, NothingOwed
  <2>3. "left" \in TheSides /\ "right" \in TheSides
    BY DEF TheSides
  <2> DEFINE l == u.child[x]["left"]
             r == u.child[x]["right"]
  <2>4. /\ H[x] = u.color[x] + H[l] + 0 /\ H[x] = u.color[x] + H[r] + 0
        /\ H[l] \in Nat /\ H[r] \in Nat /\ u.color[x] \in Nat
    BY <2>1, <2>2, <2>3
  <2>5. f[l] = {H[l]} /\ f[r] = {H[r]}
    BY <2>3, <1>4, <1>5
  <2>6. f[x] = {h + u.color[x] : h \in f[l] \cup f[r]}
    BY <1>2, <1>3
  <2> HIDE DEF l, r
  <2>7. H[l] = H[r] /\ H[l] + u.color[x] = H[x]
    BY <2>4
  <2>8. f[l] \cup f[r] = {H[l]}
    BY <2>5, <2>7
  <2>9. f[x] = {H[x]}
    BY <2>6, <2>7, <2>8
  <2> QED
    BY <2>9
<1>6. \A x \in S : x \in A
  <2> HIDE DEF A
  <2> QED
    BY <1>1, <1>5, FromBelow
<1>7. u.root \in S \cup {0}
  BY <1>1 DEF Shaped
<1> QED
  BY <1>4, <1>6, <1>7

LEMMA TreeRedBlack ==
    ASSUME TreeKeys, NEW S, Holds(S)
    PROVE  RB!RedBlack
<1> SUFFICES ASSUME rbPc = "idle"
             PROVE  /\ ~RB!RedIn(rbTree, rbTree.root)
                    /\ \A x \in RB!In : RB!RedIn(rbTree, x) =>
                          \A s \in RB!Sides : ~RB!RedIn(rbTree, rbTree.child[x][s])
                    /\ \E h \in RB!BlackHeights : RB!BlackHeights = {h}
  BY DEF RB!RedBlack, RB!Red
<1>1. PICK D, H : Standing(S, D, H, rbTree, rbPc, rbNode, rbParent)
  BY DEF Holds
<1>2. RedBlackTree(S, D, H, rbTree)
  BY <1>1 DEF Standing
<1>3. /\ Shaped(S, D, rbTree) /\ Coloured(S, rbTree, H, 0, "left", 0, 0)
      /\ rbTree.root = 0 \/ rbTree.color[rbTree.root] = 1
  BY <1>2 DEF RedBlackTree
<1>4. RB!In = S /\ 0 \notin S
  BY <1>3, InIs, NothingBelowNull
<1>5. ~RB!RedIn(rbTree, rbTree.root)
  BY <1>3 DEF RB!RedIn, RB!NULL, RB!RED
<1>6. ASSUME NEW x \in S, NEW s \in TheSides, RB!RedIn(rbTree, x)
      PROVE  ~RB!RedIn(rbTree, rbTree.child[x][s])
  <2>1. FitsIn(rbTree, x, rbTree.child[x][s], 0, 0)
    BY <1>3 DEF Coloured, Paired
  <2> QED
    BY <2>1, <1>4, <1>6 DEF FitsIn, RB!RedIn, RB!NULL, RB!RED
<1>7. \E h \in RB!BlackHeights : RB!BlackHeights = {h}
  <2> DEFINE f == CHOOSE f : IsHeights(f, rbTree)
  <2>1. RB!BlackHeights = f[rbTree.root]
    BY DEF RB!BlackHeights, RB!NULL, IsHeights, Links
  <2>2. IsHeights(f, rbTree)
    BY <1>2, HeightsExist
  <2> HIDE DEF f
  <2>3. f[rbTree.root] = {H[rbTree.root]}
    BY <2>2, <1>2, HeightsAre
  <2> QED
    BY <2>1, <2>3
<1> QED
  BY <1>4, <1>5, <1>6, <1>7 DEF RB!Sides, TheSides

TreeInv == \E S : Holds(S)

\* Every step keeps the invariant, and is one of a set or changes no key.
LEMMA TreeStep ==
    ASSUME TreeKeys, TreeInv, [RB!Next]_(RB!vars)
    PROVE  TreeInv' /\ (RB!Abstract!Next \/ UNCHANGED RB!In)
<1>1. PICK S : Holds(S)
  BY DEF TreeInv
<1>2. RB!In = S
  BY <1>1, InIs
<1>3. ASSUME Holds(S)' PROVE TreeInv' /\ (RB!Abstract!Next \/ UNCHANGED RB!In)
  <2>1. RB!In' = S
    BY <1>3, InIsNext
  <2> QED
    BY <2>1, <1>2, <1>3 DEF TreeInv
<1>4. ASSUME NEW key \in RbKeys, RB!Insert(key)
      PROVE  TreeInv' /\ (RB!Abstract!Next \/ UNCHANGED RB!In)
  <2>1. key \notin S /\ Holds(S \cup {key})'
    BY <1>1, <1>4, InsertStep
  <2>2. RB!In' = S \cup {key}
    BY <2>1, InIsNext
  <2>3. RB!Abstract!Insert(key)
    BY <2>1, <2>2, <1>2 DEF RB!Abstract!Insert
  <2> QED
    BY <2>1, <2>3 DEF TreeInv, RB!Abstract!Next
<1>5. ASSUME NEW key \in RbKeys, RB!Delete(key)
      PROVE  TreeInv' /\ (RB!Abstract!Next \/ UNCHANGED RB!In)
  <2>1. key \in S /\ Holds(S \ {key})'
    BY <1>1, <1>5, DeleteStep
  <2>2. RB!In' = S \ {key}
    BY <2>1, InIsNext
  <2>3. RB!Abstract!Delete(key)
    BY <2>1, <2>2, <1>2 DEF RB!Abstract!Delete
  <2> QED
    BY <2>1, <2>3 DEF TreeInv, RB!Abstract!Next
<1>6. CASE RB!InsertFixup
  BY <1>1, <1>3, <1>6, InsertFixupStep
<1>7. CASE RB!InsertFixupEnds
  BY <1>1, <1>3, <1>7, InsertFixupEndsStep
<1>8. CASE RB!DeleteFixup
  BY <1>1, <1>3, <1>8, DeleteFixupStep
<1>9. CASE RB!DeleteFixupEnds
  BY <1>1, <1>3, <1>9, DeleteFixupEndsStep
<1>10. CASE RB!Destroy
  <2>1. Holds({})'
    BY <1>1, <1>10, DestroyStep
  <2>2. RB!In' = {}
    BY <2>1, InIsNext
  <2>3. RB!Abstract!Clear
    BY <2>2 DEF RB!Abstract!Clear
  <2> QED
    BY <2>1, <2>3 DEF TreeInv, RB!Abstract!Next
<1>11. CASE UNCHANGED RB!vars
  <2>1. /\ rbTree' = rbTree /\ rbPc' = rbPc /\ rbNode' = rbNode /\ rbParent' = rbParent
    BY <1>11 DEF RB!vars
  <2>2. Holds(S)'
    BY <2>1, <1>1 DEF Holds
  <2> QED
    BY <2>2, <1>3
<1> QED
  BY <1>4, <1>5, <1>6, <1>7, <1>8, <1>9, <1>10, <1>11 DEF RB!Next

LEMMA TreeStarts ==
    ASSUME TreeKeys, RB!Init
    PROVE  TreeInv /\ RB!Abstract!Init
<1>1. Holds({})
  BY TreeInit
<1>2. RB!In = {}
  BY <1>1, InIs
<1> QED
  BY <1>1, <1>2 DEF TreeInv, RB!Abstract!Init

LEMMA TreeInvImplies ==
    ASSUME TreeKeys, TreeInv
    PROVE  RB!TypeOK /\ RB!ParentLinks /\ RB!Walks /\ RB!RedBlack
<1>1. PICK S : Holds(S)
  BY DEF TreeInv
<1> QED
  BY <1>1, TreeTyped, TreeLinked, TreeWalked, TreeRedBlack

\* The links go both ways, the walk by successors is the order of the keys, and between
\* two operations the root is black, no red node has a red child and every way down has
\* as many black nodes: for every set of keys.
THEOREM TreeConsistent ==
    ASSUME TreeKeys
    PROVE  RB!Spec => [](RB!TypeOK /\ RB!ParentLinks /\ RB!Walks /\ RB!RedBlack)
<1>1. RB!Init => TreeInv
  BY TreeStarts
<1>2. TreeInv /\ [RB!Next]_(RB!vars) => TreeInv'
  BY TreeStep
<1>3. TreeInv => RB!TypeOK /\ RB!ParentLinks /\ RB!Walks /\ RB!RedBlack
  BY TreeInvImplies
<1> QED
  BY <1>1, <1>2, <1>3, PTL DEF RB!Spec

\* The tree is a set of keys, also in the middle of its fix-up loops: rbtree.c finds what
\* was inserted and not deleted since, and nothing else.
THEOREM TreeImplementsSet ==
    ASSUME TreeKeys
    PROVE  RB!Spec => RB!ImplementsSet
<1>1. RB!Init => TreeInv /\ RB!Abstract!Init
  BY TreeStarts
<1>2. TreeInv /\ [RB!Next]_(RB!vars) => TreeInv' /\ [RB!Abstract!Next]_(RB!In)
  BY TreeStep
<1> QED
  BY <1>1, <1>2, PTL DEF RB!Spec, RB!ImplementsSet, RB!Abstract!Spec

-----------------------------------------------------------------------------
(* The timer of the library: a loop that ends keeps what each pass keeps.  *)

\* f takes x through passes to a state in stop; P is kept by a pass, which makes m smaller.
Passes(f, stop, nx, P, m) ==
    /\ \A x \in P : f[x] = IF x \in stop THEN x ELSE f[nx[x]]
    /\ \A x \in P : m[x] \in Nat
    /\ \A x \in P \ stop : nx[x] \in P /\ m[nx[x]] < m[x]

LEMMA DescentKeeps ==
    ASSUME NEW f, NEW stop, NEW nx, NEW P, NEW m, Passes(f, stop, nx, P, m)
    PROVE  \A x \in P : f[x] \in P /\ f[x] \in stop
<1> USE DEF Passes
<1> DEFINE Bad == {x \in P : ~(f[x] \in P /\ f[x] \in stop)}
           Z == {m[x] : x \in Bad}
<1> SUFFICES ASSUME Bad # {} PROVE FALSE
  OBVIOUS
<1>1. Z \in SUBSET Nat /\ Z # {}
  OBVIOUS
<1>2. PICK z \in Z : \A y \in Z : z <= y
  <2> HIDE DEF Z
  <2> QED
    BY <1>1, LeastNumber
<1>3. PICK x \in Bad : z = m[x]
  BY <1>2
<1>4. x \notin stop
  <2> SUFFICES ASSUME x \in stop PROVE FALSE
    OBVIOUS
  <2>1. f[x] = x
    OBVIOUS
  <2> QED
    BY <2>1, <1>3
<1>5. f[x] = f[nx[x]] /\ nx[x] \in P /\ m[nx[x]] < m[x]
  BY <1>3, <1>4
<1>6. nx[x] \in Bad
  BY <1>3, <1>5
<1>7. m[x] <= m[nx[x]]
  <2>1. m[nx[x]] \in Z
    BY <1>6
  <2> QED
    BY <2>1, <1>2, <1>3
<1>8. m[x] \in Nat /\ m[nx[x]] \in Nat
  BY <1>3, <1>5
<1> HIDE DEF Bad, Z
<1> QED
  BY <1>5, <1>7, <1>8

LEMMA ParentPlaces ==
    /\ \A k \in Nat : k >= 1 => /\ CT!Parent(k) \in Nat /\ CT!Parent(k) < k
    /\ \A k, j \in Nat : k >= 1 => (CT!Parent(k) = j <=> k = 2 * j + 1 \/ k = 2 * j + 2)
BY DEF CT!Parent

\* The two loops, as functions on the states of a sift.
IsUp(f) ==
    f = [s \in CT!Sifting |->
            IF s.k = 0 \/ CT!Less(s.array, CT!Parent(s.k), s.k) THEN s
            ELSE f[CT!Swapped(s, CT!Parent(s.k))]]

IsDown(f) ==
    f = [s \in CT!Sifting |->
            IF 2 * s.k + 1 >= s.n \/ CT!Less(s.array, s.k, CT!SmallerChild(s)) THEN s
            ELSE f[CT!Swapped(s, CT!SmallerChild(s))]]

LEMMA LoopsAre ==
    /\ CT!heapSiftUp = CHOOSE f : IsUp(f)
    /\ CT!heapSiftDown = CHOOSE f : IsDown(f)
BY DEF CT!heapSiftUp, CT!heapSiftDown, IsUp, IsDown

\* What a pass does.
LEMMA SwappedFacts ==
    ASSUME ClockConstants, NEW s \in CT!Sifting, NEW j \in CT!Indices
    PROVE  /\ CT!Swapped(s, j) \in CT!Sifting
           /\ CT!Swapped(s, j).k = j /\ CT!Swapped(s, j).n = s.n
           /\ CT!Swapped(s, j).array
                = [s.array EXCEPT ![s.k] = s.array[j], ![j] = s.array[s.k]]
<1> DEFINE a == [s.array EXCEPT ![s.k] = s.array[j], ![j] = s.array[s.k]]
           g == [s.ref EXCEPT ![a[s.k].id] = s.k, ![a[j].id] = j]
<1>1. s.array \in [CT!Indices -> CT!Node] /\ s.ref \in [ClockIds -> Int] /\ s.k \in CT!Indices
      /\ s.n \in 0 .. ClockCapacity
  BY DEF CT!Sifting
<1>2. a \in [CT!Indices -> CT!Node]
  BY <1>1
<1>3. j \in Int /\ s.k \in Int
  BY <1>1 DEF CT!Indices, ClockConstants
<1> HIDE DEF a
<1>4. g \in [ClockIds -> Int]
  BY <1>1, <1>3
<1>7. CT!Swapped(s, j) = [array |-> a, ref |-> g, k |-> j, n |-> s.n]
  BY DEF CT!Swapped, CT!At, a, g
<1> HIDE DEF g
<1>8. CT!Swapped(s, j) \in CT!Sifting
  BY <1>1, <1>2, <1>4, <1>7 DEF CT!Sifting
<1> QED
  BY <1>7, <1>8 DEF a

UpEnds(s) == s.k = 0 \/ CT!Less(s.array, CT!Parent(s.k), s.k)
DownEnds(s) == 2 * s.k + 1 >= s.n \/ CT!Less(s.array, s.k, CT!SmallerChild(s))

LEMMA SiftingFacts ==
    ASSUME ClockConstants, NEW s \in CT!Sifting
    PROVE  /\ s.k \in Nat /\ s.k < ClockCapacity /\ s.n \in Nat /\ s.n <= ClockCapacity
           /\ CT!Indices = 0 .. ClockCapacity - 1
           /\ s.array \in [CT!Indices -> CT!Node] /\ s.ref \in [ClockIds -> Int]
           /\ \A j \in CT!Indices : s.array[j].expires \in Nat
BY DEF CT!Sifting, CT!Indices, CT!Node, ClockConstants

\* Where the loops go stays within the array.
LEMMA PassTypes ==
    ASSUME ClockConstants, NEW s \in CT!Sifting
    PROVE  /\ ~UpEnds(s) => /\ CT!Parent(s.k) \in CT!Indices /\ CT!Parent(s.k) < s.k
                            /\ CT!Parent(s.k) \in Nat
           /\ ~DownEnds(s) => /\ CT!SmallerChild(s) \in CT!Indices /\ CT!SmallerChild(s) < s.n
                              /\ CT!SmallerChild(s) \in Nat /\ s.k < CT!SmallerChild(s)
                              /\ CT!Parent(CT!SmallerChild(s)) = s.k
<1>1. /\ s.k \in Nat /\ s.k < ClockCapacity /\ s.n \in Nat /\ s.n <= ClockCapacity
      /\ CT!Indices = 0 .. ClockCapacity - 1 /\ ClockCapacity \in Nat
  BY SiftingFacts DEF ClockConstants
<1>2. ASSUME ~UpEnds(s)
      PROVE  /\ CT!Parent(s.k) \in CT!Indices /\ CT!Parent(s.k) < s.k /\ CT!Parent(s.k) \in Nat
  <2>1. s.k >= 1
    BY <1>1, <1>2 DEF UpEnds
  <2>2. CT!Parent(s.k) \in Nat /\ CT!Parent(s.k) < s.k
    BY <1>1, <2>1, ParentPlaces
  <2> QED
    BY <1>1, <2>2
<1>3. ASSUME ~DownEnds(s)
      PROVE  /\ CT!SmallerChild(s) \in CT!Indices /\ CT!SmallerChild(s) < s.n
             /\ CT!SmallerChild(s) \in Nat /\ s.k < CT!SmallerChild(s)
             /\ CT!Parent(CT!SmallerChild(s)) = s.k
  <2>1. 2 * s.k + 1 < s.n
    BY <1>1, <1>3 DEF DownEnds
  <2>2. \/ CT!SmallerChild(s) = 2 * s.k + 1
        \/ CT!SmallerChild(s) = 2 * s.k + 2 /\ 2 * s.k + 2 < s.n
    BY DEF CT!SmallerChild
  <2>3. /\ CT!SmallerChild(s) \in Nat /\ CT!SmallerChild(s) < s.n /\ s.k < CT!SmallerChild(s)
        /\ CT!SmallerChild(s) >= 1
    BY <1>1, <2>1, <2>2
  <2>4. CT!Parent(CT!SmallerChild(s)) = s.k
    BY <1>1, <2>2, <2>3, ParentPlaces
  <2> QED
    BY <1>1, <2>3, <2>4
<1> QED
  BY <1>2, <1>3

LEMMA LoopsExist ==
    ASSUME ClockConstants
    PROVE  IsUp(CT!heapSiftUp) /\ IsDown(CT!heapSiftDown)
<1>1. \E f : IsUp(f)
  <2> DEFINE X == CT!Sifting
             stop == {s \in X : UpEnds(s)}
             val == [s \in X |-> s]
             nx == [s \in X |-> CT!Swapped(s, CT!Parent(s.k))]
  <2>1. \A s \in X \ stop : nx[s] \in X
    <3> SUFFICES ASSUME NEW s \in X, ~UpEnds(s) PROVE CT!Swapped(s, CT!Parent(s.k)) \in X
      OBVIOUS
    <3>1. CT!Parent(s.k) \in CT!Indices
      BY PassTypes
    <3> QED
      BY <3>1, SwappedFacts
  <2>2. stop \in SUBSET X /\ \A s \in X : val[s] = s /\ nx[s] = CT!Swapped(s, CT!Parent(s.k))
    OBVIOUS
  <2> HIDE DEF nx, val
  <2>3. PICK f : IsDescent(f, X, stop, val, nx)
    BY <2>1, <2>2, DescentExists
  <2>4. [s \in X |-> IF s \in stop THEN val[s] ELSE f[nx[s]]]
          = [s \in X |-> IF UpEnds(s) THEN s ELSE f[CT!Swapped(s, CT!Parent(s.k))]]
    <3>1. \A s \in X : (IF s \in stop THEN val[s] ELSE f[nx[s]])
                       = IF UpEnds(s) THEN s ELSE f[CT!Swapped(s, CT!Parent(s.k))]
      BY <2>2
    <3> QED
      BY <3>1
  <2>5. f = [s \in X |-> IF s \in stop THEN val[s] ELSE f[nx[s]]]
    BY <2>3 DEF IsDescent
  <2> QED
    BY <2>4, <2>5, Zenon DEF IsUp, UpEnds
<1>2. \E f : IsDown(f)
  <2> DEFINE X == CT!Sifting
             stop == {s \in X : DownEnds(s)}
             val == [s \in X |-> s]
             nx == [s \in X |-> CT!Swapped(s, CT!SmallerChild(s))]
  <2>1. \A s \in X \ stop : nx[s] \in X
    <3> SUFFICES ASSUME NEW s \in X, ~DownEnds(s) PROVE CT!Swapped(s, CT!SmallerChild(s)) \in X
      OBVIOUS
    <3>1. CT!SmallerChild(s) \in CT!Indices
      BY PassTypes
    <3> QED
      BY <3>1, SwappedFacts
  <2>2. stop \in SUBSET X /\ \A s \in X : val[s] = s /\ nx[s] = CT!Swapped(s, CT!SmallerChild(s))
    OBVIOUS
  <2> HIDE DEF nx, val
  <2>3. PICK f : IsDescent(f, X, stop, val, nx)
    BY <2>1, <2>2, DescentExists
  <2>4. [s \in X |-> IF s \in stop THEN val[s] ELSE f[nx[s]]]
          = [s \in X |-> IF DownEnds(s) THEN s ELSE f[CT!Swapped(s, CT!SmallerChild(s))]]
    <3>1. \A s \in X : (IF s \in stop THEN val[s] ELSE f[nx[s]])
                       = IF DownEnds(s) THEN s ELSE f[CT!Swapped(s, CT!SmallerChild(s))]
      BY <2>2
    <3> QED
      BY <3>1
  <2>5. f = [s \in X |-> IF s \in stop THEN val[s] ELSE f[nx[s]]]
    BY <2>3 DEF IsDescent
  <2> QED
    BY <2>4, <2>5, Zenon DEF IsDown, DownEnds
<1> QED
  BY <1>1, <1>2, LoopsAre, Zenon

\* The loops pass by pass.
LEMMA LoopPass ==
    ASSUME ClockConstants, NEW s \in CT!Sifting
    PROVE  /\ CT!heapSiftUp[s] = IF UpEnds(s) THEN s
                                 ELSE CT!heapSiftUp[CT!Swapped(s, CT!Parent(s.k))]
           /\ CT!heapSiftDown[s] = IF DownEnds(s) THEN s
                                   ELSE CT!heapSiftDown[CT!Swapped(s, CT!SmallerChild(s))]
<1>1. IsUp(CT!heapSiftUp) /\ IsDown(CT!heapSiftDown)
  BY LoopsExist
<1>2. \A f : IsUp(f) => f[s] = IF UpEnds(s) THEN s ELSE f[CT!Swapped(s, CT!Parent(s.k))]
  BY DEF IsUp, UpEnds
<1>3. \A f : IsDown(f) => f[s] = IF DownEnds(s) THEN s
                                 ELSE f[CT!Swapped(s, CT!SmallerChild(s))]
  BY DEF IsDown, DownEnds
<1> QED
  BY <1>1, <1>2, <1>3, Zenon

-----------------------------------------------------------------------------
(* The order of the heap of the library.                                   *)

\* Node j of the heap is not earlier than its parent, or than its parent's parent.
LaterAt(a, j) == a[CT!Parent(j)].expires <= a[j].expires
PastAt(a, j)  == a[CT!Parent(CT!Parent(j))].expires <= a[j].expires

\* The order, but for the node at k: before it goes down, on its way down, on its way up.
InOrder(a, n) == \A j \in 1 .. n - 1 : LaterAt(a, j)
Held(a, k, n) == k > 0 => \A j \in 1 .. n - 1 : CT!Parent(j) = k => PastAt(a, j)
Around(a, k, n) ==
    Held(a, k, n) /\ \A j \in 1 .. n - 1 : CT!Parent(j) # k /\ j # k => LaterAt(a, j)
Sinking(a, k, n) ==
    Held(a, k, n) /\ \A j \in 1 .. n - 1 : CT!Parent(j) # k => LaterAt(a, j)
Rising(a, k, n) == Held(a, k, n) /\ \A j \in 1 .. n - 1 : j # k => LaterAt(a, j)

\* Where the nodes and their parents are.
LEMMA PlacesIn ==
    ASSUME ClockConstants, NEW u \in Nat, u <= ClockCapacity, NEW j \in 1 .. u - 1
    PROVE  /\ j \in Nat /\ j \in CT!Indices /\ CT!Parent(j) \in Nat /\ CT!Parent(j) < j
           /\ CT!Parent(j) \in CT!Indices
           /\ CT!Parent(j) > 0 =>
                 /\ CT!Parent(j) \in 1 .. u - 1
                 /\ CT!Parent(CT!Parent(j)) \in Nat /\ CT!Parent(CT!Parent(j)) < CT!Parent(j)
                 /\ CT!Parent(CT!Parent(j)) \in CT!Indices
<1>1. j \in Nat /\ j >= 1 /\ j < u /\ ClockCapacity \in Nat
  BY DEF ClockConstants
<1>2. CT!Parent(j) \in Nat /\ CT!Parent(j) < j
  BY <1>1, ParentPlaces
<1>3. \A p \in Nat : p > 0 => CT!Parent(p) \in Nat /\ CT!Parent(p) < p
  <2> SUFFICES ASSUME NEW p \in Nat, p > 0 PROVE CT!Parent(p) \in Nat /\ CT!Parent(p) < p
    OBVIOUS
  <2>1. p >= 1
    OBVIOUS
  <2> QED
    BY <2>1, ParentPlaces
<1>4. CT!Indices = 0 .. ClockCapacity - 1
  BY DEF CT!Indices
<1>5. ASSUME NEW p \in Nat, p < u PROVE p \in CT!Indices /\ (p > 0 => p \in 1 .. u - 1)
  BY <1>1, <1>4, <1>5
<1>6. j \in CT!Indices /\ CT!Parent(j) \in CT!Indices
      /\ (CT!Parent(j) > 0 => CT!Parent(j) \in 1 .. u - 1)
  <2>1. CT!Parent(j) < u
    BY <1>1, <1>2
  <2> QED
    BY <1>1, <1>2, <1>5, <2>1
<1>7. ASSUME CT!Parent(j) > 0
      PROVE  /\ CT!Parent(CT!Parent(j)) \in Nat /\ CT!Parent(CT!Parent(j)) < CT!Parent(j)
             /\ CT!Parent(CT!Parent(j)) \in CT!Indices
  <2>1. CT!Parent(CT!Parent(j)) \in Nat /\ CT!Parent(CT!Parent(j)) < CT!Parent(j)
    BY <1>2, <1>3, <1>7
  <2>2. CT!Parent(CT!Parent(j)) < u
    BY <1>1, <1>2, <2>1
  <2> QED
    BY <2>1, <2>2, <1>5
<1> QED
  BY <1>1, <1>2, <1>6, <1>7

\* The child the loop goes down to is not later than the other.
LEMMA SmallerIs ==
    ASSUME ClockConstants, NEW s \in CT!Sifting, ~DownEnds(s)
    PROVE  LET c == CT!SmallerChild(s)
           IN  /\ s.array[c].expires <= s.array[s.k].expires
               /\ \A j \in 1 .. s.n - 1 : CT!Parent(j) = s.k =>
                     s.array[c].expires <= s.array[j].expires
<1> DEFINE c == CT!SmallerChild(s)
           E(j) == s.array[j].expires
<1>1. /\ s.k \in Nat /\ s.n \in Nat /\ s.n <= ClockCapacity /\ s.k \in CT!Indices
      /\ \A j \in CT!Indices : E(j) \in Nat
  BY SiftingFacts DEF CT!Sifting
<1>2. 2 * s.k + 1 < s.n /\ ~(E(s.k) < E(c)) /\ c \in CT!Indices
  BY <1>1, PassTypes DEF DownEnds, CT!Less
<1>3. /\ \/ c = 2 * s.k + 1 /\ ~(2 * s.k + 2 < s.n /\ E(2 * s.k + 2) < E(2 * s.k + 1))
         \/ c = 2 * s.k + 2 /\ 2 * s.k + 2 < s.n /\ E(2 * s.k + 2) < E(2 * s.k + 1)
  BY DEF CT!SmallerChild, CT!Less
<1>4. ASSUME NEW j \in 1 .. s.n - 1, CT!Parent(j) = s.k PROVE E(c) <= E(j)
  <2>1. j \in Nat /\ j \in CT!Indices /\ j >= 1 /\ j < s.n
    BY <1>1, PlacesIn
  <2>2. j = 2 * s.k + 1 \/ j = 2 * s.k + 2
    BY <1>1, <1>4, <2>1, ParentPlaces
  <2>3. E(j) \in Nat /\ E(c) \in Nat
    BY <1>1, <1>2, <2>1
  <2>4. 2 * s.k + 1 \in CT!Indices
    <3>1. 2 * s.k + 1 \in 1 .. s.n - 1
      BY <1>1, <1>2
    <3> QED
      BY <1>1, <3>1, PlacesIn
  <2>5. E(2 * s.k + 1) \in Nat
    BY <1>1, <2>4
  <2> HIDE DEF E, c
  <2> QED
    BY <1>3, <2>1, <2>2, <2>3, <2>5
<1>5. E(c) <= E(s.k)
  <2>1. E(c) \in Nat /\ E(s.k) \in Nat
    BY <1>1, <1>2
  <2> HIDE DEF E, c
  <2> QED
    BY <1>2, <2>1
<1> QED
  BY <1>4, <1>5

\* What a pass leaves of the times.
LEMMA PassTimes ==
    ASSUME ClockConstants, NEW s \in CT!Sifting, NEW j \in CT!Indices, j # s.k
    PROVE  LET b == CT!Swapped(s, j).array
           IN  /\ b[s.k].expires = s.array[j].expires /\ b[j].expires = s.array[s.k].expires
               /\ \A l \in CT!Indices : l # j /\ l # s.k => b[l].expires = s.array[l].expires
<1>1. /\ s.array \in [CT!Indices -> CT!Node] /\ s.k \in CT!Indices
  BY DEF CT!Sifting
<1>2. CT!Swapped(s, j).array = [s.array EXCEPT ![s.k] = s.array[j], ![j] = s.array[s.k]]
  BY SwappedFacts
<1> QED
  BY <1>1, <1>2

\* A node that goes down is no longer earlier than the ones above it.
LEMMA SinkPass ==
    ASSUME ClockConstants, NEW s \in CT!Sifting, Around(s.array, s.k, s.n), ~DownEnds(s)
    PROVE  LET r == CT!Swapped(s, CT!SmallerChild(s)) IN Sinking(r.array, r.k, r.n)
<1> DEFINE c == CT!SmallerChild(s)
           r == CT!Swapped(s, c)
           E(j) == s.array[j].expires
           F(j) == r.array[j].expires
<1>1. /\ s.k \in Nat /\ s.n \in Nat /\ s.n <= ClockCapacity /\ s.k \in CT!Indices
      /\ \A j \in CT!Indices : E(j) \in Nat
  BY SiftingFacts DEF CT!Sifting
<1>2. /\ c \in CT!Indices /\ c \in Nat /\ s.k < c /\ c < s.n /\ CT!Parent(c) = s.k
  BY PassTypes
<1>3. E(c) <= E(s.k) /\ \A j \in 1 .. s.n - 1 : CT!Parent(j) = s.k => E(c) <= E(j)
  BY SmallerIs
<1>4. r.k = c /\ r.n = s.n
  BY <1>2, SwappedFacts
<1>5. /\ F(s.k) = E(c) /\ F(c) = E(s.k)
      /\ \A l \in CT!Indices : l # c /\ l # s.k => F(l) = E(l)
  BY <1>1, <1>2, PassTimes
<1>6. /\ \A j \in 1 .. s.n - 1 : CT!Parent(j) # s.k /\ j # s.k => E(CT!Parent(j)) <= E(j)
      /\ s.k > 0 => \A j \in 1 .. s.n - 1 : CT!Parent(j) = s.k =>
                       E(CT!Parent(CT!Parent(j))) <= E(j)
  BY DEF Around, Held, LaterAt, PastAt
<1>7. \A j \in 1 .. s.n - 1 :
        /\ j \in Nat /\ j > 0 /\ j \in CT!Indices /\ CT!Parent(j) \in Nat /\ CT!Parent(j) < j
        /\ CT!Parent(j) \in CT!Indices
  BY <1>1, PlacesIn
<1>8. c \in 1 .. s.n - 1
  BY <1>1, <1>2
<1> SUFFICES /\ \A j \in 1 .. s.n - 1 : CT!Parent(j) = c => F(CT!Parent(CT!Parent(j))) <= F(j)
             /\ \A j \in 1 .. s.n - 1 : CT!Parent(j) # c => F(CT!Parent(j)) <= F(j)
  BY <1>4 DEF Sinking, Held, LaterAt, PastAt
<1> HIDE DEF E, F, r, c
<1>9. ASSUME NEW j \in 1 .. s.n - 1, CT!Parent(j) = c
      PROVE  F(CT!Parent(CT!Parent(j))) <= F(j)
  <2>1. j # s.k /\ j # c /\ j \in CT!Indices
    BY <1>2, <1>1, <1>7, <1>9
  <2>2. E(c) <= E(j)
    BY <1>2, <1>1, <1>6, <1>9, <2>1
  <2>3. F(j) = E(j) /\ CT!Parent(CT!Parent(j)) = s.k
    BY <1>2, <1>5, <1>9, <2>1
  <2> QED
    BY <1>5, <2>2, <2>3
<1>10. ASSUME NEW j \in 1 .. s.n - 1, CT!Parent(j) # c
       PROVE  F(CT!Parent(j)) <= F(j)
  <2>1. CASE j = c
    BY <1>2, <1>3, <1>5, <2>1
  <2>2. CASE j = s.k
    <3>1. s.k > 0 /\ CT!Parent(j) # s.k /\ CT!Parent(j) # c /\ CT!Parent(j) \in CT!Indices
      BY <1>1, <1>2, <1>7, <1>10, <2>2
    <3>2. E(CT!Parent(s.k)) <= E(c)
      BY <1>2, <1>6, <1>8, <3>1
    <3>3. F(CT!Parent(j)) = E(CT!Parent(j)) /\ F(j) = E(c)
      BY <1>5, <2>2, <3>1
    <3> QED
      BY <2>2, <3>2, <3>3
  <2>3. CASE j # c /\ j # s.k /\ CT!Parent(j) = s.k
    <3>1. F(j) = E(j) /\ E(c) <= E(j)
      BY <1>3, <1>5, <1>7, <2>3
    <3> QED
      BY <1>5, <2>3, <3>1
  <2>4. CASE j # c /\ j # s.k /\ CT!Parent(j) # s.k
    <3>1. F(j) = E(j) /\ F(CT!Parent(j)) = E(CT!Parent(j))
      BY <1>5, <1>7, <1>10, <2>4
    <3> QED
      BY <1>6, <2>4, <3>1
  <2> QED
    BY <2>1, <2>2, <2>3, <2>4
<1> QED
  BY <1>9, <1>10

\* A node that goes up is not later than the ones below it.
LEMMA RisePass ==
    ASSUME ClockConstants, NEW s \in CT!Sifting, Rising(s.array, s.k, s.n), s.k < s.n,
           ~UpEnds(s)
    PROVE  LET r == CT!Swapped(s, CT!Parent(s.k)) IN Rising(r.array, r.k, r.n)
<1> DEFINE p == CT!Parent(s.k)
           r == CT!Swapped(s, p)
           E(j) == s.array[j].expires
           F(j) == r.array[j].expires
<1>1. /\ s.k \in Nat /\ s.n \in Nat /\ s.n <= ClockCapacity /\ s.k \in CT!Indices
      /\ \A j \in CT!Indices : E(j) \in Nat
  BY SiftingFacts DEF CT!Sifting
<1>2. p \in CT!Indices /\ p \in Nat /\ p < s.k
  BY PassTypes
<1>3. s.k # 0 /\ E(s.k) <= E(p)
  <2>1. s.k # 0 /\ ~(E(p) < E(s.k))
    BY DEF UpEnds, CT!Less
  <2>2. E(p) \in Nat /\ E(s.k) \in Nat
    BY <1>1, <1>2
  <2> HIDE DEF E, p
  <2> QED
    BY <2>1, <2>2
<1>4. r.k = p /\ r.n = s.n
  BY <1>2, SwappedFacts
<1>5. /\ F(s.k) = E(p) /\ F(p) = E(s.k)
      /\ \A l \in CT!Indices : l # p /\ l # s.k => F(l) = E(l)
  BY <1>1, <1>2, PassTimes
<1>6. /\ \A j \in 1 .. s.n - 1 : j # s.k => E(CT!Parent(j)) <= E(j)
      /\ \A j \in 1 .. s.n - 1 : CT!Parent(j) = s.k => E(CT!Parent(CT!Parent(j))) <= E(j)
  BY <1>1, <1>3 DEF Rising, Held, LaterAt, PastAt
<1>7. \A j \in 1 .. s.n - 1 :
        /\ j \in Nat /\ j > 0 /\ j \in CT!Indices /\ CT!Parent(j) \in Nat /\ CT!Parent(j) < j
        /\ CT!Parent(j) \in CT!Indices /\ E(j) \in Nat /\ E(CT!Parent(j)) \in Nat
        /\ CT!Parent(j) > 0 =>
              /\ CT!Parent(CT!Parent(j)) \in Nat /\ CT!Parent(CT!Parent(j)) < CT!Parent(j)
              /\ CT!Parent(CT!Parent(j)) \in CT!Indices
  <2> SUFFICES ASSUME NEW j \in 1 .. s.n - 1
               PROVE  /\ j \in Nat /\ j > 0 /\ j \in CT!Indices /\ CT!Parent(j) \in Nat
                      /\ CT!Parent(j) < j
                      /\ CT!Parent(j) \in CT!Indices /\ E(j) \in Nat /\ E(CT!Parent(j)) \in Nat
                      /\ CT!Parent(j) > 0 =>
                            /\ CT!Parent(CT!Parent(j)) \in Nat
                            /\ CT!Parent(CT!Parent(j)) < CT!Parent(j)
                            /\ CT!Parent(CT!Parent(j)) \in CT!Indices
    OBVIOUS
  <2>1. j > 0
    BY <1>1
  <2> QED
    BY <1>1, <2>1, PlacesIn
<1>8. s.k \in 1 .. s.n - 1 /\ (p > 0 => p \in 1 .. s.n - 1)
  BY <1>1, <1>2, <1>3
<1>9. CT!Parent(s.k) = p
  OBVIOUS
<1>10. E(p) \in Nat /\ E(s.k) \in Nat
  BY <1>1, <1>2
<1> SUFFICES /\ p > 0 => \A j \in 1 .. s.n - 1 : CT!Parent(j) = p =>
                            F(CT!Parent(CT!Parent(j))) <= F(j)
             /\ \A j \in 1 .. s.n - 1 : j # p => F(CT!Parent(j)) <= F(j)
  BY <1>4 DEF Rising, Held, LaterAt, PastAt
<1> HIDE DEF E, F, r, p
<1>11. ASSUME p > 0, NEW j \in 1 .. s.n - 1, CT!Parent(j) = p
       PROVE  F(CT!Parent(CT!Parent(j))) <= F(j)
  <2> DEFINE q == CT!Parent(p)
  <2>1. p \in 1 .. s.n - 1 /\ p # s.k
    BY <1>2, <1>1, <1>8, <1>11
  <2>2. q \in CT!Indices /\ q \in Nat /\ q < p /\ E(q) <= E(p) /\ E(q) \in Nat
    BY <2>1, <1>6, <1>7
  <2> HIDE DEF q
  <2>3. F(q) = E(q)
    BY <1>1, <1>2, <1>5, <2>2
  <2>4. E(p) <= F(j)
    <3>1. CASE j = s.k
      BY <1>5, <1>10, <3>1
    <3>2. CASE j # s.k
      <4>1. E(p) <= E(j) /\ j # p /\ j \in CT!Indices
        BY <1>6, <1>7, <1>11, <3>2, <1>2
      <4> QED
        BY <4>1, <1>5, <3>2
    <3> QED
      BY <3>1, <3>2
  <2>5. F(j) \in Nat
    BY <1>5, <1>7, <1>10
  <2>6. F(q) <= F(j)
    BY <2>2, <2>3, <2>4, <2>5, <1>10
  <2> QED
    BY <2>6, <1>11 DEF q
<1>12. ASSUME NEW j \in 1 .. s.n - 1, j # p
       PROVE  F(CT!Parent(j)) <= F(j)
  <2>1. CASE j = s.k
    BY <1>3, <1>5, <1>9, <2>1
  <2>2. CASE j # s.k /\ CT!Parent(j) = s.k
    <3>1. E(p) <= E(j)
      BY <1>6, <1>9, <2>2
    <3>2. F(j) = E(j)
      BY <1>5, <1>7, <1>12, <2>2
    <3> QED
      BY <1>5, <2>2, <3>1, <3>2
  <2>3. CASE j # s.k /\ CT!Parent(j) = p
    <3>1. E(p) <= E(j) /\ F(j) = E(j) /\ E(j) \in Nat
      BY <1>5, <1>6, <1>7, <1>12, <2>3
    <3> QED
      BY <1>3, <1>5, <1>10, <2>3, <3>1
  <2>4. CASE j # s.k /\ CT!Parent(j) # s.k /\ CT!Parent(j) # p
    <3>1. F(j) = E(j) /\ F(CT!Parent(j)) = E(CT!Parent(j))
      BY <1>5, <1>7, <1>12, <2>4
    <3> QED
      BY <1>6, <2>4, <3>1
  <2> QED
    BY <2>1, <2>2, <2>3, <2>4
<1> QED
  BY <1>11, <1>12

\* Where the loop down ends the children are later.
LEMMA EndLater ==
    ASSUME ClockConstants, NEW s \in CT!Sifting, s.k < s.n, DownEnds(s),
           NEW j \in 1 .. s.n - 1, CT!Parent(j) = s.k
    PROVE  LaterAt(s.array, j)
<1> DEFINE c == CT!SmallerChild(s)
           E(l) == s.array[l].expires
<1>1. /\ s.k \in Nat /\ s.n \in Nat /\ s.n <= ClockCapacity /\ s.k \in CT!Indices
      /\ \A l \in CT!Indices : E(l) \in Nat
  BY SiftingFacts DEF CT!Sifting
<1>2. j \in Nat /\ j \in CT!Indices /\ j >= 1 /\ j < s.n
  BY <1>1, PlacesIn
<1>3. j = 2 * s.k + 1 \/ j = 2 * s.k + 2
  BY <1>1, <1>2, ParentPlaces
<1>4. 2 * s.k + 1 < s.n /\ E(s.k) < E(c)
  <2>1. ~(2 * s.k + 1 >= s.n)
    BY <1>1, <1>2, <1>3
  <2> QED
    BY <1>1, <2>1 DEF DownEnds, CT!Less
<1>5. /\ \/ c = 2 * s.k + 1 /\ ~(2 * s.k + 2 < s.n /\ E(2 * s.k + 2) < E(2 * s.k + 1))
         \/ c = 2 * s.k + 2 /\ 2 * s.k + 2 < s.n /\ E(2 * s.k + 2) < E(2 * s.k + 1)
  BY DEF CT!SmallerChild, CT!Less
<1>6. 2 * s.k + 1 \in CT!Indices
  <2>1. 2 * s.k + 1 \in 1 .. s.n - 1
    BY <1>1, <1>4
  <2> QED
    BY <1>1, <2>1, PlacesIn
<1>7. E(2 * s.k + 1) \in Nat /\ E(j) \in Nat /\ E(s.k) \in Nat
  BY <1>1, <1>2, <1>6
<1>9. E(c) \in Nat
  <2>1. c \in CT!Indices
    <3>1. ASSUME 2 * s.k + 2 < s.n PROVE 2 * s.k + 2 \in CT!Indices
      <4>1. 2 * s.k + 2 \in 1 .. s.n - 1
        BY <1>1, <3>1
      <4> QED
        BY <1>1, <4>1, PlacesIn
    <3> HIDE DEF E, c
    <3> QED
      BY <1>5, <1>6, <3>1
  <2> QED
    BY <1>1, <2>1
<1> HIDE DEF E, c
<1>8. E(s.k) <= E(j)
  <2>1. CASE j = 2 * s.k + 1
    <3>1. E(2 * s.k + 1) = E(j)
      BY <2>1
    <3>2. CASE c = 2 * s.k + 1
      BY <1>4, <1>7, <3>1, <3>2
    <3>3. CASE c = 2 * s.k + 2 /\ E(2 * s.k + 2) < E(2 * s.k + 1)
      <4>1. E(c) \in Nat /\ E(c) < E(j)
        BY <1>9, <3>1, <3>3
      <4> QED
        BY <1>4, <1>7, <4>1
    <3> QED
      BY <1>5, <3>2, <3>3
  <2>2. CASE j = 2 * s.k + 2
    <3>1. E(2 * s.k + 2) = E(j) /\ 2 * s.k + 2 < s.n
      BY <1>2, <2>2
    <3> QED
      BY <1>4, <1>5, <1>7, <3>1
  <2> QED
    BY <1>3, <2>1, <2>2
<1> QED
  BY <1>8 DEF LaterAt, E

-----------------------------------------------------------------------------
(* What the loops of the library's timer leave.                            *)

\* The first n nodes; no id is there twice; b has the nodes of a, in some order.
NodesOf(a, n) == {a[j] : j \in 0 .. n - 1}
Unique(a, n) == \A j, l \in 0 .. n - 1 : a[j].id = a[l].id => j = l
Permuted(a, b, n) == NodesOf(b, n) = NodesOf(a, n) /\ (Unique(a, n) => Unique(b, n))

LEMMA PermutedTwice ==
    ASSUME NEW a, NEW b, NEW c, NEW u, Permuted(a, b, u), Permuted(b, c, u)
    PROVE  Permuted(a, c, u)
BY DEF Permuted

LEMMA PassPermutes ==
    ASSUME ClockConstants, NEW s \in CT!Sifting, s.k < s.n, NEW j \in Nat, j < s.n
    PROVE  Permuted(s.array, CT!Swapped(s, j).array, s.n)
<1> DEFINE a == s.array
           b == [a EXCEPT ![s.k] = a[j], ![j] = a[s.k]]
<1>1. /\ s.k \in Nat /\ s.n \in Nat /\ s.n <= ClockCapacity /\ ClockCapacity \in Nat
      /\ CT!Indices = 0 .. ClockCapacity - 1 /\ a \in [CT!Indices -> CT!Node]
  BY SiftingFacts DEF ClockConstants
<1>2. j \in 0 .. s.n - 1 /\ s.k \in 0 .. s.n - 1 /\ j \in CT!Indices
      /\ \A l \in 0 .. s.n - 1 : l \in CT!Indices
  BY <1>1
<1>3. CT!Swapped(s, j).array = b
  BY <1>2, SwappedFacts
<1>4. /\ b[s.k] = a[j] /\ b[j] = a[s.k]
      /\ \A l \in 0 .. s.n - 1 : l # j /\ l # s.k => b[l] = a[l]
  BY <1>1, <1>2
<1> HIDE DEF a, b
<1>5. NodesOf(b, s.n) = NodesOf(a, s.n)
  <2>1. ASSUME NEW x \in NodesOf(a, s.n) PROVE x \in NodesOf(b, s.n)
    <3>1. PICK l \in 0 .. s.n - 1 : x = a[l]
      BY DEF NodesOf
    <3>2. \E m \in 0 .. s.n - 1 : x = b[m]
      BY <1>2, <1>4, <3>1
    <3> QED
      BY <3>2 DEF NodesOf
  <2>2. ASSUME NEW x \in NodesOf(b, s.n) PROVE x \in NodesOf(a, s.n)
    <3>1. PICK l \in 0 .. s.n - 1 : x = b[l]
      BY DEF NodesOf
    <3>2. \E m \in 0 .. s.n - 1 : x = a[m]
      BY <1>2, <1>4, <3>1
    <3> QED
      BY <3>2 DEF NodesOf
  <2> QED
    BY <2>1, <2>2
<1>6. ASSUME Unique(a, s.n) PROVE Unique(b, s.n)
  <2>1. \A x, y \in 0 .. s.n - 1 : a[x].id = a[y].id => x = y
    BY <1>6 DEF Unique
  <2> SUFFICES ASSUME NEW x \in 0 .. s.n - 1, NEW y \in 0 .. s.n - 1, b[x].id = b[y].id
               PROVE  x = y
    BY DEF Unique
  <2>2. CASE x = j
    BY <1>2, <1>4, <2>1, <2>2
  <2>3. CASE x = s.k
    BY <1>2, <1>4, <2>1, <2>3
  <2>4. CASE x # j /\ x # s.k
    BY <1>2, <1>4, <2>1, <2>4
  <2> QED
    BY <2>2, <2>3, <2>4
<1> QED
  BY <1>3, <1>5, <1>6 DEF Permuted, a

\* A sift down brings the nodes in order, once its node is not earlier than its parent.
LEMMA SinkResult ==
    ASSUME ClockConstants, NEW s \in CT!Sifting, s.k < s.n, Sinking(s.array, s.k, s.n)
    PROVE  LET r == CT!heapSiftDown[s]
           IN  /\ r \in CT!Sifting /\ r.n = s.n /\ r.k >= s.k
               /\ InOrder(r.array, s.n) /\ Permuted(s.array, r.array, s.n)
<1> DEFINE X == CT!Sifting
           stop == {r \in X : DownEnds(r)}
           nx == [r \in X |-> CT!Swapped(r, CT!SmallerChild(r))]
           m == [r \in X |-> r.n - r.k]
           P == {r \in X : /\ r.n = s.n /\ r.k < r.n /\ r.k >= s.k
                           /\ Sinking(r.array, r.k, r.n)
                           /\ Permuted(s.array, r.array, s.n)}
           f == CT!heapSiftDown
<1>1. \A r \in X : f[r] = IF r \in stop THEN r ELSE f[nx[r]]
  BY LoopPass
<1>2. \A r \in P : m[r] \in Nat
  <2> SUFFICES ASSUME NEW r \in P PROVE r.n - r.k \in Nat
    OBVIOUS
  <2>1. r.n \in Nat /\ r.k \in Nat /\ r.k < r.n
    BY SiftingFacts
  <2> QED
    BY <2>1
<1>3. ASSUME NEW r \in P \ stop PROVE nx[r] \in P /\ m[nx[r]] < m[r]
  <2> DEFINE c == CT!SmallerChild(r)
             q == CT!Swapped(r, c)
  <2>1. /\ r \in X /\ ~DownEnds(r) /\ r.n = s.n /\ r.k < r.n /\ r.k >= s.k
        /\ Sinking(r.array, r.k, r.n) /\ Permuted(s.array, r.array, s.n)
    OBVIOUS
  <2>2. /\ c \in CT!Indices /\ c \in Nat /\ r.k < c /\ c < r.n
    BY <2>1, PassTypes
  <2>3. q \in X /\ q.k = c /\ q.n = r.n
    BY <2>1, <2>2, SwappedFacts
  <2>4. Around(r.array, r.k, r.n)
    BY <2>1 DEF Around, Sinking
  <2>5. Sinking(q.array, q.k, q.n)
    BY <2>1, <2>4, SinkPass
  <2>6. Permuted(r.array, q.array, r.n)
    BY <2>1, <2>2, PassPermutes
  <2>7. r.k \in Nat /\ r.n \in Nat /\ s.k \in Nat
    BY <2>1, SiftingFacts
  <2> HIDE DEF q, c
  <2>8. Permuted(s.array, q.array, s.n)
    BY <2>1, <2>6, PermutedTwice
  <2>9. q.n = s.n /\ q.k < q.n /\ q.k >= s.k /\ q.n - q.k < r.n - r.k
    BY <2>1, <2>2, <2>3, <2>7
  <2>10. nx[r] = q
    BY <2>1 DEF q, c
  <2> QED
    BY <2>1, <2>3, <2>5, <2>8, <2>9, <2>10
<1>4. s \in P
  <2>1. Permuted(s.array, s.array, s.n)
    BY DEF Permuted
  <2>2. s.k >= s.k
    BY SiftingFacts
  <2> QED
    BY <2>1, <2>2
<1>5. P \in SUBSET X /\ stop \in SUBSET X
  OBVIOUS
<1> HIDE DEF X, stop, nx, m, P, f
<1>6. f[s] \in P /\ f[s] \in stop
  <2>1. Passes(f, stop, nx, P, m)
    BY <1>1, <1>2, <1>3, <1>5 DEF Passes
  <2>2. \A x \in P : f[x] \in P /\ f[x] \in stop
    BY <2>1, DescentKeeps
  <2> QED
    BY <1>4, <2>2
<1> DEFINE r == f[s]
<1>7. /\ r \in CT!Sifting /\ r.n = s.n /\ r.k < r.n /\ r.k >= s.k /\ Sinking(r.array, r.k, r.n)
      /\ Permuted(s.array, r.array, s.n) /\ DownEnds(r)
  BY <1>6 DEF P, stop, X
<1> HIDE DEF r
<1>8. InOrder(r.array, r.n)
  <2> SUFFICES ASSUME NEW j \in 1 .. r.n - 1 PROVE LaterAt(r.array, j)
    BY DEF InOrder
  <2>1. CASE CT!Parent(j) # r.k
    BY <1>7, <2>1 DEF Sinking
  <2>2. CASE CT!Parent(j) = r.k
    BY <1>7, <2>2, EndLater
  <2> QED
    BY <2>1, <2>2
<1> QED
  BY <1>7, <1>8 DEF r, f

\* A sift up brings the nodes in order, if its node alone may be too late in the heap.
LEMMA RiseResult ==
    ASSUME ClockConstants, NEW s \in CT!Sifting, s.k < s.n, Rising(s.array, s.k, s.n)
    PROVE  LET r == CT!heapSiftUp[s]
           IN  /\ r \in CT!Sifting /\ r.n = s.n
               /\ InOrder(r.array, s.n) /\ Permuted(s.array, r.array, s.n)
<1> DEFINE X == CT!Sifting
           stop == {r \in X : UpEnds(r)}
           nx == [r \in X |-> CT!Swapped(r, CT!Parent(r.k))]
           m == [r \in X |-> r.k]
           P == {r \in X : /\ r.n = s.n /\ r.k < r.n
                           /\ Rising(r.array, r.k, r.n)
                           /\ Permuted(s.array, r.array, s.n)}
           f == CT!heapSiftUp
<1>1. \A r \in X : f[r] = IF r \in stop THEN r ELSE f[nx[r]]
  BY LoopPass
<1>2. \A r \in P : m[r] \in Nat
  BY SiftingFacts
<1>3. ASSUME NEW r \in P \ stop PROVE nx[r] \in P /\ m[nx[r]] < m[r]
  <2> DEFINE c == CT!Parent(r.k)
             q == CT!Swapped(r, c)
  <2>1. /\ r \in X /\ ~UpEnds(r) /\ r.n = s.n /\ r.k < r.n
        /\ Rising(r.array, r.k, r.n) /\ Permuted(s.array, r.array, s.n)
    OBVIOUS
  <2>2. c \in CT!Indices /\ c \in Nat /\ c < r.k
    BY <2>1, PassTypes
  <2>3. q \in X /\ q.k = c /\ q.n = r.n
    BY <2>1, <2>2, SwappedFacts
  <2>4. Rising(q.array, q.k, q.n)
    BY <2>1, RisePass
  <2>5. r.k \in Nat /\ r.n \in Nat
    BY <2>1, SiftingFacts
  <2>6. Permuted(r.array, q.array, r.n)
    <3>1. c < r.n
      <4> HIDE DEF c
      <4> QED
        BY <2>1, <2>2, <2>5
    <3> QED
      BY <2>1, <2>2, <3>1, PassPermutes
  <2> HIDE DEF q, c
  <2>7. Permuted(s.array, q.array, s.n)
    BY <2>1, <2>6, PermutedTwice
  <2>8. q.n = s.n /\ q.k < q.n /\ q.k < r.k
    BY <2>1, <2>2, <2>3, <2>5
  <2>9. nx[r] = q
    BY <2>1 DEF q, c
  <2> QED
    BY <2>1, <2>3, <2>4, <2>7, <2>8, <2>9
<1>4. s \in P
  <2>1. Permuted(s.array, s.array, s.n)
    BY DEF Permuted
  <2> QED
    BY <2>1
<1>5. P \in SUBSET X /\ stop \in SUBSET X
  OBVIOUS
<1> HIDE DEF X, stop, nx, m, P, f
<1>6. f[s] \in P /\ f[s] \in stop
  <2>1. Passes(f, stop, nx, P, m)
    BY <1>1, <1>2, <1>3, <1>5 DEF Passes
  <2>2. \A x \in P : f[x] \in P /\ f[x] \in stop
    BY <2>1, DescentKeeps
  <2> QED
    BY <1>4, <2>2
<1> DEFINE r == f[s]
<1>7. /\ r \in CT!Sifting /\ r.n = s.n /\ r.k < r.n /\ Rising(r.array, r.k, r.n)
      /\ Permuted(s.array, r.array, s.n) /\ UpEnds(r)
  BY <1>6 DEF P, stop, X
<1> HIDE DEF r
<1>8. InOrder(r.array, r.n)
  <2> SUFFICES ASSUME NEW j \in 1 .. r.n - 1 PROVE LaterAt(r.array, j)
    BY DEF InOrder
  <2>1. CASE j # r.k
    BY <1>7, <2>1 DEF Rising
  <2>2. CASE j = r.k
    <3>1. /\ r.k \in Nat /\ r.n \in Nat /\ r.n <= ClockCapacity
          /\ \A l \in CT!Indices : r.array[l].expires \in Nat
      BY <1>7, SiftingFacts
    <3>2. j \in CT!Indices /\ CT!Parent(j) \in CT!Indices /\ j # 0
      BY <3>1, PlacesIn
    <3>3. r.array[CT!Parent(j)].expires < r.array[j].expires
      BY <1>7, <2>2, <3>2 DEF UpEnds, CT!Less
    <3>4. r.array[CT!Parent(j)].expires \in Nat /\ r.array[j].expires \in Nat
      BY <3>1, <3>2
    <3> QED
      BY <3>3, <3>4 DEF LaterAt
  <2> QED
    BY <2>1, <2>2
<1> QED
  BY <1>7, <1>8 DEF r, f

\* A sift, down or else up, brings the nodes in order.
LEMMA SiftResult ==
    ASSUME ClockConstants, NEW s \in CT!Sifting, s.k < s.n, Around(s.array, s.k, s.n)
    PROVE  LET r == CT!Sift(s)
           IN  /\ r \in CT!Sifting /\ r.n = s.n
               /\ InOrder(r.array, s.n) /\ Permuted(s.array, r.array, s.n)
<1>1. s.k \in Nat /\ s.n \in Nat
  BY SiftingFacts
<1>2. CASE DownEnds(s)
  <2>1. CT!heapSiftDown[s] = s
    BY <1>2, LoopPass
  <2>2. CT!Sift(s) = CT!heapSiftUp[s]
    BY <2>1 DEF CT!Sift
  <2>3. Rising(s.array, s.k, s.n)
    BY <1>2, EndLater DEF Rising, Around
  <2> QED
    BY <2>2, <2>3, RiseResult
<1>3. CASE ~DownEnds(s)
  <2> DEFINE c == CT!SmallerChild(s)
             q == CT!Swapped(s, c)
  <2>1. c \in CT!Indices /\ c \in Nat /\ s.k < c /\ c < s.n
    BY <1>3, PassTypes
  <2>2. q \in CT!Sifting /\ q.k = c /\ q.n = s.n
    BY <2>1, SwappedFacts
  <2>3. Sinking(q.array, q.k, q.n)
    BY <1>3, SinkPass
  <2>4. Permuted(s.array, q.array, s.n)
    BY <2>1, PassPermutes
  <2>5. CT!heapSiftDown[s] = CT!heapSiftDown[q]
    BY <1>3, LoopPass
  <2> HIDE DEF q, c
  <2> DEFINE r == CT!heapSiftDown[q]
  <2>6. /\ r \in CT!Sifting /\ r.n = q.n /\ r.k >= q.k
        /\ InOrder(r.array, q.n) /\ Permuted(q.array, r.array, q.n)
    BY <2>1, <2>2, <2>3, SinkResult
  <2>7. r.k \in Nat
    BY <2>6, SiftingFacts
  <2> HIDE DEF r
  <2>8. r.k # s.k
    BY <1>1, <2>1, <2>2, <2>6, <2>7
  <2>9. CT!Sift(s) = r
    BY <2>5, <2>8 DEF CT!Sift, r
  <2>10. Permuted(s.array, r.array, s.n)
    BY <2>2, <2>4, <2>6, PermutedTwice
  <2> QED
    BY <2>2, <2>6, <2>9, <2>10
<1> QED
  BY <1>2, <1>3

-----------------------------------------------------------------------------
(* The operations of the library's timer, while gs_ref tells the truth.    *)

\* The array a, the map g and the first n nodes, between two operations.
Ready(a, g, n) ==
    /\ a \in [CT!Indices -> CT!Node] /\ g \in [ClockIds -> Int] /\ n \in 0 .. ClockCapacity
    /\ InOrder(a, n) /\ Unique(a, n)
    /\ \A x \in NodesOf(a, n) : x.id \in ClockIds

LEMMA ReadyFacts ==
    ASSUME ClockConstants, NEW a, NEW g, NEW u, Ready(a, g, u)
    PROVE  /\ u \in Nat /\ u <= ClockCapacity /\ ClockCapacity \in Nat
           /\ CT!Indices = 0 .. ClockCapacity - 1
           /\ a \in [CT!Indices -> CT!Node]
           /\ \A j \in CT!Indices : a[j].expires \in Nat
           /\ \A j \in 0 .. u - 1 : /\ j \in Nat /\ j \in CT!Indices /\ j < u
                                    /\ a[j] \in NodesOf(a, u) /\ a[j].id \in ClockIds
BY DEF Ready, CT!Indices, CT!Node, NodesOf, ClockConstants

\* In order, no node is earlier than its parent's parent.
LEMMA OrderKept ==
    ASSUME ClockConstants, NEW a, NEW g, NEW u, Ready(a, g, u),
           NEW j \in 1 .. u - 1, CT!Parent(j) > 0
    PROVE  PastAt(a, j)
<1> DEFINE p == CT!Parent(j)
           q == CT!Parent(p)
<1>1. /\ u \in Nat /\ u <= ClockCapacity /\ \A l \in CT!Indices : a[l].expires \in Nat
  BY ReadyFacts
<1>2. /\ j \in CT!Indices /\ p \in CT!Indices /\ p \in 1 .. u - 1 /\ q \in CT!Indices
  BY <1>1, PlacesIn
<1>3. a[p].expires <= a[j].expires /\ a[q].expires <= a[p].expires
  BY <1>2 DEF Ready, InOrder, LaterAt
<1>4. a[p].expires \in Nat /\ a[j].expires \in Nat /\ a[q].expires \in Nat
  BY <1>1, <1>2
<1> SUFFICES a[q].expires <= a[j].expires
  BY DEF PastAt
<1> HIDE DEF p, q
<1> QED
  BY <1>3, <1>4

\* The node at k gets another one in its place: the order can be wrong only around it,
\* and only above it if the new one is not earlier.
LEMMA OneChanged ==
    ASSUME ClockConstants, NEW a, NEW g, NEW u, Ready(a, g, u), NEW k \in Nat,
           NEW b, NEW l \in Nat, l <= u, k < l,
           \A j \in CT!Indices : j # k /\ j < l => b[j] = a[j]
    PROVE  /\ Around(b, k, l)
           /\ b[k].expires \in Nat /\ a[k].expires <= b[k].expires => Sinking(b, k, l)
<1>1. /\ u \in Nat /\ u <= ClockCapacity /\ \A j \in CT!Indices : a[j].expires \in Nat
      /\ ClockCapacity \in Nat
  BY ReadyFacts
<1>2. l <= ClockCapacity
  BY <1>1
<1>3. \A j \in 1 .. l - 1 :
        /\ j \in Nat /\ j \in CT!Indices /\ j < l /\ j \in 1 .. u - 1
        /\ CT!Parent(j) \in Nat /\ CT!Parent(j) < j /\ CT!Parent(j) \in CT!Indices
        /\ CT!Parent(j) < l
        /\ CT!Parent(j) > 0 =>
              /\ CT!Parent(CT!Parent(j)) \in Nat /\ CT!Parent(CT!Parent(j)) < CT!Parent(j)
              /\ CT!Parent(CT!Parent(j)) \in CT!Indices /\ CT!Parent(CT!Parent(j)) < l
  <2> SUFFICES ASSUME NEW j \in 1 .. l - 1
               PROVE  /\ j \in Nat /\ j \in CT!Indices /\ j < l /\ j \in 1 .. u - 1
                      /\ CT!Parent(j) \in Nat /\ CT!Parent(j) < j /\ CT!Parent(j) \in CT!Indices
                      /\ CT!Parent(j) < l
                      /\ CT!Parent(j) > 0 =>
                            /\ CT!Parent(CT!Parent(j)) \in Nat
                            /\ CT!Parent(CT!Parent(j)) < CT!Parent(j)
                            /\ CT!Parent(CT!Parent(j)) \in CT!Indices
                            /\ CT!Parent(CT!Parent(j)) < l
    OBVIOUS
  <2>1. /\ j \in Nat /\ j \in CT!Indices /\ CT!Parent(j) \in Nat /\ CT!Parent(j) < j
        /\ CT!Parent(j) \in CT!Indices
        /\ CT!Parent(j) > 0 =>
              /\ CT!Parent(CT!Parent(j)) \in Nat /\ CT!Parent(CT!Parent(j)) < CT!Parent(j)
              /\ CT!Parent(CT!Parent(j)) \in CT!Indices
    BY <1>2, PlacesIn
  <2>2. j < l /\ j \in 1 .. u - 1 /\ CT!Parent(j) < l
    BY <1>1, <2>1
  <2>3. CT!Parent(j) > 0 => CT!Parent(CT!Parent(j)) < l
    BY <2>1, <2>2
  <2> QED
    BY <2>1, <2>2, <2>3
<1>4. \A j \in 1 .. l - 1 : LaterAt(a, j)
  BY <1>3 DEF Ready, InOrder
<1>5. Held(b, k, l)
  <2> SUFFICES ASSUME k > 0, NEW j \in 1 .. l - 1, CT!Parent(j) = k PROVE PastAt(b, j)
    BY DEF Held
  <2>1. PastAt(a, j)
    BY <1>3, OrderKept
  <2>2. b[j] = a[j] /\ b[CT!Parent(CT!Parent(j))] = a[CT!Parent(CT!Parent(j))]
    <3>1. j # k /\ j < l /\ j \in CT!Indices
      BY <1>3
    <3>2. /\ CT!Parent(CT!Parent(j)) # k /\ CT!Parent(CT!Parent(j)) < l
          /\ CT!Parent(CT!Parent(j)) \in CT!Indices
      BY <1>3
    <3> QED
      BY <3>1, <3>2
  <2> QED
    BY <2>1, <2>2 DEF PastAt
<1>6. ASSUME NEW j \in 1 .. l - 1, CT!Parent(j) # k, j # k
      PROVE  LaterAt(b, j)
  <2>1. b[j] = a[j] /\ b[CT!Parent(j)] = a[CT!Parent(j)]
    BY <1>3, <1>6
  <2> QED
    BY <1>4, <2>1 DEF LaterAt
<1>7. ASSUME b[k].expires \in Nat, a[k].expires <= b[k].expires,
             NEW j \in 1 .. l - 1, CT!Parent(j) # k, j = k
      PROVE  LaterAt(b, j)
  <2>1. b[CT!Parent(j)] = a[CT!Parent(j)] /\ a[CT!Parent(j)].expires <= a[k].expires
    BY <1>3, <1>4, <1>7 DEF LaterAt
  <2>2. a[CT!Parent(j)].expires \in Nat /\ a[k].expires \in Nat
    BY <1>1, <1>3, <1>7
  <2>3. a[CT!Parent(j)].expires <= b[k].expires
    BY <1>7, <2>1, <2>2
  <2> QED
    BY <1>7, <2>1, <2>3 DEF LaterAt
<1> QED
  BY <1>5, <1>6, <1>7 DEF Around, Sinking

LEMMA NodesAre == \A a, n, x : x \in NodesOf(a, n) <=> \E j \in 0 .. n - 1 : x = a[j]
BY DEF NodesOf

\* What a sift of such nodes leaves is ready again.
LEMMA ReadyAgain ==
    ASSUME ClockConstants, NEW a, NEW u \in 0 .. ClockCapacity, Unique(a, u),
           \A x \in NodesOf(a, u) : x.id \in ClockIds,
           NEW r \in CT!Sifting, InOrder(r.array, u), Permuted(a, r.array, u)
    PROVE  Ready(r.array, r.ref, u) /\ NodesOf(r.array, u) = NodesOf(a, u)
<1>1. r.array \in [CT!Indices -> CT!Node] /\ r.ref \in [ClockIds -> Int]
  BY SiftingFacts
<1> QED
  BY <1>1 DEF Ready, Permuted

\* What heapInsert has made of the first u nodes, for a new id.
Inserted(a, g, u, id, e) ==
    LET new == [id |-> id, expires |-> e]
        r == CT!heapSiftUp[CT!At([a EXCEPT ![u] = new], [g EXCEPT ![id] = u], u, u + 1)]
    IN  /\ Ready(r.array, r.ref, u + 1)
        /\ NodesOf(r.array, u + 1) = NodesOf(a, u) \cup {new}

\* A new node is put at the end, and goes up.
LEMMA InsertResult ==
    ASSUME ClockConstants, NEW a, NEW g, NEW u, Ready(a, g, u), u < ClockCapacity,
           NEW id \in ClockIds, NEW e \in Nat, \A x \in NodesOf(a, u) : x.id # id
    PROVE  Inserted(a, g, u, id, e)
<1> DEFINE new == [id |-> id, expires |-> e]
           b == [a EXCEPT ![u] = new]
           h == [g EXCEPT ![id] = u]
           s == CT!At(b, h, u, u + 1)
           r == CT!heapSiftUp[s]
<1>1. /\ u \in Nat /\ ClockCapacity \in Nat /\ CT!Indices = 0 .. ClockCapacity - 1
      /\ a \in [CT!Indices -> CT!Node] /\ g \in [ClockIds -> Int]
      /\ \A j \in 0 .. u - 1 : j \in Nat /\ j \in CT!Indices /\ j < u /\ a[j] \in NodesOf(a, u)
  BY ReadyFacts DEF Ready
<1>2. new \in CT!Node /\ new.id = id /\ u \in CT!Indices /\ u \in Int
  BY <1>1 DEF CT!Node
<1> HIDE DEF new
<1>3. b \in [CT!Indices -> CT!Node] /\ h \in [ClockIds -> Int]
      /\ b[u] = new /\ \A j \in CT!Indices : j # u => b[j] = a[j]
  BY <1>1, <1>2
<1> HIDE DEF b, h
<1>4. s \in CT!Sifting /\ s.k = u /\ s.n = u + 1 /\ s.array = b
  <2>1. u + 1 \in 0 .. ClockCapacity
    BY <1>1
  <2>2. s = [array |-> b, ref |-> h, k |-> u, n |-> u + 1]
    BY DEF CT!At
  <2> HIDE DEF s
  <2> QED
    BY <1>2, <1>3, <2>1, <2>2 DEF CT!Sifting
<1> HIDE DEF s
<1>5. PICK v \in Nat : v = u + 1
  BY <1>1
<1>20. u < v /\ v <= ClockCapacity /\ v \in 0 .. ClockCapacity /\ u \in 0 .. v - 1
  BY <1>1, <1>5
<1>6. Rising(b, u, v)
  <2>1. ASSUME NEW j \in 1 .. v - 1
        PROVE  CT!Parent(j) # u /\ (j # u => LaterAt(b, j))
    <3>1. j \in CT!Indices /\ CT!Parent(j) \in CT!Indices /\ j \in Nat /\ CT!Parent(j) \in Nat
          /\ CT!Parent(j) < j
      BY <1>20, PlacesIn
    <3>2. j <= u /\ CT!Parent(j) # u
      BY <1>1, <1>5, <3>1
    <3>3. ASSUME j # u PROVE LaterAt(b, j)
      <4>1. j \in 1 .. u - 1
        BY <1>1, <3>2, <3>3
      <4>2. LaterAt(a, j)
        BY <4>1 DEF Ready, InOrder
      <4> QED
        BY <1>3, <3>1, <3>2, <3>3, <4>2 DEF LaterAt
    <3> QED
      BY <3>2, <3>3
  <2> QED
    BY <2>1 DEF Rising, Held
<1>7. \A j \in 0 .. v - 1 : j = u \/ j \in 0 .. u - 1
  BY <1>1, <1>5
<1>8. NodesOf(b, v) = NodesOf(a, u) \cup {new}
  <2>1. ASSUME NEW x \in NodesOf(b, v) PROVE x \in NodesOf(a, u) \cup {new}
    <3>1. PICK j \in 0 .. v - 1 : x = b[j]
      BY NodesAre
    <3> QED
      BY <1>1, <1>3, <1>7, <3>1
  <2>2. ASSUME NEW x \in NodesOf(a, u) PROVE x \in NodesOf(b, v)
    <3>1. PICK j \in 0 .. u - 1 : x = a[j]
      BY NodesAre
    <3>2. j \in 0 .. v - 1 /\ b[j] = a[j]
      BY <1>1, <1>3, <1>5
    <3> QED
      BY <3>1, <3>2, NodesAre
  <2>3. new \in NodesOf(b, v)
    BY <1>3, <1>20, NodesAre
  <2> QED
    BY <2>1, <2>2, <2>3
<1>9. Unique(b, v)
  <2>1. \A j, l \in 0 .. u - 1 : a[j].id = a[l].id => j = l
    BY DEF Ready, Unique
  <2>2. \A j \in 0 .. u - 1 : b[j] = a[j] /\ b[j].id # id
    BY <1>1, <1>3
  <2>3. b[u].id = id
    BY <1>2, <1>3
  <2> SUFFICES ASSUME NEW j \in 0 .. v - 1, NEW l \in 0 .. v - 1, b[j].id = b[l].id
               PROVE  j = l
    BY DEF Unique
  <2> QED
    BY <1>7, <2>1, <2>2, <2>3
<1>10. \A x \in NodesOf(b, v) : x.id \in ClockIds
  BY <1>2, <1>8 DEF Ready
<1>11. r \in CT!Sifting /\ InOrder(r.array, v) /\ Permuted(b, r.array, v)
  BY <1>4, <1>5, <1>20, <1>6, RiseResult
<1> HIDE DEF r
<1>12. Ready(r.array, r.ref, v) /\ NodesOf(r.array, v) = NodesOf(b, v)
  BY <1>20, <1>9, <1>10, <1>11, ReadyAgain
<1> QED
  BY <1>5, <1>8, <1>12 DEF r, s, b, h, new, Inserted

\* What an extension to e has made of the first u nodes.
Touched(a, g, u, k, e) ==
    LET s == CT!At([a EXCEPT ![k].expires = e], g, k, u)
        new == [id |-> a[k].id, expires |-> e]
        After(r) == /\ Ready(r.array, r.ref, u)
                    /\ NodesOf(r.array, u) = (NodesOf(a, u) \ {a[k]}) \cup {new}
    IN  After(CT!Sift(s)) /\ (a[k].expires <= e => After(CT!heapSiftDown[s]))

\* A node gets another time, and goes down, or up.
LEMMA TouchResult ==
    ASSUME ClockConstants, NEW a, NEW g, NEW u, Ready(a, g, u), NEW k \in 0 .. u - 1,
           NEW e \in Nat
    PROVE  Touched(a, g, u, k, e)
<1> DEFINE b == [a EXCEPT ![k].expires = e]
           s == CT!At(b, g, k, u)
           new == [id |-> a[k].id, expires |-> e]
           After(r) == /\ Ready(r.array, r.ref, u)
                       /\ NodesOf(r.array, u) = (NodesOf(a, u) \ {a[k]}) \cup {new}
<1>1. /\ u \in Nat /\ ClockCapacity \in Nat /\ CT!Indices = 0 .. ClockCapacity - 1
      /\ a \in [CT!Indices -> CT!Node] /\ g \in [ClockIds -> Int] /\ u \in 0 .. ClockCapacity
      /\ u <= ClockCapacity
      /\ \A j \in 0 .. u - 1 : /\ j \in Nat /\ j \in CT!Indices /\ j < u
                               /\ a[j] \in NodesOf(a, u) /\ a[j].id \in ClockIds
  BY ReadyFacts DEF Ready
<1>2. k \in CT!Indices /\ k \in Nat /\ k < u /\ a[k] \in CT!Node /\ a[k].id \in ClockIds
  BY <1>1
<1>3. new \in CT!Node /\ new.id = a[k].id /\ new.expires = e
  BY <1>2 DEF CT!Node
<1>4. b = [a EXCEPT ![k] = new]
  <2>1. [a[k] EXCEPT !.expires = e] = new
    BY <1>2 DEF CT!Node
  <2> HIDE DEF new
  <2> QED
    BY <2>1
<1> HIDE DEF new, b
<1>5. b \in [CT!Indices -> CT!Node] /\ b[k] = new /\ \A j \in CT!Indices : j # k => b[j] = a[j]
  BY <1>1, <1>2, <1>3, <1>4
<1>6. s \in CT!Sifting /\ s.k = k /\ s.n = u /\ s.array = b
  <2>1. s = [array |-> b, ref |-> g, k |-> k, n |-> u]
    BY DEF CT!At
  <2> HIDE DEF s
  <2> QED
    BY <1>1, <1>2, <1>5, <2>1 DEF CT!Sifting
<1> HIDE DEF s
<1>7. Around(b, k, u) /\ (a[k].expires <= e => Sinking(b, k, u))
  <2>1. u <= u /\ \A j \in CT!Indices : j # k /\ j < u => b[j] = a[j]
    BY <1>1, <1>5
  <2>2. Around(b, k, u) /\ (b[k].expires \in Nat /\ a[k].expires <= b[k].expires =>
                              Sinking(b, k, u))
    BY <1>1, <1>2, <2>1, OneChanged
  <2> QED
    BY <1>3, <1>5, <2>2
<1>8. \A j, l \in 0 .. u - 1 : a[j].id = a[l].id => j = l
  BY DEF Ready, Unique
<1>9. \A j \in 0 .. u - 1 : b[j].id = a[j].id /\ (j # k => b[j] = a[j] /\ a[j] # a[k])
  BY <1>1, <1>3, <1>5, <1>8
<1>10. Unique(b, u)
  <2>1. \A j, l \in 0 .. u - 1 : b[j].id = b[l].id => j = l
    BY <1>8, <1>9
  <2> QED
    BY <2>1 DEF Unique
<1>11. NodesOf(b, u) = (NodesOf(a, u) \ {a[k]}) \cup {new}
  <2>1. ASSUME NEW x \in NodesOf(b, u) PROVE x \in (NodesOf(a, u) \ {a[k]}) \cup {new}
    <3>1. PICK j \in 0 .. u - 1 : x = b[j]
      BY NodesAre
    <3> QED
      BY <1>1, <1>5, <1>9, <3>1
  <2>2. ASSUME NEW x \in NodesOf(a, u) \ {a[k]} PROVE x \in NodesOf(b, u)
    <3>1. PICK j \in 0 .. u - 1 : x = a[j]
      BY NodesAre
    <3>2. b[j] = a[j]
      BY <1>9, <3>1, <2>2
    <3> QED
      BY <3>1, <3>2, NodesAre
  <2>3. new \in NodesOf(b, u)
    BY <1>5, NodesAre
  <2> QED
    BY <2>1, <2>2, <2>3
<1>12. \A x \in NodesOf(b, u) : x.id \in ClockIds
  BY <1>2, <1>3, <1>11 DEF Ready
<1>13. ASSUME NEW r \in CT!Sifting, InOrder(r.array, u), Permuted(b, r.array, u)
       PROVE  After(r)
  <2>1. Ready(r.array, r.ref, u) /\ NodesOf(r.array, u) = NodesOf(b, u)
    BY <1>1, <1>10, <1>12, <1>13, ReadyAgain
  <2> QED
    BY <1>11, <2>1
<1>14. After(CT!Sift(s))
  <2>1. Around(s.array, s.k, s.n) /\ s.k < s.n
    BY <1>2, <1>6, <1>7
  <2>2. CT!Sift(s) \in CT!Sifting /\ InOrder(CT!Sift(s).array, s.n)
        /\ Permuted(s.array, CT!Sift(s).array, s.n)
    BY <1>6, <2>1, SiftResult
  <2> HIDE DEF After
  <2> QED
    BY <1>6, <1>13, <2>2
<1>15. ASSUME a[k].expires <= e PROVE After(CT!heapSiftDown[s])
  <2>1. Sinking(s.array, s.k, s.n) /\ s.k < s.n
    BY <1>2, <1>6, <1>7, <1>15
  <2>2. CT!heapSiftDown[s] \in CT!Sifting /\ InOrder(CT!heapSiftDown[s].array, s.n)
        /\ Permuted(s.array, CT!heapSiftDown[s].array, s.n)
    BY <1>6, <2>1, SinkResult
  <2> HIDE DEF After
  <2> QED
    BY <1>6, <1>13, <2>2
<1> QED
  BY <1>14, <1>15 DEF s, b, new, Touched

\* heapDel takes the node at k out of the heap.
LEMMA DelResult ==
    ASSUME ClockConstants, Ready(array, gs_ref, arraySize), NEW k \in 0 .. arraySize - 1,
           CT!heapDel(k)
    PROVE  /\ arraySize' = arraySize - 1 /\ Ready(array', gs_ref', arraySize')
           /\ NodesOf(array', arraySize') = NodesOf(array, arraySize) \ {array[k]}
<1> DEFINE u == arraySize
           h == CT!At(array, gs_ref, k, u - 1)
           w == CT!Swapped(h, u - 1)
           s == CT!At(w.array, w.ref, k, u - 1)
<1>1. /\ u \in Nat /\ ClockCapacity \in Nat /\ CT!Indices = 0 .. ClockCapacity - 1
      /\ array \in [CT!Indices -> CT!Node] /\ gs_ref \in [ClockIds -> Int]
      /\ u \in 0 .. ClockCapacity /\ u <= ClockCapacity
      /\ \A j \in 0 .. u - 1 : /\ j \in Nat /\ j \in CT!Indices /\ j < u
                               /\ array[j] \in NodesOf(array, u) /\ array[j].id \in ClockIds
  BY ReadyFacts DEF Ready
<1>2. PICK v \in Nat : v = u - 1
  BY <1>1
<1>3. /\ v \in 0 .. ClockCapacity /\ v \in CT!Indices /\ k \in CT!Indices /\ k \in Nat /\ k <= v
      /\ v \in 0 .. u - 1 /\ v < u /\ v <= u
      /\ \A j \in 0 .. v - 1 : j \in 0 .. u - 1 /\ j < v /\ j # v
      /\ \A j \in 0 .. u - 1 : j = v \/ j \in 0 .. v - 1
  BY <1>1, <1>2
<1>4. \A j, l \in 0 .. u - 1 : array[j].id = array[l].id => j = l
  BY DEF Ready, Unique
<1>5. /\ arraySize' = v
      /\ IF k < v THEN array' = CT!Sift(s).array ELSE array' = array
      /\ \E lost : gs_ref' = [id \in ClockIds |->
                                 IF id = lost THEN -1
                                 ELSE IF k < v THEN CT!Sift(s).ref[id] ELSE gs_ref[id]]
  BY <1>2 DEF CT!heapDel, CT!At
<1>6. CASE ~(k < v)
  <2>1. k = v /\ array' = array /\ arraySize' = v
    BY <1>3, <1>5, <1>6
  <2>2. gs_ref' \in [ClockIds -> Int]
    BY <1>1, <1>5, <1>6
  <2>3. NodesOf(array, v) = NodesOf(array, u) \ {array[v]}
    <3>1. ASSUME NEW x \in NodesOf(array, v) PROVE x \in NodesOf(array, u) \ {array[v]}
      <4>1. PICK j \in 0 .. v - 1 : x = array[j]
        BY NodesAre
      <4> QED
        BY <1>1, <1>3, <1>4, <4>1
    <3>2. ASSUME NEW x \in NodesOf(array, u) \ {array[v]} PROVE x \in NodesOf(array, v)
      <4>1. PICK j \in 0 .. u - 1 : x = array[j]
        BY NodesAre
      <4>2. j \in 0 .. v - 1
        BY <1>3, <3>2, <4>1
      <4> QED
        BY <4>1, <4>2, NodesAre
    <3> QED
      BY <3>1, <3>2
  <2>4. InOrder(array, v)
    <3>1. \A j \in 1 .. v - 1 : j \in 1 .. u - 1
      BY <1>1, <1>2
    <3> QED
      BY <3>1 DEF Ready, InOrder
  <2>5. Unique(array, v)
    <3>1. \A j, l \in 0 .. v - 1 : array[j].id = array[l].id => j = l
      BY <1>3, <1>4
    <3> QED
      BY <3>1 DEF Unique
  <2>6. Ready(array, gs_ref', v)
    BY <1>1, <1>3, <2>2, <2>3, <2>4, <2>5 DEF Ready
  <2> QED
    BY <1>2, <2>1, <2>3, <2>6
<1>7. CASE k < v
  <2>1. h \in CT!Sifting /\ h.k = k /\ h.n = v /\ h.array = array
    <3>1. h = [array |-> array, ref |-> gs_ref, k |-> k, n |-> v]
      BY <1>2 DEF CT!At
    <3> HIDE DEF h
    <3> QED
      BY <1>1, <1>3, <3>1 DEF CT!Sifting
  <2>2. w = CT!Swapped(h, v)
    BY <1>2
  <2>3. w \in CT!Sifting /\ w.array = [array EXCEPT ![k] = array[v], ![v] = array[k]]
    BY <1>3, <2>1, <2>2, SwappedFacts
  <2>4. w.array \in [CT!Indices -> CT!Node] /\ w.ref \in [ClockIds -> Int]
    BY <2>3, SiftingFacts
  <2> HIDE DEF h, w
  <2>5. s \in CT!Sifting /\ s.k = k /\ s.n = v /\ s.array = w.array
    <3>1. s = [array |-> w.array, ref |-> w.ref, k |-> k, n |-> v]
      BY <1>2 DEF CT!At
    <3> HIDE DEF s
    <3> QED
      BY <1>1, <1>3, <2>4, <3>1 DEF CT!Sifting
  <2> HIDE DEF s
  <2> DEFINE b == w.array
  <2>6. b[k] = array[v] /\ \A j \in 0 .. v - 1 : j # k => b[j] = array[j]
    BY <1>1, <1>3, <2>3
  <2>7. \A j \in CT!Indices : j # k /\ j < v => b[j] = array[j]
    <3>1. \A j \in CT!Indices : j < v => j # v
      BY <1>1, <1>3
    <3> QED
      BY <1>1, <1>3, <2>3, <3>1
  <2> HIDE DEF b
  <2>8. Around(b, k, v)
    BY <1>1, <1>3, <1>7, <2>7, OneChanged
  <2>9. NodesOf(b, v) = NodesOf(array, u) \ {array[k]}
    <3>1. ASSUME NEW x \in NodesOf(b, v) PROVE x \in NodesOf(array, u) \ {array[k]}
      <4>1. PICK j \in 0 .. v - 1 : x = b[j]
        BY NodesAre
      <4>2. CASE j = k
        BY <1>1, <1>3, <1>4, <1>7, <2>6, <4>1, <4>2
      <4>3. CASE j # k
        <5>1. x = array[j] /\ array[j] \in NodesOf(array, u) /\ array[j].id # array[k].id
          BY <1>1, <1>3, <1>4, <2>6, <4>1, <4>3
        <5> QED
          BY <5>1
      <4> QED
        BY <4>2, <4>3
    <3>2. ASSUME NEW x \in NodesOf(array, u) \ {array[k]} PROVE x \in NodesOf(b, v)
      <4>1. PICK j \in 0 .. u - 1 : x = array[j]
        BY NodesAre
      <4>2. j # k
        BY <4>1, <3>2
      <4>3. CASE j = v
        <5>1. k \in 0 .. v - 1
          BY <1>3, <1>7, <1>2
        <5> QED
          BY <2>6, <4>1, <4>3, <5>1, NodesAre
      <4>4. CASE j # v
        BY <1>3, <2>6, <4>1, <4>2, <4>4, NodesAre
      <4> QED
        BY <4>3, <4>4
    <3> QED
      BY <3>1, <3>2
  <2>10. Unique(b, v)
    <3>1. \A j \in 0 .. v - 1 : b[j] = array[IF j = k THEN v ELSE j]
      BY <2>6
    <3> SUFFICES ASSUME NEW j \in 0 .. v - 1, NEW l \in 0 .. v - 1, b[j].id = b[l].id
                 PROVE  j = l
      BY DEF Unique
    <3>2. (IF j = k THEN v ELSE j) = (IF l = k THEN v ELSE l)
      BY <1>3, <1>4, <3>1
    <3> QED
      BY <1>3, <3>2
  <2>11. \A x \in NodesOf(b, v) : x.id \in ClockIds
    BY <2>9 DEF Ready
  <2>12. CT!Sift(s) \in CT!Sifting /\ InOrder(CT!Sift(s).array, v)
         /\ Permuted(b, CT!Sift(s).array, v)
    <3>1. Around(s.array, s.k, s.n) /\ s.k < s.n
      BY <1>7, <2>5, <2>8 DEF b
    <3> QED
      BY <2>5, <3>1, SiftResult DEF b
  <2> DEFINE r == CT!Sift(s)
  <2>13. Ready(r.array, r.ref, v) /\ NodesOf(r.array, v) = NodesOf(b, v)
    <3> HIDE DEF r
    <3>1. r \in CT!Sifting /\ InOrder(r.array, v) /\ Permuted(b, r.array, v)
      BY <2>12 DEF r
    <3> QED
      BY <1>3, <2>10, <2>11, <3>1, ReadyAgain
  <2>14. array' = r.array /\ \E lost : gs_ref' = [id \in ClockIds |->
                                 IF id = lost THEN -1 ELSE r.ref[id]]
    BY <1>5, <1>7
  <2> HIDE DEF r
  <2>15. gs_ref' \in [ClockIds -> Int]
    <3>1. r.ref \in [ClockIds -> Int]
      BY <2>13 DEF Ready
    <3> QED
      BY <2>14, <3>1
  <2>16. Ready(r.array, gs_ref', v)
    BY <2>13, <2>15 DEF Ready
  <2> QED
    BY <1>2, <1>5, <2>9, <2>13, <2>14, <2>16
<1> QED
  BY <1>6, <1>7

-----------------------------------------------------------------------------
(* The theorems of the library's timer.                                    *)

\* While gs_ref has not misled an operation, the heap is ready.
ClockInv == sound => Ready(array, gs_ref, arraySize) /\ clock \in Nat

\* What every step does to the nodes, and to the time.
ClockStep(id, e) ==
    \/ /\ ~clockTicks /\ id \in ClockIds /\ \E t \in ClockTimeouts : e = clock + t
       /\ \A x \in NodesOf(array, arraySize) : x.id # id
       /\ NodesOf(array', arraySize')
            = NodesOf(array, arraySize) \cup {[id |-> id, expires |-> e]}
       /\ UNCHANGED <<clock, clockTicks>>
    \/ /\ ~clockTicks /\ id \in ClockIds /\ \E t \in ClockTimeouts : e = clock + t
       /\ \E x \in NodesOf(array, arraySize) :
             /\ x.id = id
             /\ NodesOf(array', arraySize')
                  = (NodesOf(array, arraySize) \ {x}) \cup {[id |-> id, expires |-> e]}
       /\ UNCHANGED <<clock, clockTicks>>
    \/ /\ \E x \in NodesOf(array, arraySize) :
             /\ x.id = id
             /\ NodesOf(array', arraySize') = NodesOf(array, arraySize) \ {x}
             /\ clockTicks => /\ x.expires <= clock
                              /\ \A y \in NodesOf(array, arraySize) : x.expires <= y.expires
       /\ UNCHANGED <<clock, clockTicks>>
    \/ /\ ~clockTicks /\ NodesOf(array', arraySize') = {}
       /\ UNCHANGED <<clock, clockTicks>>
    \/ /\ NodesOf(array', arraySize') = NodesOf(array, arraySize)
       /\ \/ ~clockTicks /\ clockTicks' = TRUE /\ clock' = clock
          \/ /\ clockTicks /\ clockTicks' = FALSE /\ clock' = clock
             /\ \A x \in NodesOf(array, arraySize) : x.expires > clock
          \/ clockTicks' = clockTicks /\ clock' = clock + 1

\* The first node is the earliest.
LEMMA FirstIsEarliest ==
    ASSUME ClockConstants, NEW a, NEW g, NEW u, Ready(a, g, u)
    PROVE  \A x \in NodesOf(a, u) : a[0].expires <= x.expires
<1> DEFINE S == {j \in 0 .. u - 1 : a[j].expires < a[0].expires}
<1>1. /\ u \in Nat /\ u <= ClockCapacity
      /\ \A j \in 0 .. u - 1 : j \in Nat /\ j \in CT!Indices /\ a[j].expires \in Nat
  BY ReadyFacts
<1>2. ASSUME S # {} PROVE FALSE
  <2>1. S \in SUBSET Nat
    BY <1>1
  <2>2. PICK x \in S : \A y \in S : x <= y
    BY <1>2, <2>1, LeastNumber
  <2>3. x \in 1 .. u - 1 /\ x \in 0 .. u - 1 /\ 0 \in 0 .. u - 1 /\ a[x].expires < a[0].expires
    BY <1>1
  <2>4. CT!Parent(x) \in Nat /\ CT!Parent(x) < x
    BY <1>1, <2>3, PlacesIn
  <2>5. CT!Parent(x) \in 0 .. u - 1
    BY <1>1, <2>3, <2>4
  <2>6. a[CT!Parent(x)].expires <= a[x].expires
    BY <2>3 DEF Ready, InOrder, LaterAt
  <2>7. a[CT!Parent(x)].expires < a[0].expires
    BY <1>1, <2>3, <2>5, <2>6
  <2>8. CT!Parent(x) \in S
    BY <2>5, <2>7
  <2>9. x <= CT!Parent(x)
    BY <2>2, <2>8
  <2> QED
    BY <1>1, <2>3, <2>4, <2>9
<1> SUFFICES ASSUME NEW x \in NodesOf(a, u) PROVE a[0].expires <= x.expires
  OBVIOUS
<1>3. PICK j \in 0 .. u - 1 : x = a[j]
  BY NodesAre
<1>4. 0 \in 0 .. u - 1
  BY <1>1
<1>5. ~(a[j].expires < a[0].expires)
  BY <1>2
<1> QED
  BY <1>1, <1>3, <1>4, <1>5

LEMMA InsertStepC ==
    ASSUME ClockConstants, ClockInv, sound, NEW id \in ClockIds, NEW t \in ClockTimeouts,
           CT!InsertNew(id, t), sound'
    PROVE  Ready(array', gs_ref', arraySize') /\ clock' \in Nat /\ \E i, e : ClockStep(i, e)
<1> DEFINE new == [id |-> id, expires |-> clock + t]
           s == CT!At([array EXCEPT ![arraySize] = new], [gs_ref EXCEPT ![id] = arraySize],
                      arraySize, arraySize + 1)
           r == CT!heapSiftUp[s]
<1>1. /\ ~clockTicks /\ arraySize < ClockCapacity /\ arraySize' = arraySize + 1
      /\ sound' = CT!Absent(id) /\ UNCHANGED <<clock, clockTicks>>
      /\ array' = r.array /\ gs_ref' = r.ref
  BY DEF CT!InsertNew, CT!Becomes
<1>2. Ready(array, gs_ref, arraySize) /\ clock \in Nat
  BY DEF ClockInv
<1>3. clock + t \in Nat
  BY <1>2 DEF ClockConstants
<1>4. CT!Absent(id)
  BY <1>1, Zenon
<1>5. \A x \in NodesOf(array, arraySize) : x.id # id
  <2> SUFFICES ASSUME NEW x \in NodesOf(array, arraySize) PROVE x.id # id
    OBVIOUS
  <2>1. PICK j \in 0 .. arraySize - 1 : x = array[j]
    BY NodesAre
  <2>2. j \in CT!Indices
    BY <1>2, ReadyFacts
  <2>3. ~CT!IsAt(id, j)
    BY <1>4, <2>2 DEF CT!Absent
  <2> QED
    BY <2>1, <2>3 DEF CT!IsAt
<1> HIDE DEF new
<1>6. Ready(r.array, r.ref, arraySize + 1)
      /\ NodesOf(r.array, arraySize + 1) = NodesOf(array, arraySize) \cup {new}
  <2>1. PICK e \in Nat : e = clock + t
    BY <1>3
  <2>2. Inserted(array, gs_ref, arraySize, id, e)
    BY <1>1, <1>2, <1>5, InsertResult
  <2> QED
    BY <2>1, <2>2 DEF Inserted, new
<1> HIDE DEF r, s
<1>7. /\ Ready(array', gs_ref', arraySize')
      /\ NodesOf(array', arraySize') = NodesOf(array, arraySize) \cup {new}
  BY <1>1, <1>6
<1>8. ClockStep(id, clock + t)
  BY <1>1, <1>5, <1>7 DEF ClockStep, new
<1> QED
  BY <1>1, <1>2, <1>7, <1>8

LEMMA TouchStep ==
    ASSUME ClockConstants, ClockInv, sound, NEW id \in ClockIds, NEW t \in ClockTimeouts,
           CT!InsertAgain(id, t) \/ CT!HeapAdjust(id, t), sound'
    PROVE  Ready(array', gs_ref', arraySize') /\ clock' \in Nat /\ \E i, e : ClockStep(i, e)
<1> DEFINE k == gs_ref[id]
           s == CT!At([array EXCEPT ![k].expires = clock + t], gs_ref, k, arraySize)
           new == [id |-> array[k].id, expires |-> clock + t]
           After(r) == /\ Ready(r.array, r.ref, arraySize)
                       /\ NodesOf(r.array, arraySize)
                            = (NodesOf(array, arraySize) \ {array[k]}) \cup {new}
<1>1. Ready(array, gs_ref, arraySize) /\ clock \in Nat
  BY DEF ClockInv
<1>2. clock + t \in Nat
  BY <1>1 DEF ClockConstants
<1>3. /\ ~clockTicks /\ CT!Known(id) /\ UNCHANGED <<arraySize, clock, clockTicks>>
      /\ \/ array' = CT!Sift(s).array /\ gs_ref' = CT!Sift(s).ref
         \/ /\ array[k].expires <= clock + t
            /\ array' = CT!heapSiftDown[s].array /\ gs_ref' = CT!heapSiftDown[s].ref
  <2>1. CASE CT!InsertAgain(id, t)
    <3>1. /\ ~clockTicks
          /\ \/ CT!Undefined
             \/ /\ array' = CT!Sift(s).array /\ gs_ref' = CT!Sift(s).ref
                /\ sound' = CT!Known(id)
                /\ UNCHANGED <<arraySize, clock, clockTicks>>
      BY <2>1 DEF CT!InsertAgain, CT!Becomes, CT!Touch
    <3>2. ~CT!Undefined
      BY Zenon DEF CT!Undefined
    <3>3. sound' = CT!Known(id) => CT!Known(id)
      BY Zenon
    <3> HIDE DEF s, k
    <3> QED
      BY <3>1, <3>2, <3>3
  <2>2. CASE CT!HeapAdjust(id, t)
    <3>1. /\ ~clockTicks
          /\ \/ CT!Undefined
             \/ /\ CT!Known(id) /\ clock + t >= array[k].expires
                /\ array' = CT!heapSiftDown[s].array /\ gs_ref' = CT!heapSiftDown[s].ref
                /\ UNCHANGED <<arraySize, clock, clockTicks, sound>>
      BY <2>2 DEF CT!HeapAdjust, CT!Becomes, CT!Touch
    <3>2. ~CT!Undefined
      BY Zenon DEF CT!Undefined
    <3>3. clock + t >= array[k].expires => array[k].expires <= clock + t
      OBVIOUS
    <3> HIDE DEF s, k
    <3> QED
      BY <3>1, <3>2, <3>3
  <2> QED
    BY <2>1, <2>2
<1>4. k \in 0 .. arraySize - 1 /\ array[k].id = id
  BY <1>3 DEF CT!Known, CT!IsAt
<1>5. array[k] \in NodesOf(array, arraySize)
  BY <1>4, NodesAre
<1>6. After(CT!Sift(s)) /\ (array[k].expires <= clock + t => After(CT!heapSiftDown[s]))
  <2>1. PICK e \in Nat : e = clock + t
    BY <1>2
  <2>2. Touched(array, gs_ref, arraySize, k, e)
    BY <1>1, <1>4, TouchResult
  <2> HIDE DEF k
  <2> QED
    BY <2>1, <2>2 DEF Touched
<1> HIDE DEF k, s, new
<1>7. /\ Ready(array', gs_ref', arraySize')
      /\ NodesOf(array', arraySize') = (NodesOf(array, arraySize) \ {array[k]}) \cup {new}
  BY <1>3, <1>6
<1>8. ClockStep(id, clock + t)
  <2>1. new = [id |-> id, expires |-> clock + t]
    BY <1>4 DEF new
  <2> QED
    BY <1>3, <1>4, <1>5, <1>7, <2>1 DEF ClockStep
<1> QED
  BY <1>1, <1>3, <1>7, <1>8

LEMMA RemoveStep ==
    ASSUME ClockConstants, ClockInv, sound,
           CT!Fire \/ \E id \in ClockIds : CT!heapDoWork(id), sound'
    PROVE  Ready(array', gs_ref', arraySize') /\ clock' \in Nat /\ \E i, e : ClockStep(i, e)
<1>1. Ready(array, gs_ref, arraySize) /\ clock \in Nat
  BY DEF ClockInv
<1>2. PICK k \in 0 .. arraySize - 1 :
         /\ CT!heapDel(k) /\ UNCHANGED <<clock, clockTicks>>
         /\ clockTicks => k = 0 /\ array[0].expires <= clock
  <2>1. CASE CT!Fire
    <3>1. arraySize \in Nat
      BY <1>1, ReadyFacts
    <3> QED
      BY <2>1, <3>1 DEF CT!Fire
  <2>2. CASE \E id \in ClockIds : CT!heapDoWork(id)
    <3>1. PICK id \in ClockIds : CT!heapDoWork(id)
      BY <2>2
    <3>2. ~CT!Undefined
      BY Zenon DEF CT!Undefined
    <3> QED
      BY <3>1, <3>2 DEF CT!heapDoWork
  <2> QED
    BY <2>1, <2>2
<1>3. /\ Ready(array', gs_ref', arraySize')
      /\ NodesOf(array', arraySize') = NodesOf(array, arraySize) \ {array[k]}
  BY <1>1, <1>2, DelResult
<1>4. array[k] \in NodesOf(array, arraySize)
  BY NodesAre
<1>5. clockTicks => \A y \in NodesOf(array, arraySize) : array[k].expires <= y.expires
  BY <1>1, <1>2, FirstIsEarliest
<1>6. ClockStep(array[k].id, 0)
  BY <1>2, <1>3, <1>4, <1>5 DEF ClockStep
<1> QED
  BY <1>1, <1>2, <1>3, <1>6

LEMMA OtherStep ==
    ASSUME ClockConstants, ClockInv, sound,
           CT!heapTick \/ CT!TickEnds \/ CT!heapClear \/ CT!Advance
    PROVE  Ready(array', gs_ref', arraySize') /\ clock' \in Nat /\ \E i, e : ClockStep(i, e)
<1>1. Ready(array, gs_ref, arraySize) /\ clock \in Nat
  BY DEF ClockInv
<1>2. CASE CT!heapClear
  <2>1. /\ ~clockTicks /\ array' = [k \in CT!Indices |-> CT!Junk] /\ arraySize' = 0
        /\ UNCHANGED <<gs_ref, clock, clockTicks>>
    BY <1>2 DEF CT!heapClear
  <2>2. array' \in [CT!Indices -> CT!Node]
    BY <2>1 DEF CT!Junk, CT!Node
  <2>3. NodesOf(array', arraySize') = {}
    BY <2>1 DEF NodesOf
  <2>4. InOrder(array', arraySize') /\ Unique(array', arraySize')
    BY <2>1 DEF InOrder, Unique
  <2>5. arraySize' \in 0 .. ClockCapacity
    BY <2>1 DEF ClockConstants
  <2>6. Ready(array', gs_ref', arraySize')
    BY <1>1, <2>1, <2>2, <2>3, <2>4, <2>5 DEF Ready
  <2>7. ClockStep(0, 0)
    BY <2>1, <2>3 DEF ClockStep
  <2> QED
    BY <1>1, <2>1, <2>6, <2>7
<1>3. CASE CT!heapTick
  BY <1>1, <1>3 DEF CT!heapTick, ClockStep
<1>4. CASE CT!Advance
  BY <1>1, <1>4 DEF CT!Advance, ClockStep
<1>5. CASE CT!TickEnds
  <2>1. /\ clockTicks /\ clockTicks' = FALSE
        /\ arraySize > 0 => array[0].expires > clock
        /\ UNCHANGED <<array, arraySize, gs_ref, clock>>
    BY <1>5 DEF CT!TickEnds
  <2>2. \A x \in NodesOf(array, arraySize) : x.expires > clock
    <3> SUFFICES ASSUME NEW x \in NodesOf(array, arraySize) PROVE x.expires > clock
      OBVIOUS
    <3>1. PICK j \in 0 .. arraySize - 1 : x = array[j]
      BY NodesAre
    <3>2. /\ arraySize \in Nat /\ j \in Nat /\ j < arraySize /\ j \in CT!Indices
          /\ 0 \in CT!Indices /\ \A l \in CT!Indices : array[l].expires \in Nat
      BY <1>1, ReadyFacts
    <3>3. array[0].expires > clock /\ array[0].expires <= x.expires
      BY <1>1, <2>1, <3>2, FirstIsEarliest
    <3>4. array[0].expires \in Nat /\ x.expires \in Nat
      BY <3>1, <3>2
    <3> QED
      BY <1>1, <3>3, <3>4
  <2> QED
    BY <1>1, <2>1, <2>2 DEF ClockStep
<1> QED
  BY <1>2, <1>3, <1>4, <1>5

LEMMA ClockStepC ==
    ASSUME ClockConstants, ClockInv, CT!Next, sound'
    PROVE  /\ sound /\ Ready(array', gs_ref', arraySize') /\ clock' \in Nat
           /\ \E i, e : ClockStep(i, e)
<1>1. sound
  BY DEF CT!Next
<1>2. ~CT!Undefined
  BY Zenon DEF CT!Undefined
<1>3. CASE \E id \in ClockIds : CT!InsertFull(id)
  BY <1>2, <1>3 DEF CT!InsertFull
<1>4. CASE CT!Fire \/ \E id \in ClockIds : CT!heapDoWork(id)
  BY <1>1, <1>4, RemoveStep
<1>5. CASE \E id \in ClockIds, t \in ClockTimeouts : CT!InsertNew(id, t)
  BY <1>1, <1>5, InsertStepC
<1>6. CASE \E id \in ClockIds, t \in ClockTimeouts : CT!InsertAgain(id, t) \/ CT!HeapAdjust(id, t)
  BY <1>1, <1>6, TouchStep
<1>7. CASE CT!heapTick \/ CT!TickEnds \/ CT!heapClear \/ CT!Advance
  BY <1>1, <1>7, OtherStep
<1> QED
  BY <1>1, <1>3, <1>4, <1>5, <1>6, <1>7 DEF CT!Next

\* The expiry of every id, given the time of its node.
ExpiryOf(a, u) ==
    [id \in ClockIds |->
        LET at == {k \in CT!Indices : k \in 0 .. u - 1 /\ a[k].id = id}
        IN IF at = {} THEN -1 ELSE a[CHOOSE k \in at : TRUE].expires]

\* E is when each id expires, if N are the nodes.
Timely(E, N) ==
    /\ E \in [ClockIds -> Int]
    /\ \A x \in N : x.id \in ClockIds /\ x.expires \in Nat /\ E[x.id] = x.expires
    /\ \A id \in ClockIds : (\A x \in N : x.id # id) => E[id] = -1

LEMMA ExpiryIsTimely ==
    ASSUME ClockConstants, NEW a, NEW g, NEW u, Ready(a, g, u)
    PROVE  Timely(ExpiryOf(a, u), NodesOf(a, u))
<1> DEFINE At(id) == {k \in CT!Indices : k \in 0 .. u - 1 /\ a[k].id = id}
           E == ExpiryOf(a, u)
<1>1. /\ u \in Nat /\ \A j \in CT!Indices : a[j].expires \in Nat
      /\ \A j \in 0 .. u - 1 : j \in CT!Indices /\ a[j] \in NodesOf(a, u) /\ a[j].id \in ClockIds
  BY ReadyFacts
<1>2. E = [id \in ClockIds |-> IF At(id) = {} THEN -1 ELSE a[CHOOSE k \in At(id) : TRUE].expires]
  BY DEF ExpiryOf
<1>3. \A id \in ClockIds : At(id) # {} => (CHOOSE k \in At(id) : TRUE) \in At(id)
  OBVIOUS
<1> HIDE DEF E
<1>4. E \in [ClockIds -> Int]
  <2>1. \A id \in ClockIds : At(id) # {} => (CHOOSE k \in At(id) : TRUE) \in CT!Indices
    BY <1>3
  <2> HIDE DEF At
  <2>2. \A id \in ClockIds :
           (IF At(id) = {} THEN -1 ELSE a[CHOOSE k \in At(id) : TRUE].expires) \in Int
    BY <1>1, <2>1
  <2> QED
    BY <1>2, <2>2
<1>5. ASSUME NEW x \in NodesOf(a, u)
      PROVE  x.id \in ClockIds /\ x.expires \in Nat /\ E[x.id] = x.expires
  <2>1. PICK j \in 0 .. u - 1 : x = a[j]
    BY NodesAre
  <2>2. j \in At(x.id) /\ x.id \in ClockIds /\ x.expires \in Nat
    BY <1>1, <2>1
  <2>3. PICK k \in At(x.id) : k = CHOOSE l \in At(x.id) : TRUE
    BY <1>3, <2>2
  <2>4. k = j
    BY <2>1, <2>3 DEF Ready, Unique
  <2>5. E[x.id] = a[k].expires
    <3>1. At(x.id) # {}
      BY <2>2
    <3> HIDE DEF At
    <3> QED
      BY <1>2, <2>2, <2>3, <3>1
  <2> QED
    BY <2>1, <2>2, <2>4, <2>5
<1>6. ASSUME NEW id \in ClockIds, \A x \in NodesOf(a, u) : x.id # id PROVE E[id] = -1
  <2>1. At(id) = {}
    BY <1>1, <1>6
  <2> HIDE DEF At
  <2> QED
    BY <1>2, <2>1
<1> QED
  BY <1>4, <1>5, <1>6 DEF Timely, E

LEMMA ExpiryIs ==
    /\ CT!Expiry = ExpiryOf(array, arraySize)
    /\ CT!Expiry' = ExpiryOf(array', arraySize')
BY DEF CT!Expiry, ExpiryOf, CT!IsAt, CT!Never, CT!Indices

\* Only one expiry is that of the nodes, whatever their order.
LEMMA TimelyAlone ==
    ASSUME NEW E, NEW F, NEW N, Timely(E, N), Timely(F, N)
    PROVE  E = F
<1>1. \A id \in ClockIds : E[id] = F[id]
  BY DEF Timely
<1> QED
  BY <1>1 DEF Timely

\* With a node for id with the time e, in the place of what it had.
LEMMA TimelySet ==
    ASSUME NEW E, NEW N, NEW M, NEW id \in ClockIds, NEW e \in Nat, Timely(E, N),
           \/ M = N \cup {[id |-> id, expires |-> e]} /\ \A x \in N : x.id # id
           \/ \E x \in N : x.id = id /\ M = (N \ {x}) \cup {[id |-> id, expires |-> e]},
           \A x, y \in N : x.id = y.id => x = y
    PROVE  Timely([E EXCEPT ![id] = e], M)
<1> DEFINE F == [E EXCEPT ![id] = e]
           new == [id |-> id, expires |-> e]
<1>1. new.id = id /\ new.expires = e /\ new \in M
  OBVIOUS
<1>2. \A y \in M : y = new \/ (y \in N /\ y.id # id)
  OBVIOUS
<1>3. \A y \in N : y.id # id => y \in M
  OBVIOUS
<1>4. F \in [ClockIds -> Int] /\ F[id] = e /\ \A i \in ClockIds : i # id => F[i] = E[i]
  BY DEF Timely
<1> HIDE DEF new, F
<1>5. \A y \in M : y.id \in ClockIds /\ y.expires \in Nat /\ F[y.id] = y.expires
  BY <1>1, <1>2, <1>4 DEF Timely
<1>6. ASSUME NEW i \in ClockIds, \A y \in M : y.id # i PROVE F[i] = -1
  <2>1. i # id
    BY <1>1, <1>6
  <2>2. \A y \in N : y.id # i
    BY <1>3, <1>6, <2>1
  <2> QED
    BY <1>4, <2>1, <2>2 DEF Timely
<1>7. Timely(F, M)
  BY <1>4, <1>5, <1>6 DEF Timely
<1> QED
  BY <1>7 DEF F

\* Without the node x.
LEMMA TimelyRemove ==
    ASSUME NEW E, NEW N, NEW x \in N, Timely(E, N), \A y, z \in N : y.id = z.id => y = z
    PROVE  Timely([E EXCEPT ![x.id] = -1], N \ {x})
<1> DEFINE F == [E EXCEPT ![x.id] = -1]
<1>1. x.id \in ClockIds
  BY DEF Timely
<1>2. F \in [ClockIds -> Int] /\ F[x.id] = -1 /\ \A i \in ClockIds : i # x.id => F[i] = E[i]
  BY <1>1 DEF Timely
<1> HIDE DEF F
<1>3. \A y \in N \ {x} : y.id \in ClockIds /\ y.expires \in Nat /\ F[y.id] = y.expires
  BY <1>2 DEF Timely
<1>4. ASSUME NEW i \in ClockIds, \A y \in N \ {x} : y.id # i PROVE F[i] = -1
  BY <1>2, <1>4 DEF Timely
<1>5. Timely(F, N \ {x})
  BY <1>2, <1>3, <1>4 DEF Timely
<1> QED
  BY <1>5 DEF F

\* What a step does to the nodes is what the timer promises.
LEMMA StepIsTimers ==
    ASSUME ClockConstants, NEW i, NEW e, ClockStep(i, e), clock \in Nat,
           Ready(array, gs_ref, arraySize), Ready(array', gs_ref', arraySize')
    PROVE  CT!Abstract!Next
<1> DEFINE E == CT!Expiry
           N == NodesOf(array, arraySize)
           M == NodesOf(array', arraySize')
<1>1. Timely(E, N) /\ Timely(E', M)
  <2>1. Timely(ExpiryOf(array, arraySize), N)
    BY ExpiryIsTimely
  <2>2. Timely(ExpiryOf(array', arraySize'), M)
    BY ExpiryIsTimely
  <2> QED
    BY <2>1, <2>2, ExpiryIs
<1>2. \A y, z \in N : y.id = z.id => y = z
  <2> SUFFICES ASSUME NEW y \in N, NEW z \in N, y.id = z.id PROVE y = z
    OBVIOUS
  <2>1. PICK j \in 0 .. arraySize - 1 : y = array[j]
    BY NodesAre
  <2>2. PICK l \in 0 .. arraySize - 1 : z = array[l]
    BY NodesAre
  <2>3. j = l
    BY <2>1, <2>2 DEF Ready, Unique
  <2> QED
    BY <2>1, <2>2, <2>3
<1>3. /\ \A x \in N : x.id \in ClockIds /\ x.expires \in Nat /\ E[x.id] = x.expires
      /\ \A id \in ClockIds : (\A x \in N : x.id # id) => E[id] = -1
      /\ E \in [ClockIds -> Int]
  BY <1>1 DEF Timely
<1>4. CT!Abstract!Armed = {x.id : x \in N}
  <2>1. CT!Abstract!Armed = {id \in ClockIds : E[id] # -1}
    BY DEF CT!Abstract!Armed, CT!Never
  <2> HIDE DEF E, N
  <2> QED
    BY <1>3, <2>1
<1>5. \A x \in N : x.id \in CT!Abstract!Armed
  BY <1>4
<1>6. ASSUME ~clockTicks, i \in ClockIds, NEW t \in ClockTimeouts, e = clock + t,
             \/ M = N \cup {[id |-> i, expires |-> e]} /\ \A x \in N : x.id # i
             \/ \E x \in N : x.id = i /\ M = (N \ {x}) \cup {[id |-> i, expires |-> e]},
             UNCHANGED <<clock, clockTicks>>
      PROVE  CT!Abstract!Set(i)
  <2>1. e \in Nat
    BY <1>6 DEF ClockConstants
  <2> HIDE DEF E, N, M
  <2>2. Timely([E EXCEPT ![i] = e], M)
    <3>1. /\ Timely(E, N) /\ \A x, y \in N : x.id = y.id => x = y
          /\ \/ M = N \cup {[id |-> i, expires |-> e]} /\ \A x \in N : x.id # i
             \/ \E x \in N : x.id = i /\ M = (N \ {x}) \cup {[id |-> i, expires |-> e]}
      BY <1>1, <1>2, <1>6
    <3>2. i \in ClockIds
      BY <1>6
    <3>3. CASE M = N \cup {[id |-> i, expires |-> e]} /\ \A x \in N : x.id # i
      BY <2>1, <3>1, <3>2, <3>3, TimelySet
    <3>4. CASE \E x \in N : x.id = i /\ M = (N \ {x}) \cup {[id |-> i, expires |-> e]}
      BY <2>1, <3>1, <3>2, <3>4, TimelySet
    <3> QED
      BY <3>1, <3>3, <3>4
  <2>3. E' = [E EXCEPT ![i] = e]
    BY <1>1, <2>2, TimelyAlone
  <2> QED
    BY <1>6, <2>3 DEF CT!Abstract!Set, E
<1>7. ASSUME NEW x \in N, x.id = i, M = N \ {x}, UNCHANGED <<clock, clockTicks>>,
             clockTicks => x.expires <= clock /\ \A y \in N : x.expires <= y.expires
      PROVE  CT!Abstract!Run(i) \/ CT!Abstract!Fire(i)
  <2>1. E' = [E EXCEPT ![i] = CT!Never]
    <3> HIDE DEF E, N, M
    <3>1. Timely([E EXCEPT ![x.id] = -1], N \ {x})
      BY <1>1, <1>2, TimelyRemove
    <3> QED
      BY <1>1, <1>7, <3>1, TimelyAlone DEF CT!Never
  <2>2. i \in CT!Abstract!Armed /\ E[i] = x.expires
    BY <1>3, <1>5, <1>7
  <2>3. CASE ~clockTicks
    BY <1>7, <2>1, <2>2, <2>3 DEF CT!Abstract!Run
  <2>4. CASE clockTicks
    <3>1. \A other \in CT!Abstract!Armed : E[i] <= E[other]
      <4> HIDE DEF E, N
      <4> QED
        BY <1>3, <1>4, <1>7, <2>2, <2>4
    <3>2. E[i] <= clock
      BY <1>7, <2>2, <2>4
    <3> QED
      BY <1>7, <2>1, <2>2, <2>4, <3>1, <3>2 DEF CT!Abstract!Fire
  <2> QED
    BY <2>3, <2>4
<1>8. ASSUME ~clockTicks, M = {}, UNCHANGED <<clock, clockTicks>> PROVE CT!Abstract!Clear
  <2>1. E' = [id \in ClockIds |-> CT!Never]
    <3> HIDE DEF E, M
    <3>1. E' \in [ClockIds -> Int] /\ \A id \in ClockIds : E'[id] = -1
      BY <1>1, <1>8 DEF Timely
    <3> QED
      BY <3>1 DEF CT!Never
  <2> QED
    BY <1>8, <2>1 DEF CT!Abstract!Clear
<1>9. ASSUME M = N PROVE E' = E
  <2> HIDE DEF E, M, N
  <2> QED
    BY <1>1, <1>9, TimelyAlone
<1>10. ASSUME M = N, ~clockTicks, clockTicks' = TRUE, clock' = clock PROVE CT!Abstract!Tick
  BY <1>9, <1>10 DEF CT!Abstract!Tick
<1>11. ASSUME M = N, clockTicks, clockTicks' = FALSE, clock' = clock,
              \A x \in N : x.expires > clock
       PROVE  CT!Abstract!TickEnds
  <2>1. \A id \in CT!Abstract!Armed : E[id] > clock
    <3> HIDE DEF E, N
    <3> QED
      BY <1>3, <1>4, <1>11
  <2> QED
    BY <1>9, <1>11, <2>1 DEF CT!Abstract!TickEnds
<1>12. ASSUME M = N, clockTicks' = clockTicks, clock' = clock + 1 PROVE CT!Abstract!Advance
  BY <1>9, <1>12 DEF CT!Abstract!Advance
<1>13. \/ i \in ClockIds /\ (CT!Abstract!Set(i) \/ CT!Abstract!Run(i) \/ CT!Abstract!Fire(i))
       \/ CT!Abstract!Clear \/ CT!Abstract!Tick \/ CT!Abstract!TickEnds \/ CT!Abstract!Advance
  <2> HIDE DEF E, N, M
  <2> QED
    BY <1>3, <1>6, <1>7, <1>8, <1>10, <1>11, <1>12 DEF ClockStep, N, M
<1> QED
  BY <1>13 DEF CT!Abstract!Next

LEMMA ClockStarts ==
    ASSUME ClockConstants, CT!Init
    PROVE  ClockInv /\ CT!Abstract!Init
<1>1. /\ array = [k \in CT!Indices |-> CT!Junk] /\ arraySize = 0
      /\ gs_ref = [id \in ClockIds |-> 0] /\ clock = 0 /\ clockTicks = FALSE
  BY DEF CT!Init
<1>2. array \in [CT!Indices -> CT!Node] /\ gs_ref \in [ClockIds -> Int]
  BY <1>1 DEF CT!Junk, CT!Node
<1>3. NodesOf(array, arraySize) = {} /\ InOrder(array, arraySize) /\ Unique(array, arraySize)
  BY <1>1 DEF NodesOf, InOrder, Unique
<1>4. arraySize \in 0 .. ClockCapacity
  BY <1>1 DEF ClockConstants
<1>5. Ready(array, gs_ref, arraySize)
  BY <1>2, <1>3, <1>4 DEF Ready
<1>6. Timely(ExpiryOf(array, arraySize), {})
  BY <1>3, <1>5, ExpiryIsTimely
<1>7. CT!Expiry = [id \in ClockIds |-> CT!Never]
  <2>1. CT!Expiry \in [ClockIds -> Int] /\ \A id \in ClockIds : CT!Expiry[id] = -1
    BY <1>6, ExpiryIs DEF Timely
  <2> QED
    BY <2>1 DEF CT!Never
<1> QED
  BY <1>1, <1>5, <1>7 DEF ClockInv, CT!Abstract!Init

LEMMA ClockHolds ==
    ASSUME ClockConstants, ClockInv, [CT!Next]_(CT!vars)
    PROVE  ClockInv' /\ [sound' => CT!Abstract!Next]_<<CT!Abstract!vars, sound>>
<1>1. CASE CT!Next /\ sound'
  <2>1. /\ sound /\ Ready(array', gs_ref', arraySize') /\ clock' \in Nat
        /\ \E i, e : ClockStep(i, e)
    BY <1>1, ClockStepC
  <2>2. Ready(array, gs_ref, arraySize) /\ clock \in Nat
    BY <2>1 DEF ClockInv
  <2>3. CT!Abstract!Next
    BY <2>1, <2>2, StepIsTimers
  <2> QED
    BY <2>1, <2>3 DEF ClockInv
<1>2. CASE CT!Next /\ ~sound'
  BY <1>2, Zenon DEF ClockInv
<1>3. CASE UNCHANGED CT!vars
  <2>1. UNCHANGED <<array, arraySize, gs_ref, clock, clockTicks, sound>>
    BY <1>3 DEF CT!vars
  <2>2. ExpiryOf(array', arraySize') = ExpiryOf(array, arraySize)
    BY <2>1
  <2>3. CT!Expiry' = CT!Expiry
    BY <2>2, ExpiryIs
  <2> QED
    BY <2>1, <2>3 DEF ClockInv, CT!Abstract!vars
<1> QED
  BY <1>1, <1>2, <1>3

LEMMA ClockInOrder ==
    ASSUME ClockConstants, ClockInv
    PROVE  CT!HeapOrder
<1> SUFFICES ASSUME sound
             PROVE  /\ \A k \in 1 .. arraySize - 1 : ~CT!Less(array, k, CT!Parent(k))
                    /\ \A k \in 0 .. arraySize - 1 : \A j \in 0 .. k - 1 : array[j].id # array[k].id
  BY DEF CT!HeapOrder
<1>1. Ready(array, gs_ref, arraySize)
  BY DEF ClockInv
<1>2. arraySize \in Nat /\ arraySize <= ClockCapacity
      /\ \A j \in CT!Indices : array[j].expires \in Nat
  BY <1>1, ReadyFacts
<1>3. ASSUME NEW k \in 1 .. arraySize - 1 PROVE ~CT!Less(array, k, CT!Parent(k))
  <2>1. k \in CT!Indices /\ CT!Parent(k) \in CT!Indices
    BY <1>2, PlacesIn
  <2>2. array[CT!Parent(k)].expires <= array[k].expires
    BY <1>1 DEF Ready, InOrder, LaterAt
  <2>3. array[k].expires \in Nat /\ array[CT!Parent(k)].expires \in Nat
    BY <1>2, <2>1
  <2> QED
    BY <2>2, <2>3 DEF CT!Less
<1>4. ASSUME NEW k \in 0 .. arraySize - 1, NEW j \in 0 .. k - 1 PROVE array[j].id # array[k].id
  BY <1>1, <1>2 DEF Ready, Unique
<1> QED
  BY <1>3, <1>4

\* While gs_ref has not misled an operation of heapTimer.c, no node is earlier than its
\* parent and no id has two nodes: for every capacity, every set of ids and of timeouts.
THEOREM ClockHeapOrder ==
    ASSUME ClockConstants
    PROVE  CT!Spec => []CT!HeapOrder
<1>1. CT!Init => ClockInv
  BY ClockStarts
<1>2. ClockInv /\ [CT!Next]_(CT!vars) => ClockInv'
  BY ClockHolds
<1>3. ClockInv => CT!HeapOrder
  BY ClockInOrder
<1> QED
  BY <1>1, <1>2, <1>3, PTL DEF CT!Spec

\* Until gs_ref misleads an operation, heapTimer.c does what a timer promises: an id has
\* one expiry, and a tick fires what has expired, the earliest first.
THEOREM ClockImplementsTimer ==
    ASSUME ClockConstants
    PROVE  CT!Spec => CT!ImplementsTimer
<1>1. CT!Init => ClockInv /\ CT!Abstract!Init
  BY ClockStarts
<1>2. ClockInv /\ [CT!Next]_(CT!vars)
         => ClockInv' /\ [sound' => CT!Abstract!Next]_<<CT!Abstract!vars, sound>>
  BY ClockHolds
<1> QED
  BY <1>1, <1>2, PTL DEF CT!Spec, CT!ImplementsTimer
=============================================================================
