--------------------------- MODULE LibraryProofs ---------------------------
(***************************************************************************)
(* Theorems about tables and lists of the C library: the hash table, for   *)
(* every set of keys and values, the tree of services, for paths of every  *)
(* length, and the linked list, for every set of addresses; and about      *)
(* MC_Components, the parts that stand alone side by side: what the        *)
(* theorems about each part say of the whole.                              *)
(***************************************************************************)
EXTENDS MC_Components, ComponentProofs, TreeProofs

-----------------------------------------------------------------------------
(* The hash table.                                                         *)

HashNode == [key : HashKeys \cup {0}, value : HashValues \cup {0}, room : Nat]

\* What the chains T may be: a node that was not cleared is in the bucket of its key, and
\* alone there with it.
Sound(T) ==
    /\ T \in [H!Buckets -> Seq(HashNode)]
    /\ \A b \in H!Buckets : \A x, y \in 1 .. Len(T[b]) :
          T[b][x].key # 0 =>
              /\ H!BucketOf[T[b][x].key] = b
              /\ T[b][y].key = T[b][x].key => x = y

\* What is found in the chains T.
Found(T, key) ==
    LET places == {x \in 1 .. Len(T[H!BucketOf[key]]) : T[H!BucketOf[key]][x].key = key}
    IN IF H!BucketOf[key] \notin H!Buckets \/ places = {} THEN -1
       ELSE T[H!BucketOf[key]][H!Min(places)].value

LEMMA OnlyIsLeast ==
    ASSUME NEW x \in Int
    PROVE  H!Min({x}) = x
BY DEF H!Min

\* Where the node of a key is, that it has none, and that two tables agree about it.
Place(T, key, b, x) ==
    /\ Sound(T) /\ key # 0 /\ b \in H!Buckets /\ H!BucketOf[key] = b
    /\ x \in 1 .. Len(T[b]) /\ T[b][x].key = key

Absent(T, key, b) ==
    /\ H!BucketOf[key] = b
    /\ b \notin H!Buckets \/ \A x \in 1 .. Len(T[b]) : T[b][x].key # key

Alike(T, U, key) == T[H!BucketOf[key]] = U[H!BucketOf[key]]

LEMMA FoundAt ==
    ASSUME NEW T, NEW key, NEW b, NEW x, Place(T, key, b, x)
    PROVE  /\ {y \in 1 .. Len(T[b]) : T[b][y].key = key} = {x}
           /\ H!Min({y \in 1 .. Len(T[b]) : T[b][y].key = key}) = x
           /\ Found(T, key) = T[b][x].value
<1>1. {y \in 1 .. Len(T[b]) : T[b][y].key = key} = {x}
  BY DEF Place, Sound
<1>2. x \in Int
  BY DEF Place
<1>3. H!Min({y \in 1 .. Len(T[b]) : T[b][y].key = key}) = x
  BY <1>1, <1>2, OnlyIsLeast
<1> QED
  BY <1>1, <1>3 DEF Found, Place

LEMMA FoundNowhere ==
    ASSUME NEW T, NEW key, NEW b, Absent(T, key, b)
    PROVE  Found(T, key) = -1
BY DEF Found, Absent

LEMMA FoundAlike ==
    ASSUME NEW T, NEW U, NEW key, Alike(T, U, key)
    PROVE  Found(T, key) = Found(U, key)
BY DEF Found, Alike

LEMMA HashForm ==
    /\ \A key \in HashKeys : H!Value(key) = Found(hashBucket, key)
    /\ \A key \in HashKeys : H!Value(key)' = Found(hashBucket', key)
    /\ H!Map = [k \in HashKeys |-> Found(hashBucket, k)]
    /\ H!Map' = [k \in HashKeys |-> Found(hashBucket', k)]
BY DEF H!Value, H!Map, H!Positions, Found, H!NULL

\* Every value has the memory it needs.
Roomy(T) == \A b \in H!Buckets : \A x \in 1 .. Len(T[b]) : T[b][x].value < T[b][x].room

\* A node that is to be in the chain of its bucket.
Fits(T, b, e) ==
    /\ H!HashKeysAndValues /\ Sound(T) /\ b \in H!Buckets
    /\ e \in HashNode /\ e.key \in HashKeys /\ H!BucketOf[e.key] = b

\* Two tables that differ by a node of a key, and what is found in the second.
NowFound(T, U, e) ==
    /\ Sound(U) /\ Found(U, e.key) = e.value
    /\ \A k \in HashKeys \ {e.key} : Found(U, k) = Found(T, k)
    /\ Roomy(T) /\ e.value < e.room => Roomy(U)

\* The tables differ by node z of bucket b.
Differs(T, U, b, z, e) ==
    /\ Fits(T, b, e) /\ U \in [H!Buckets -> Seq(HashNode)]
    /\ \A c \in H!Buckets \ {b} : U[c] = T[c]
    /\ z \in 1 .. Len(U[b]) /\ U[b][z] = e
    /\ \A x \in 1 .. Len(U[b]) : x # z =>
          x \in 1 .. Len(T[b]) /\ U[b][x] = T[b][x] /\ T[b][x].key # e.key
    /\ \A x \in 1 .. Len(T[b]) :
          x \in 1 .. Len(U[b]) /\ (x = z => T[b][x].key = e.key)

LEMMA DiffersSound ==
    ASSUME NEW T, NEW U, NEW b, NEW z, NEW e, Differs(T, U, b, z, e)
    PROVE  Sound(U)
<1>1. ASSUME NEW c \in H!Buckets, NEW x \in 1 .. Len(U[c]), NEW y \in 1 .. Len(U[c]),
             U[c][x].key # 0
      PROVE  H!BucketOf[U[c][x].key] = c /\ (U[c][y].key = U[c][x].key => x = y)
  <2>1. CASE c # b
    <3>1. U[c] = T[c]
      BY <2>1 DEF Differs
    <3> QED
      BY <3>1, <1>1 DEF Differs, Fits, Sound
  <2>2. CASE c = b /\ x # z
    <3>1. U[b][x] = T[b][x] /\ x \in 1 .. Len(T[b]) /\ U[b][x].key # e.key
      BY <2>2 DEF Differs
    <3>2. CASE y # z
      <4>1. U[b][y] = T[b][y] /\ y \in 1 .. Len(T[b])
        BY <2>2, <3>2 DEF Differs
      <4> QED
        BY <3>1, <4>1, <2>2, <1>1 DEF Differs, Fits, Sound
    <3>3. CASE y = z
      <4>1. U[b][y].key = e.key
        BY <3>3 DEF Differs
      <4> QED
        BY <3>1, <4>1, <2>2, <1>1 DEF Differs, Fits, Sound
    <3> QED
      BY <3>2, <3>3
  <2>3. CASE c = b /\ x = z
    BY <2>3 DEF Differs, Fits
  <2> QED
    BY <2>1, <2>2, <2>3
<1> QED
  BY <1>1 DEF Differs, Sound

LEMMA DiffersFound ==
    ASSUME NEW T, NEW U, NEW b, NEW z, NEW e, Differs(T, U, b, z, e)
    PROVE  NowFound(T, U, e)
<1>1. Sound(U)
  BY DiffersSound
<1>2. \A k \in HashKeys : k # 0
  BY DEF Differs, Fits, H!HashKeysAndValues, H!NoKey
<1>3. Found(U, e.key) = e.value
  <2>1. Place(U, e.key, b, z)
    BY <1>1, <1>2 DEF Differs, Fits, Place
  <2>2. Found(U, e.key) = U[b][z].value
    BY <2>1, FoundAt
  <2> QED
    BY <2>2 DEF Differs
<1>4. ASSUME NEW k \in HashKeys \ {e.key}
      PROVE  Found(U, k) = Found(T, k)
  <2>1. CASE H!BucketOf[k] \notin H!Buckets
    BY <2>1 DEF Found
  <2>2. CASE H!BucketOf[k] \in H!Buckets \ {b}
    <3>1. Alike(U, T, k)
      BY <2>2 DEF Differs, Alike
    <3> QED
      BY <3>1, FoundAlike
  <2>3. CASE H!BucketOf[k] = b /\ \E x \in 1 .. Len(T[b]) : T[b][x].key = k
    <3>1. PICK x \in 1 .. Len(T[b]) : T[b][x].key = k
      BY <2>3
    <3>2. x \in 1 .. Len(U[b]) /\ x # z /\ U[b][x] = T[b][x]
      BY <3>1 DEF Differs
    <3>3. Place(T, k, b, x)
      BY <3>1, <2>3, <1>2 DEF Differs, Fits, Place
    <3>4. Place(U, k, b, x)
      BY <3>1, <3>2, <2>3, <1>1, <1>2 DEF Differs, Fits, Place
    <3>5. Found(T, k) = T[b][x].value
      BY <3>3, FoundAt
    <3>6. Found(U, k) = U[b][x].value
      BY <3>4, FoundAt
    <3> QED
      BY <3>2, <3>5, <3>6
  <2>4. CASE H!BucketOf[k] = b /\ ~ \E x \in 1 .. Len(T[b]) : T[b][x].key = k
    <3>1. Absent(T, k, b)
      BY <2>4 DEF Absent
    <3>2. Absent(U, k, b)
      BY <2>4 DEF Absent, Differs
    <3>3. Found(T, k) = -1
      BY <3>1, FoundNowhere
    <3>4. Found(U, k) = -1
      BY <3>2, FoundNowhere
    <3> QED
      BY <3>3, <3>4
  <2> QED
    BY <2>1, <2>2, <2>3, <2>4
<1>5. ASSUME Roomy(T), e.value < e.room
      PROVE  Roomy(U)
  <2>1. ASSUME NEW c \in H!Buckets, NEW x \in 1 .. Len(U[c])
        PROVE  U[c][x].value < U[c][x].room
    <3>1. CASE c # b
      <4>1. U[c] = T[c]
        BY <3>1 DEF Differs
      <4> QED
        BY <4>1, <1>5 DEF Roomy
    <3>2. CASE c = b /\ x # z
      <4>1. U[b][x] = T[b][x] /\ x \in 1 .. Len(T[b])
        BY <3>2 DEF Differs
      <4> QED
        BY <4>1, <3>2, <1>5 DEF Roomy, Differs, Fits
    <3>3. CASE c = b /\ x = z
      BY <3>3, <1>5 DEF Differs
    <3> QED
      BY <3>1, <3>2, <3>3
  <2> QED
    BY <2>1 DEF Roomy
<1> QED
  BY <1>1, <1>3, <1>4, <1>5 DEF NowFound

\* A node behind all others of its bucket, for a key that has none.
LEMMA NodeAppended ==
    ASSUME NEW T, NEW b, NEW e, Fits(T, b, e),
           \A x \in 1 .. Len(T[b]) : T[b][x].key # e.key
    PROVE  Differs(T, [T EXCEPT ![b] = Append(T[b], e)], b, Len(T[b]) + 1, e)
<1> DEFINE s == Append(T[b], e)
           U == [T EXCEPT ![b] = s]
<1>1. T \in [H!Buckets -> Seq(HashNode)] /\ T[b] \in Seq(HashNode) /\ e \in HashNode
  BY DEF Fits, Sound
<1>2. Len(T[b]) \in Nat
  BY <1>1, LenProperties
<1>3. /\ s \in Seq(HashNode) /\ Len(s) = Len(T[b]) + 1
      /\ \A x \in 1 .. Len(T[b]) : s[x] = T[b][x]
      /\ s[Len(T[b]) + 1] = e
  BY <1>1, AppendProperties
<1> HIDE DEF s
<1>4. /\ U \in [H!Buckets -> Seq(HashNode)] /\ U[b] = s
      /\ \A c \in H!Buckets \ {b} : U[c] = T[c]
  BY <1>1, <1>3 DEF Fits
<1> HIDE DEF U
<1>5. /\ \A x \in 1 .. Len(T[b]) + 1 : x # Len(T[b]) + 1 => x \in 1 .. Len(T[b])
      /\ Len(T[b]) + 1 \in 1 .. Len(T[b]) + 1
      /\ \A x \in 1 .. Len(T[b]) : x \in 1 .. Len(T[b]) + 1 /\ x # Len(T[b]) + 1
  BY <1>2
<1>6. Differs(T, U, b, Len(T[b]) + 1, e)
  BY <1>3, <1>4, <1>5 DEF Differs
<1> QED
  BY <1>6 DEF U, s

\* Another value in the node of its key.
LEMMA NodeReplaced ==
    ASSUME NEW T, NEW b, NEW e, Fits(T, b, e),
           NEW z, z \in 1 .. Len(T[b]), T[b][z].key = e.key
    PROVE  Differs(T, [T EXCEPT ![b] = [T[b] EXCEPT ![z] = e]], b, z, e)
<1> DEFINE s == [T[b] EXCEPT ![z] = e]
           U == [T EXCEPT ![b] = s]
<1>1. T \in [H!Buckets -> Seq(HashNode)] /\ T[b] \in Seq(HashNode) /\ e \in HashNode
  BY DEF Fits, Sound
<1>2. /\ s \in Seq(HashNode) /\ Len(s) = Len(T[b]) /\ s[z] = e
      /\ \A x \in 1 .. Len(T[b]) : x # z => s[x] = T[b][x]
  <2>1. s \in Seq(HashNode) /\ Len(s) = Len(T[b])
    BY <1>1, ExceptSeq
  <2>2. \A x \in 1 .. Len(T[b]) : s[x] = IF x = z THEN e ELSE T[b][x]
    BY <1>1, LenProperties
  <2> HIDE DEF s
  <2> QED
    BY <2>1, <2>2
<1> HIDE DEF s
<1>3. /\ U \in [H!Buckets -> Seq(HashNode)] /\ U[b] = s
      /\ \A c \in H!Buckets \ {b} : U[c] = T[c]
  BY <1>1, <1>2 DEF Fits
<1> HIDE DEF U
<1>4. \A x \in 1 .. Len(T[b]) : x # z => T[b][x].key # e.key
  BY DEF Fits, Sound, H!HashKeysAndValues, H!NoKey
<1>5. Differs(T, U, b, z, e)
  BY <1>2, <1>3, <1>4 DEF Differs
<1> QED
  BY <1>5 DEF U, s

HashInv ==
    /\ Sound(hashBucket)
    /\ hashBroken \in BOOLEAN
    /\ ~hashBroken => Roomy(hashBucket)

\* The steps of Dictionary, read for the table.
LEMMA DictionaryForm ==
    /\ H!Abstract!Init <=> \A k \in HashKeys : Found(hashBucket, k) = -1
    /\ \A k \in HashKeys : \A v : H!Abstract!Put(k, v) <=>
          /\ Found(hashBucket', k) = v
          /\ \A other \in HashKeys \ {k} : Found(hashBucket', other) = Found(hashBucket, other)
    /\ H!Abstract!Clear <=> \A k \in HashKeys : Found(hashBucket', k) = -1
    /\ UNCHANGED H!Map <=>
          \A k \in HashKeys : Found(hashBucket', k) = Found(hashBucket, k)
<1>1. H!Map = [k \in HashKeys |-> Found(hashBucket, k)]
  BY HashForm
<1>2. H!Map' = [k \in HashKeys |-> Found(hashBucket', k)]
  BY HashForm
<1>3. H!Abstract!Init <=> \A k \in HashKeys : Found(hashBucket, k) = -1
  <2>1. H!Abstract!Init <=> H!Map = [k \in HashKeys |-> -1]
    BY DEF H!Abstract!Init, H!NULL
  <2> QED
    BY <2>1, <1>1
<1>4. ASSUME NEW k \in HashKeys, NEW v
      PROVE  H!Abstract!Put(k, v) <=>
                /\ Found(hashBucket', k) = v
                /\ \A other \in HashKeys \ {k} :
                      Found(hashBucket', other) = Found(hashBucket, other)
  <2>1. H!Abstract!Put(k, v) <=> H!Map' = [H!Map EXCEPT ![k] = v]
    BY DEF H!Abstract!Put
  <2> QED
    BY <2>1, <1>1, <1>2
<1>5. H!Abstract!Clear <=> \A k \in HashKeys : Found(hashBucket', k) = -1
  <2>1. H!Abstract!Clear <=> H!Map' = [k \in HashKeys |-> -1]
    BY DEF H!Abstract!Clear, H!NULL
  <2> QED
    BY <2>1, <1>2
<1>6. UNCHANGED H!Map <=> \A k \in HashKeys : Found(hashBucket', k) = Found(hashBucket, k)
  BY <1>1, <1>2
<1> QED
  BY <1>3, <1>4, <1>5, <1>6

\* What an insertion leaves: a key that has no bucket is an access before the first, any
\* other is found with its new value.
LEMMA InsertNode ==
    ASSUME H!HashKeysAndValues, Sound(hashBucket), NEW key \in HashKeys, NEW value \in HashValues,
           H!hashInsertNode(key, value)
    PROVE  \/ hashBroken' = TRUE /\ UNCHANGED hashBucket
           \/ \E e \in HashNode :
                 /\ e.key = key /\ e.value = value /\ NowFound(hashBucket, hashBucket', e)
                 /\ \/ hashBroken' = (value + 1 > e.room)
                    \/ UNCHANGED hashBroken /\ value < e.room
<1> DEFINE b == H!BucketOf[key]
           s == hashBucket[b]
<1>1. \A e \in HashNode : e.key = key /\ b \in H!Buckets => Fits(hashBucket, b, e)
  BY DEF Fits
<1>2. value \in Nat /\ value + 1 \in Nat /\ value < value + 1
  BY DEF H!HashKeysAndValues
<1>3. CASE b \notin H!Buckets
  BY <1>3 DEF H!hashInsertNode
<1>4. CASE b \in H!Buckets /\ H!Positions(s, key) = {}
  <2> DEFINE e == [key |-> key, value |-> value, room |-> value + 1]
  <2>1. e \in HashNode /\ e.key = key /\ e.value = value /\ e.room = value + 1
    BY <1>2 DEF HashNode
  <2>2. hashBucket' = [hashBucket EXCEPT ![b] = Append(s, e)] /\ UNCHANGED hashBroken
    BY <1>4 DEF H!hashInsertNode, H!Replaced, H!New, H!Entry
  <2> HIDE DEF e
  <2>3. \A x \in 1 .. Len(hashBucket[b]) : hashBucket[b][x].key # e.key
    BY <1>4, <2>1 DEF H!Positions
  <2>4. Fits(hashBucket, b, e)
    BY <1>1, <1>4, <2>1
  <2>5. Differs(hashBucket, hashBucket', b, Len(hashBucket[b]) + 1, e)
    <3>1. Differs(hashBucket, [hashBucket EXCEPT ![b] = Append(hashBucket[b], e)], b,
                  Len(hashBucket[b]) + 1, e)
      BY <2>3, <2>4, NodeAppended
    <3> QED
      BY <3>1, <2>2
  <2>6. NowFound(hashBucket, hashBucket', e)
    BY <2>5, DiffersFound
  <2> QED
    BY <2>1, <2>2, <2>6, <1>2
<1>5. CASE b \in H!Buckets /\ H!Positions(s, key) # {}
  <2>1. PICK z \in 1 .. Len(hashBucket[b]) : hashBucket[b][z].key = key
    BY <1>5 DEF H!Positions
  <2>2. key # 0
    BY DEF H!HashKeysAndValues, H!NoKey
  <2>3. Place(hashBucket, key, b, z)
    BY <2>1, <2>2, <1>5 DEF Place
  <2>4. H!Min(H!Positions(s, key)) = z
    BY <2>3, FoundAt DEF H!Positions
  <2> DEFINE room == H!RoomFor(hashBucket[b][z], value)
             e == [key |-> key, value |-> value, room |-> room]
  <2>5. room \in Nat
    <3>1. hashBucket[b] \in Seq(HashNode)
      BY <1>5 DEF Sound
    <3>2. hashBucket[b][z] \in HashNode
      BY <3>1, <2>1, LenProperties
    <3> QED
      BY <3>2 DEF HashNode, H!RoomFor, H!SIZEOF_INT
  <2>6. /\ hashBucket' = [hashBucket EXCEPT ![b] = [s EXCEPT ![z] = e]]
        /\ hashBroken' = (value + 1 > room)
    BY <1>5, <2>4 DEF H!hashInsertNode, H!Replaced, H!Entry
  <2> HIDE DEF room
  <2>7. e \in HashNode /\ e.key = key /\ e.value = value /\ e.room = room
    BY <2>5 DEF HashNode
  <2> HIDE DEF e
  <2>8. Fits(hashBucket, b, e)
    BY <1>1, <1>5, <2>7
  <2>9. Differs(hashBucket, hashBucket', b, z, e)
    <3>1. Differs(hashBucket, [hashBucket EXCEPT ![b] = [hashBucket[b] EXCEPT ![z] = e]], b, z, e)
      BY <2>1, <2>7, <2>8, NodeReplaced
    <3> QED
      BY <3>1, <2>6
  <2>10. NowFound(hashBucket, hashBucket', e)
    BY <2>9, DiffersFound
  <2> QED
    BY <2>6, <2>7, <2>10
<1> QED
  BY <1>3, <1>4, <1>5

LEMMA IsBoolean ==
    ASSUME NEW u, NEW v \in Int, NEW w \in Int, u = (v > w)
    PROVE  u \in BOOLEAN
OBVIOUS

LEMMA InsertNodeStep ==
    ASSUME H!HashKeysAndValues, HashInv, ~hashBroken, NEW key \in HashKeys,
           NEW value \in HashValues, H!hashInsertNode(key, value)
    PROVE  HashInv' /\ (H!Abstract!Put(key, value) \/ UNCHANGED H!Map)
<1>1. Sound(hashBucket) /\ Roomy(hashBucket) /\ hashBroken \in BOOLEAN
  BY DEF HashInv
<1>2. CASE hashBroken' = TRUE /\ UNCHANGED hashBucket
  <2>1. HashInv'
    BY <1>1, <1>2 DEF HashInv
  <2> QED
    BY <2>1, <1>2, DictionaryForm
<1>3. CASE \E e \in HashNode :
              /\ e.key = key /\ e.value = value /\ NowFound(hashBucket, hashBucket', e)
              /\ \/ hashBroken' = (value + 1 > e.room)
                 \/ UNCHANGED hashBroken /\ value < e.room
  <2>1. PICK e \in HashNode :
              /\ e.key = key /\ e.value = value /\ NowFound(hashBucket, hashBucket', e)
              /\ \/ hashBroken' = (value + 1 > e.room)
                 \/ UNCHANGED hashBroken /\ value < e.room
    BY <1>3
  <2>2. hashBroken' \in BOOLEAN
    <3>1. CASE hashBroken' = (value + 1 > e.room)
      <4>1. value + 1 \in Int /\ e.room \in Int
        BY DEF HashNode, H!HashKeysAndValues
      <4> QED
        BY <3>1, <4>1, IsBoolean
    <3>2. CASE UNCHANGED hashBroken
      BY <3>2, <1>1
    <3> QED
      BY <2>1, <3>1, <3>2
  <2>3. ~hashBroken' => e.value < e.room
    <3>1. value \in Int /\ e.room \in Int
      BY DEF HashNode, H!HashKeysAndValues
    <3>2. ~(value + 1 > e.room) => value < e.room
      BY <3>1
    <3> QED
      BY <2>1, <3>2
  <2>4. HashInv'
    BY <2>1, <2>2, <2>3, <1>1 DEF HashInv, NowFound
  <2>5. H!Abstract!Put(key, value)
    BY <2>1, DictionaryForm DEF NowFound
  <2> QED
    BY <2>4, <2>5
<1> QED
  BY <1>1, <1>2, <1>3, InsertNode

LEMMA ClearStep ==
    ASSUME H!HashKeysAndValues, HashInv, ~hashBroken, H!hashClear
    PROVE  HashInv' /\ (H!Abstract!Clear \/ H!ClearsInPart \/ UNCHANGED H!Map)
<1>1. /\ Sound(hashBucket) /\ Roomy(hashBucket) /\ hashBroken \in BOOLEAN
      /\ hashBucket \in [H!Buckets -> Seq(HashNode)]
  BY DEF HashInv, Sound
<1>2. CASE \E b \in H!Buckets \ {0} : hashBucket[b] = << >>
  <2>1. hashBroken' = TRUE /\ UNCHANGED hashBucket
    BY <1>2 DEF H!hashClear
  <2>2. HashInv'
    BY <2>1, <1>1 DEF HashInv
  <2> QED
    BY <2>1, <2>2, DictionaryForm
<1>3. CASE ~ \E b \in H!Buckets \ {0} : hashBucket[b] = << >>
  <2> DEFINE wiped(b) == [x \in DOMAIN hashBucket[b] |->
                             [key |-> 0,
                              value |-> IF x = 1 THEN 0 ELSE hashBucket[b][x].value,
                              room |-> hashBucket[b][x].room]]
  <2>1. /\ hashBucket' = [b \in H!Buckets |-> IF b = 0 THEN hashBucket[b] ELSE wiped(b)]
        /\ UNCHANGED hashBroken
    BY <1>3 DEF H!hashClear, H!Entry, H!NoKey
  <2>2. ASSUME NEW b \in H!Buckets
        PROVE  /\ wiped(b) \in Seq(HashNode) /\ Len(wiped(b)) = Len(hashBucket[b])
               /\ \A x \in 1 .. Len(hashBucket[b]) :
                     wiped(b)[x].key = 0 /\ wiped(b)[x].value < wiped(b)[x].room
    <3>1. hashBucket[b] \in Seq(HashNode)
      BY <1>1
    <3>2. /\ Len(hashBucket[b]) \in Nat /\ DOMAIN hashBucket[b] = 1 .. Len(hashBucket[b])
          /\ \A x \in 1 .. Len(hashBucket[b]) : hashBucket[b][x] \in HashNode
      BY <3>1, LenProperties
    <3>3. ASSUME NEW x \in 1 .. Len(hashBucket[b])
          PROVE  wiped(b)[x] \in HashNode /\ wiped(b)[x].key = 0
                    /\ wiped(b)[x].value < wiped(b)[x].room
      <4> DEFINE e == hashBucket[b][x]
      <4>1. e \in HashNode /\ e.value < e.room
        BY <3>2, <1>1 DEF Roomy
      <4>2. wiped(b)[x] = [key |-> 0, value |-> IF x = 1 THEN 0 ELSE e.value, room |-> e.room]
        BY <3>2
      <4> HIDE DEF e, wiped
      <4>3. e.value \in Nat /\ e.room \in Nat /\ 0 < e.room /\ e.value \in HashValues \cup {0}
        <5>1. e.value \in HashValues \cup {0} /\ e.room \in Nat
          BY <4>1 DEF HashNode
        <5>2. e.value \in Nat
          <6>1. HashValues \subseteq Nat /\ 0 \in Nat
            BY DEF H!HashKeysAndValues
          <6> QED
            BY <5>1, <6>1
        <5> QED
          BY <4>1, <5>1, <5>2
      <4> QED
        BY <4>1, <4>2, <4>3 DEF HashNode
    <3>4. DOMAIN wiped(b) = 1 .. Len(hashBucket[b])
      BY <3>2
    <3>5. wiped(b) \in [1 .. Len(hashBucket[b]) -> HashNode]
      BY <3>2, <3>3, <3>4
    <3> HIDE DEF wiped
    <3>6. wiped(b) \in Seq(HashNode) /\ Len(wiped(b)) = Len(hashBucket[b])
      BY <3>2, <3>5, SeqOfLength
    <3> QED
      BY <3>3, <3>6
  <2> HIDE DEF wiped
  <2>3. hashBucket' \in [H!Buckets -> Seq(HashNode)]
    BY <2>1, <2>2, <1>1
  <2>4. ASSUME NEW b \in H!Buckets, b # 0
        PROVE  /\ hashBucket'[b] = wiped(b)
               /\ \A x \in 1 .. Len(hashBucket'[b]) :
                     /\ hashBucket'[b][x].key = 0
                     /\ hashBucket'[b][x].value < hashBucket'[b][x].room
    BY <2>1, <2>2, <2>4
  <2>5. 0 \in H!Buckets => hashBucket'[0] = hashBucket[0]
    BY <2>1
  <2>6. Sound(hashBucket')
    <3>1. ASSUME NEW b \in H!Buckets, NEW x \in 1 .. Len(hashBucket'[b]),
                 NEW y \in 1 .. Len(hashBucket'[b]), hashBucket'[b][x].key # 0
          PROVE  /\ H!BucketOf[hashBucket'[b][x].key] = b
                 /\ hashBucket'[b][y].key = hashBucket'[b][x].key => x = y
      <4>1. b = 0
        BY <3>1, <2>4
      <4>2. hashBucket'[b] = hashBucket[b]
        BY <4>1, <2>5
      <4> QED
        BY <4>2, <3>1, <1>1 DEF Sound
    <3> QED
      BY <3>1, <2>3 DEF Sound
  <2>7. Roomy(hashBucket')
    BY <2>4, <2>5, <1>1 DEF Roomy
  <2>8. ASSUME NEW k \in HashKeys
        PROVE  Found(hashBucket', k) = IF H!BucketOf[k] = 0 THEN Found(hashBucket, k) ELSE -1
    <3>1. CASE H!BucketOf[k] \notin H!Buckets
      BY <3>1 DEF Found
    <3>2. CASE H!BucketOf[k] \in H!Buckets /\ H!BucketOf[k] = 0
      <4>1. Alike(hashBucket', hashBucket, k)
        BY <3>2, <2>5 DEF Alike
      <4>2. Found(hashBucket', k) = Found(hashBucket, k)
        BY <4>1, FoundAlike
      <4> QED
        BY <4>2, <3>2
    <3>3. CASE H!BucketOf[k] \in H!Buckets /\ H!BucketOf[k] # 0
      <4>1. k # 0
        BY DEF H!HashKeysAndValues, H!NoKey
      <4>2. Absent(hashBucket', k, H!BucketOf[k])
        BY <4>1, <3>3, <2>4 DEF Absent
      <4>3. Found(hashBucket', k) = -1
        BY <4>2, FoundNowhere
      <4> QED
        BY <4>3, <3>3
    <3> QED
      BY <3>1, <3>2, <3>3
  <2>9. HashInv'
    BY <2>1, <2>6, <2>7, <1>1 DEF HashInv
  <2>10. CASE hashBucket[0] = << >>
    <3>1. ASSUME NEW k \in HashKeys, H!BucketOf[k] = 0
          PROVE  Found(hashBucket, k) = -1
      <4>1. Absent(hashBucket, k, 0)
        BY <3>1, <2>10 DEF Absent
      <4> QED
        BY <4>1, FoundNowhere
    <3>2. \A k \in HashKeys : Found(hashBucket', k) = -1
      BY <3>1, <2>8
    <3> QED
      BY <3>2, <2>9, DictionaryForm
  <2>11. CASE hashBucket[0] # << >>
    <3>1. \A k \in HashKeys : H!Value(k)' = IF H!BucketOf[k] = 0 THEN H!Value(k) ELSE H!NULL
      BY <2>8, HashForm DEF H!NULL
    <3>2. H!ClearsInPart
      BY <3>1, <2>11 DEF H!ClearsInPart
    <3> QED
      BY <3>2, <2>9
  <2> QED
    BY <2>10, <2>11
<1> QED
  BY <1>2, <1>3

\* A table whose buckets are all empty.
LEMMA NothingHashed ==
    ASSUME NEW T, T = [b \in H!Buckets |-> << >>]
    PROVE  Sound(T) /\ Roomy(T) /\ \A k \in HashKeys : Found(T, k) = -1
<1>1. << >> \in Seq(HashNode) /\ Len(<< >>) = 0 /\ 1 .. 0 = {}
  OBVIOUS
<1>2. Sound(T) /\ Roomy(T)
  BY <1>1 DEF Sound, Roomy
<1>3. ASSUME NEW k \in HashKeys
      PROVE  Found(T, k) = -1
  <2>1. Absent(T, k, H!BucketOf[k])
    BY <1>1 DEF Absent
  <2> QED
    BY <2>1, FoundNowhere
<1> QED
  BY <1>2, <1>3

LEMMA HashInit ==
    ASSUME H!Init
    PROVE  HashInv /\ H!Abstract!Init
<1>1. hashBucket = [b \in H!Buckets |-> << >>] /\ hashBroken = FALSE
  BY DEF H!Init
<1>2. /\ Sound(hashBucket) /\ Roomy(hashBucket)
      /\ \A k \in HashKeys : Found(hashBucket, k) = -1
  BY <1>1, NothingHashed
<1>3. HashInv
  BY <1>1, <1>2 DEF HashInv
<1>4. H!Abstract!Init
  BY <1>2, DictionaryForm
<1> QED
  BY <1>3, <1>4

LEMMA HashStep ==
    ASSUME H!HashKeysAndValues, HashInv, [H!Next]_(H!vars)
    PROVE  HashInv' /\ (H!Abstract!Next \/ H!ClearsInPart \/ UNCHANGED H!Map)
<1>1. CASE UNCHANGED H!vars
  <2>1. UNCHANGED <<hashBucket, hashBroken>>
    BY <1>1 DEF H!vars
  <2> QED
    BY <2>1, DictionaryForm DEF HashInv
<1>2. CASE ~hashBroken /\ \E key \in HashKeys : H!hashFind(key)
  <2>1. UNCHANGED hashBucket /\ hashBroken' \in BOOLEAN
    BY <1>2 DEF H!hashFind
  <2>2. HashInv'
    BY <2>1, <1>2 DEF HashInv
  <2> QED
    BY <2>1, <2>2, DictionaryForm
<1>3. ASSUME ~hashBroken, NEW key \in HashKeys, NEW value \in HashValues,
             H!hashInsertNode(key, value)
      PROVE  HashInv' /\ (H!Abstract!Next \/ H!ClearsInPart \/ UNCHANGED H!Map)
  BY <1>3, InsertNodeStep DEF H!Abstract!Next
<1>4. CASE ~hashBroken /\ H!hashClear
  BY <1>4, ClearStep DEF H!Abstract!Next
<1>5. CASE ~hashBroken /\ H!hashFree
  <2>1. hashBucket' = [b \in H!Buckets |-> << >>] /\ UNCHANGED hashBroken
    BY <1>5 DEF H!hashFree
  <2>2. HashInv' /\ \A k \in HashKeys : Found(hashBucket', k) = -1
    BY <2>1, NothingHashed DEF HashInv
  <2> QED
    BY <2>2, DictionaryForm DEF H!Abstract!Next
<1> QED
  BY <1>1, <1>2, <1>3, <1>4, <1>5 DEF H!Next

LEMMA FindsStep ==
    ASSUME H!HashKeysAndValues, HashInv
    PROVE  H!Finds
<1> SUFFICES ASSUME NEW key \in HashKeys, NEW value \in HashValues,
                    H!hashInsertNode(key, value), ~hashBroken'
             PROVE  H!Value(key)' = value
  BY DEF H!Finds
<1>1. Sound(hashBucket)
  BY DEF HashInv
<1>2. \E e \in HashNode : e.key = key /\ e.value = value /\ NowFound(hashBucket, hashBucket', e)
  BY <1>1, InsertNode
<1>3. Found(hashBucket', key) = value
  BY <1>2 DEF NowFound
<1> QED
  BY <1>3, HashForm

LEMMA HashInvImplies ==
    HashInv => H!TypeOK /\ H!OneNodePerKey
<1> SUFFICES ASSUME HashInv PROVE H!TypeOK /\ H!OneNodePerKey
  OBVIOUS
<1>1. ASSUME NEW b \in H!Buckets, NEW x \in 1 .. Len(hashBucket[b])
      PROVE  hashBucket[b][x] \in HashNode
  <2>1. hashBucket[b] \in Seq(HashNode)
    BY DEF HashInv, Sound
  <2> QED
    BY <2>1, LenProperties
<1>2. H!TypeOK
  BY <1>1 DEF HashInv, Roomy, HashNode, H!TypeOK, H!NoKey
<1>3. H!OneNodePerKey
  BY DEF HashInv, Sound, H!OneNodePerKey, H!NoKey
<1> QED
  BY <1>2, <1>3

\* A key is in its own bucket and in one node, so that no chain shows an old value beside
\* the new one, and the memory of every value holds it up to the first undefined access:
\* for every set of keys and values and every number of buckets.
THEOREM OneNodeAlways ==
    ASSUME H!HashKeysAndValues
    PROVE  H!Spec => [](H!TypeOK /\ H!OneNodePerKey)
<1>1. H!Init => HashInv
  BY HashInit
<1>2. HashInv /\ [H!Next]_(H!vars) => HashInv'
  BY HashStep
<1> QED
  BY <1>1, <1>2, HashInvImplies, PTL DEF H!Spec

\* The table is a map up to the first undefined access: what is put is what is found,
\* and nothing else changes.  It is cleared whole by hashFree and by a hashClear that
\* meets nothing in bucket 0; any other hashClear leaves what bucket 0 holds.
THEOREM HashImplementsDictionary ==
    ASSUME H!HashKeysAndValues
    PROVE  H!Spec => H!ImplementsDictionary
<1>1. H!Init => HashInv /\ H!Abstract!Init
  BY HashInit
<1>2. HashInv /\ [H!Next]_(H!vars)
         => HashInv' /\ (H!Abstract!Next \/ H!ClearsInPart \/ UNCHANGED H!Map)
  BY HashStep
<1>3. HashInv => H!Finds
  BY FindsStep
<1>4. H!Spec => []HashInv
  BY <1>1, <1>2, PTL DEF H!Spec
<1>5. H!Spec => H!Abstract!Init /\ [][H!Abstract!Next \/ H!ClearsInPart]_(H!Map)
  BY <1>1, <1>2, <1>4, PTL DEF H!Spec
<1>6. H!Spec => [][H!Finds]_(H!vars)
  BY <1>3, <1>4, PTL
<1> QED
  BY <1>5, <1>6 DEF H!ImplementsDictionary
-----------------------------------------------------------------------------
(* The tree of services.                                                   *)

TableNames == {"root_node", "logMgr", "system", "logConfig"}

\* The tables that the rows of a name in some tables lead to, and the tables for each
\* place of a path.
Below(tables, name) ==
    {s.nextnode : s \in {r \in UNION {N!Rows(t) : t \in tables} :
                            r.name = name /\ r.nextnode # "NULL"}}

IsLevels(g, names, M) ==
    g = [m \in 1 .. M |-> IF m = 1 THEN {"root_node"} ELSE Below(g[m - 1], names[m - 1])]

Levels(names) == CHOOSE g : IsLevels(g, names, NodeMaxPath + 1)

ProcessesNamed(tables, name) ==
    {r.process : r \in {s \in UNION {N!Rows(t) : t \in tables} : s.name = name}} \ {"NULL"}

LEMMA LevelsExist ==
    ASSUME NEW names, NEW M \in Nat
    PROVE  \E g : IsLevels(g, names, M)
<1> DEFINE Reaches(m) == \E g : IsLevels(g, names, m)
           bad == {m \in Nat : ~Reaches(m)}
<1> SUFFICES ASSUME bad # {} PROVE FALSE
  OBVIOUS
<1>1. PICK m \in bad : \A y \in bad : m <= y
  BY LeastExists
<1>2. m \in Nat /\ ~Reaches(m)
  OBVIOUS
<1>3. CASE m = 0
  <2> DEFINE g == [x \in 1 .. 0 |-> {}]
  <2>1. IsLevels(g, names, 0)
    BY DEF IsLevels
  <2> QED
    BY <2>1, <1>2, <1>3
<1>4. CASE m # 0
  <2>1. m - 1 \in Nat /\ ~(m <= m - 1)
    BY <1>2, <1>4
  <2>2. Reaches(m - 1)
    BY <2>1, <1>1
  <2>3. PICK f : IsLevels(f, names, m - 1)
    BY <2>2
  <2> DEFINE g == [x \in 1 .. m |-> IF x = 1 THEN {"root_node"} ELSE Below(f[x - 1], names[x - 1])]
  <2>4. ASSUME NEW x \in 1 .. m, x # 1
        PROVE  g[x - 1] = f[x - 1]
    <3>1. x - 1 \in 1 .. m - 1 /\ x - 1 \in 1 .. m
      BY <2>4
    <3>2. f = [y \in 1 .. m - 1 |-> IF y = 1 THEN {"root_node"} ELSE Below(f[y - 1], names[y - 1])]
      BY <2>3 DEF IsLevels
    <3> DEFINE d == x - 1
    <3>3. d \in 1 .. m - 1 /\ d \in 1 .. m
      BY <3>1
    <3> HIDE DEF d
    <3>4. f[d] = IF d = 1 THEN {"root_node"} ELSE Below(f[d - 1], names[d - 1])
      BY <3>2, <3>3
    <3>5. g[d] = IF d = 1 THEN {"root_node"} ELSE Below(f[d - 1], names[d - 1])
      BY <3>3
    <3> QED
      BY <3>4, <3>5 DEF d
  <2>5. g = [x \in 1 .. m |-> IF x = 1 THEN {"root_node"} ELSE Below(g[x - 1], names[x - 1])]
    <3>1. \A x \in 1 .. m : g[x] = IF x = 1 THEN {"root_node"} ELSE Below(g[x - 1], names[x - 1])
      BY <2>4
    <3> QED
      BY <3>1
  <2> HIDE DEF g
  <2>6. IsLevels(g, names, m)
    BY <2>5 DEF IsLevels
  <2> QED
    BY <2>6, <1>2
<1> QED
  BY <1>3, <1>4

LEMMA LevelAt ==
    ASSUME NodeMaxPath \in Nat, NEW names
    PROVE  /\ Levels(names)[1] = {"root_node"}
           /\ \A m \in 1 .. NodeMaxPath :
                 Levels(names)[m + 1] = Below(Levels(names)[m], names[m])
<1> DEFINE g == Levels(names)
<1>1. IsLevels(g, names, NodeMaxPath + 1)
  <2>1. NodeMaxPath + 1 \in Nat
    OBVIOUS
  <2>2. \E f : IsLevels(f, names, NodeMaxPath + 1)
    BY <2>1, LevelsExist
  <2> QED
    BY <2>2, Zenon DEF Levels
<1>2. g = [m \in 1 .. NodeMaxPath + 1 |-> IF m = 1 THEN {"root_node"}
                                          ELSE Below(g[m - 1], names[m - 1])]
  BY <1>1 DEF IsLevels
<1> HIDE DEF g
<1>3. \A m \in 1 .. NodeMaxPath + 1 :
         g[m] = IF m = 1 THEN {"root_node"} ELSE Below(g[m - 1], names[m - 1])
  BY <1>2
<1>4. 1 \in 1 .. NodeMaxPath + 1
  OBVIOUS
<1>5. ASSUME NEW m \in 1 .. NodeMaxPath
      PROVE  g[m + 1] = Below(g[m], names[m])
  <2>1. m + 1 \in 1 .. NodeMaxPath + 1 /\ m + 1 # 1 /\ (m + 1) - 1 = m
    OBVIOUS
  <2>2. g[m + 1] = Below(g[(m + 1) - 1], names[(m + 1) - 1])
    BY <2>1, <1>3
  <2> QED
    BY <2>1, <2>2
<1> QED
  BY <1>3, <1>4, <1>5 DEF g

LEMMA NodeForm ==
    /\ N!TablesAt = Levels(nodePath)
    /\ N!Processes = ProcessesNamed(Levels(nodePath)[Len(nodePath)], nodePath[Len(nodePath)])
<1>1. N!TablesAt = Levels(nodePath)
  BY DEF N!TablesAt, Levels, IsLevels, Below, N!NULL
<1>2. N!Processes = ProcessesNamed(N!TablesAt[Len(nodePath)], nodePath[Len(nodePath)])
  BY DEF N!Processes, ProcessesNamed, N!NULL
<1> QED
  BY <1>1, <1>2

LEMMA TheTables ==
    /\ DOMAIN N!Tables = TableNames
    /\ N!Tables["root_node"]
          = <<N!Service("system", "NULL", "system"), N!Service("logInfo", "NULL", "logMgr"),
              N!Service("network", "network", "NULL"), N!Service("/root_node", "NULL", "NULL")>>
    /\ N!Tables["logMgr"]
          = <<N!Service("config", "NULL", "logConfig"), N!Service("info", "logInfo", "NULL"),
              N!Service("/logInfo", "NULL", "NULL")>>
    /\ N!Tables["system"]
          = <<N!Service("config", "systemConfig", "NULL"), N!Service("info", "systemInfo", "NULL"),
              N!Service("/system", "NULL", "NULL")>>
    /\ N!Tables["logConfig"]
          = <<N!Service("config", "logConfigV2", "NULL"), N!Service("info", "logInfoV2", "NULL"),
              N!Service("/system", "NULL", "NULL")>>
BY DEF N!Tables, N!NULL, TableNames

\* A name is in one row of a table, and a row leads to a table or nowhere.
LEMMA RowsOfTable ==
    ASSUME NEW t \in TableNames
    PROVE  /\ Len(N!Tables[t]) \in Nat
           /\ \A e, f \in 1 .. Len(N!Tables[t]) :
                 N!Tables[t][e].name = N!Tables[t][f].name => e = f
           /\ \A e \in 1 .. Len(N!Tables[t]) :
                 N!Tables[t][e].nextnode \in TableNames \cup {"NULL"}
<1>1. CASE t = "root_node"
  BY <1>1, TheTables DEF N!Service, TableNames
<1>2. CASE t = "logMgr"
  BY <1>2, TheTables DEF N!Service, TableNames
<1>3. CASE t = "system"
  BY <1>3, TheTables DEF N!Service, TableNames
<1>4. CASE t = "logConfig"
  BY <1>4, TheTables DEF N!Service, TableNames
<1> QED
  BY <1>1, <1>2, <1>3, <1>4 DEF TableNames

\* Where a name leads from a table, and the processes it has there: one row decides it,
\* and a table without the name has neither.
LEMMA OneRow ==
    ASSUME NEW t \in TableNames, NEW e \in 1 .. Len(N!Tables[t])
    PROVE  /\ Below({t}, N!Tables[t][e].name)
                = IF N!Tables[t][e].nextnode = "NULL" THEN {} ELSE {N!Tables[t][e].nextnode}
           /\ ProcessesNamed({t}, N!Tables[t][e].name)
                = IF N!Tables[t][e].process = "NULL" THEN {} ELSE {N!Tables[t][e].process}
<1> DEFINE row == N!Tables[t][e]
           named == {r \in UNION {N!Rows(u) : u \in {t}} : r.name = row.name}
<1>1. UNION {N!Rows(u) : u \in {t}} = {N!Tables[t][f] : f \in 1 .. Len(N!Tables[t])}
  BY DEF N!Rows
<1>2. named = {row}
  <2>1. row \in named
    BY <1>1
  <2>2. ASSUME NEW r \in named PROVE r = row
    <3>1. PICK f \in 1 .. Len(N!Tables[t]) : r = N!Tables[t][f]
      BY <1>1
    <3>2. f = e
      BY <3>1, RowsOfTable
    <3> QED
      BY <3>1, <3>2
  <2> QED
    BY <2>1, <2>2
<1>3. {r \in UNION {N!Rows(u) : u \in {t}} : r.name = row.name /\ r.nextnode # "NULL"}
        = {r \in named : r.nextnode # "NULL"}
  OBVIOUS
<1> HIDE DEF named
<1>4. Below({t}, row.name) = {s.nextnode : s \in {r \in {row} : r.nextnode # "NULL"}}
  BY <1>2, <1>3 DEF Below
<1>5. ProcessesNamed({t}, row.name) = {r.process : r \in {row}} \ {"NULL"}
  BY <1>2 DEF ProcessesNamed, named
<1> HIDE DEF row
<1>6. Below({t}, row.name) = IF row.nextnode = "NULL" THEN {} ELSE {row.nextnode}
  BY <1>4
<1>7. ProcessesNamed({t}, row.name) = IF row.process = "NULL" THEN {} ELSE {row.process}
  BY <1>5
<1> QED
  BY <1>6, <1>7 DEF row

LEMMA NoRow ==
    ASSUME NEW t, NEW name,
           \A e \in 1 .. Len(N!Tables[t]) : N!Tables[t][e].name # name
    PROVE  Below({t}, name) = {} /\ ProcessesNamed({t}, name) = {}
<1>1. {r \in UNION {N!Rows(u) : u \in {t}} : r.name = name} = {}
  BY DEF N!Rows
<1>2. {r \in UNION {N!Rows(u) : u \in {t}} : r.name = name /\ r.nextnode # "NULL"} = {}
  BY <1>1
<1> QED
  BY <1>1, <1>2 DEF Below, ProcessesNamed

LEMMA NoTable ==
    ASSUME NEW name
    PROVE  Below({}, name) = {} /\ ProcessesNamed({}, name) = {}
BY DEF Below, ProcessesNamed

\* Below a place without tables there are none either.
LEMMA NothingBelow ==
    ASSUME NodeMaxPath \in Nat, NEW names, NEW k \in 1 .. NodeMaxPath + 1,
           Levels(names)[k] = {}, NEW m \in k .. NodeMaxPath + 1
    PROVE  Levels(names)[m] = {}
<1> DEFINE g == Levels(names)
           bad == {x \in Nat : x \in k .. NodeMaxPath + 1 /\ g[x] # {}}
<1> SUFFICES ASSUME bad # {} PROVE FALSE
  OBVIOUS
<1>1. PICK x \in bad : \A y \in bad : x <= y
  BY LeastExists
<1>2. x \in k .. NodeMaxPath + 1 /\ g[x] # {} /\ x # k
  OBVIOUS
<1>3. x - 1 \in Nat /\ x - 1 \in k .. NodeMaxPath + 1 /\ ~(x <= x - 1) /\ x - 1 \in 1 .. NodeMaxPath
  BY <1>2
<1>4. g[x - 1] = {}
  BY <1>1, <1>3
<1>5. g[(x - 1) + 1] = Below(g[x - 1], names[x - 1])
  BY <1>3, LevelAt
<1>6. g[x] = Below({}, names[x - 1])
  <2>1. (x - 1) + 1 = x
    BY <1>3
  <2> QED
    BY <2>1, <1>4, <1>5
<1> QED
  BY <1>2, <1>6, NoTable

\* The walk: as long as it stays in the tables it is in the one table that the names so
\* far lead to, and the rows it has passed bear other names; once it has left its table
\* the path names no service.
Passed ==
    \A e \in 1 .. Len(N!Tables[nodeTable]) :
        e < nodeEntry => N!Tables[nodeTable][e].name # nodePath[nodeToken]

NodeInv ==
    /\ nodePath \in N!Paths /\ nodeStrayed \in BOOLEAN
    /\ nodeResult = "running" =>
          /\ nodeToken \in 1 .. Len(nodePath)
          /\ nodeTable \in TableNames /\ nodeEntry \in Nat \ {0}
          /\ nodeStrayed => N!Processes = {}
          /\ ~nodeStrayed => Levels(nodePath)[nodeToken] = {nodeTable} /\ Passed
    /\ N!OwnProcess

\* A path and the place of a name in it.
LEMMA PathForm ==
    ASSUME NodeMaxPath \in Nat, nodePath \in N!Paths, nodeToken \in 1 .. Len(nodePath)
    PROVE  /\ Len(nodePath) \in 1 .. NodeMaxPath
           /\ nodeToken \in 1 .. NodeMaxPath
           /\ nodeToken \in Nat
<1>1. PICK m \in 0 .. NodeMaxPath : nodePath \in [1 .. m -> N!Names]
  BY DEF N!Paths
<1>2. Len(nodePath) = m
  BY <1>1
<1> QED
  BY <1>2

\* A name that leads nowhere leaves the path without a service.
LEMMA NoService ==
    ASSUME NodeMaxPath \in Nat, nodePath \in N!Paths, nodeToken \in 1 .. Len(nodePath),
           Levels(nodePath)[nodeToken] = {nodeTable},
           nodeToken = Len(nodePath) => ProcessesNamed({nodeTable}, nodePath[nodeToken]) = {},
           nodeToken # Len(nodePath) => Below({nodeTable}, nodePath[nodeToken]) = {}
    PROVE  N!Processes = {}
<1>1. Len(nodePath) \in 1 .. NodeMaxPath /\ nodeToken \in 1 .. NodeMaxPath
  BY PathForm
<1>2. CASE nodeToken = Len(nodePath)
  BY <1>2, NodeForm
<1>3. CASE nodeToken # Len(nodePath)
  <2>1. Levels(nodePath)[nodeToken + 1] = {}
    BY <1>1, <1>3, LevelAt
  <2>2. nodeToken + 1 \in 1 .. NodeMaxPath + 1
        /\ Len(nodePath) \in nodeToken + 1 .. NodeMaxPath + 1
    BY <1>1, <1>3
  <2>3. Levels(nodePath)[Len(nodePath)] = {}
    BY <2>1, <2>2, NothingBelow
  <2> QED
    BY <2>3, NodeForm, NoTable
<1> QED
  BY <1>2, <1>3

LEMMA NodeFirst ==
    ASSUME NodeMaxPath \in Nat, N!Init
    PROVE  NodeInv
<1>1. nodePath \in N!Paths /\ nodeStrayed = FALSE /\ nodeToken = 1 /\ nodeEntry = 1
      /\ nodeTable = "root_node"
      /\ nodeResult = IF nodePath = << >> THEN "NULL" ELSE "running"
  BY DEF N!Init, N!NULL, N!Running
<1>2. N!OwnProcess
  BY <1>1 DEF N!OwnProcess, N!Running
<1>3. Levels(nodePath)[1] = {"root_node"}
  BY LevelAt
<1>4. nodeTable \in TableNames /\ nodeEntry \in Nat \ {0}
  BY <1>1 DEF TableNames
<1>5. Passed
  BY <1>1 DEF Passed
<1>6. nodePath # << >> => 1 \in 1 .. Len(nodePath)
  <2>1. PICK m \in 0 .. NodeMaxPath : nodePath \in [1 .. m -> N!Names]
    BY <1>1 DEF N!Paths
  <2>2. Len(nodePath) = m
    BY <2>1
  <2>3. m = 0 => nodePath = << >>
    BY <2>1
  <2> QED
    BY <2>2, <2>3
<1> QED
  BY <1>1, <1>2, <1>3, <1>4, <1>5, <1>6 DEF NodeInv

\* Before a step the walk goes on.
LEMMA Walking ==
    ASSUME NodeInv, nodeResult = "running"
    PROVE  /\ nodePath \in N!Paths /\ nodeStrayed \in BOOLEAN
           /\ nodeToken \in 1 .. Len(nodePath)
           /\ nodeTable \in TableNames /\ nodeEntry \in Nat \ {0}
           /\ nodeStrayed => N!Processes = {}
           /\ ~nodeStrayed => Levels(nodePath)[nodeToken] = {nodeTable} /\ Passed
           /\ Len(N!Tables[nodeTable]) \in Nat
BY RowsOfTable DEF NodeInv

\* The processes of a path are a matter of the path alone.
LEMMA SamePath ==
    ASSUME UNCHANGED nodePath
    PROVE  N!Processes' = N!Processes /\ Levels(nodePath)' = Levels(nodePath)
<1>1. Levels(nodePath)' = Levels(nodePath)
  OBVIOUS
<1>2. N!Processes' = N!Processes
  BY DEF N!Processes, N!TablesAt
<1> QED
  BY <1>1, <1>2

LEMMA NodeMismatch ==
    ASSUME NodeInv, nodeResult = "running", N!Mismatch
    PROVE  NodeInv'
<1>1. N!Tables[nodeTable][nodeEntry].name # nodePath[nodeToken]
      /\ nodeEntry' = nodeEntry + 1
      /\ UNCHANGED <<nodePath, nodeToken, nodeTable, nodeStrayed, nodeResult>>
  BY DEF N!Mismatch
<1>2. nodeEntry \in Nat \ {0}
  BY Walking
<1>3. ASSUME Passed PROVE Passed'
  <2>1. ASSUME NEW e \in 1 .. Len(N!Tables[nodeTable]), e < nodeEntry + 1
        PROVE  N!Tables[nodeTable][e].name # nodePath[nodeToken]
    <3>1. e < nodeEntry \/ e = nodeEntry
      BY <2>1, <1>2
    <3> QED
      BY <3>1, <1>1, <1>3, <2>1 DEF Passed
  <2> QED
    BY <2>1, <1>1 DEF Passed
<1>4. N!Processes' = N!Processes /\ Levels(nodePath)' = Levels(nodePath)
  BY <1>1, SamePath
<1>5. nodeEntry' \in Nat \ {0}
  BY <1>1, <1>2
<1>6. N!OwnProcess'
  BY <1>1, <1>4 DEF N!OwnProcess, N!Running
<1> QED
  BY <1>1, <1>3, <1>4, <1>5, <1>6, Walking DEF NodeInv, N!Paths

LEMMA NodeStray ==
    ASSUME NodeMaxPath \in Nat, NodeInv, nodeResult = "running", N!Stray
    PROVE  NodeInv'
<1>1. ~N!InTable /\ nodeStrayed' = TRUE /\ nodePath' = nodePath /\ nodeToken' = nodeToken
  BY DEF N!Stray
<1>2. N!Processes' = N!Processes
  BY <1>1, SamePath
<1>3. N!Processes = {}
  <2>1. CASE nodeStrayed
    BY <2>1, Walking
  <2>2. CASE ~nodeStrayed
    <3>1. \A e \in 1 .. Len(N!Tables[nodeTable]) : e < nodeEntry
      BY <1>1, Walking DEF N!InTable
    <3>2. \A e \in 1 .. Len(N!Tables[nodeTable]) :
             N!Tables[nodeTable][e].name # nodePath[nodeToken]
      BY <2>2, <3>1, Walking DEF Passed
    <3>3. Below({nodeTable}, nodePath[nodeToken]) = {}
          /\ ProcessesNamed({nodeTable}, nodePath[nodeToken]) = {}
      BY <3>2, NoRow
    <3>4. Levels(nodePath)[nodeToken] = {nodeTable}
      BY <2>2, Walking
    <3> QED
      BY <3>3, <3>4, Walking, NoService
  <2> QED
    BY <2>1, <2>2
<1>4. N!OwnProcess'
  BY <1>1, <1>2, <1>3 DEF N!OwnProcess
<1>5. nodeResult' = "running" => nodeTable' \in TableNames /\ nodeEntry' \in Nat \ {0}
  BY TheTables, Walking DEF N!Stray, N!NULL, N!Crashed
<1> QED
  BY <1>1, <1>2, <1>3, <1>4, <1>5, Walking DEF NodeInv, N!Paths

\* What the row says that the walk has found.
LEMMA TheRow ==
    ASSUME NodeInv, nodeResult = "running", N!Found
    PROVE  /\ nodeEntry \in 1 .. Len(N!Tables[nodeTable])
           /\ Below({nodeTable}, nodePath[nodeToken])
                = IF N!Tables[nodeTable][nodeEntry].nextnode = "NULL" THEN {}
                  ELSE {N!Tables[nodeTable][nodeEntry].nextnode}
           /\ ProcessesNamed({nodeTable}, nodePath[nodeToken])
                = IF N!Tables[nodeTable][nodeEntry].process = "NULL" THEN {}
                  ELSE {N!Tables[nodeTable][nodeEntry].process}
<1>1. nodeEntry \in 1 .. Len(N!Tables[nodeTable])
  BY Walking DEF N!Found, N!InTable
<1>2. N!Tables[nodeTable][nodeEntry].name = nodePath[nodeToken]
  BY DEF N!Found
<1>3. nodeTable \in TableNames
  BY Walking
<1> QED
  BY <1>1, <1>2, <1>3, OneRow

LEMMA NodeReturn ==
    ASSUME NodeMaxPath \in Nat, NodeInv, nodeResult = "running", N!Return
    PROVE  NodeInv'
<1>1. N!Found /\ nodeToken = Len(nodePath)
      /\ nodeResult' = N!Tables[nodeTable][nodeEntry].process
      /\ UNCHANGED <<nodePath, nodeToken, nodeTable, nodeEntry, nodeStrayed>>
  BY DEF N!Return, N!Last
<1>2. N!Processes' = N!Processes /\ Levels(nodePath)' = Levels(nodePath)
  BY <1>1, SamePath
<1>3. N!OwnProcess'
  <2>1. CASE nodeStrayed
    <3>1. N!Processes' = {} /\ nodeStrayed' = TRUE
      BY <1>1, <1>2, <2>1, Walking
    <3> QED
      BY <3>1 DEF N!OwnProcess
  <2>2. CASE ~nodeStrayed
    <3>1. N!Processes = ProcessesNamed({nodeTable}, nodePath[nodeToken])
      BY <1>1, <2>2, Walking, NodeForm
    <3>2. N!Processes = IF nodeResult' = "NULL" THEN {} ELSE {nodeResult'}
      BY <1>1, <3>1, TheRow
    <3> QED
      BY <1>1, <1>2, <2>2, <3>2 DEF N!OwnProcess, N!NULL
  <2> QED
    BY <2>1, <2>2
<1>4. Passed' <=> Passed
  BY <1>1 DEF Passed
<1> QED
  BY <1>1, <1>2, <1>3, <1>4, Walking DEF NodeInv, N!Paths

LEMMA NodeDescend ==
    ASSUME NodeMaxPath \in Nat, NodeInv, nodeResult = "running", N!Descend
    PROVE  NodeInv'
<1> DEFINE next == N!Tables[nodeTable][nodeEntry].nextnode
<1>1. N!Found /\ nodeToken # Len(nodePath) /\ UNCHANGED <<nodePath, nodeStrayed>>
  BY DEF N!Descend, N!Last
<1>2. N!Processes' = N!Processes /\ Levels(nodePath)' = Levels(nodePath)
  BY <1>1, SamePath
<1>3. nodeToken \in 1 .. Len(nodePath) /\ nodeToken \in 1 .. NodeMaxPath
      /\ Len(nodePath) \in 1 .. NodeMaxPath
  BY Walking, PathForm
<1>4. Below({nodeTable}, nodePath[nodeToken]) = IF next = "NULL" THEN {} ELSE {next}
  BY <1>1, TheRow
<1>5. CASE next = "NULL"
  <2>1. nodeResult' = "NULL" /\ UNCHANGED <<nodeToken, nodeTable, nodeEntry>>
    BY <1>5 DEF N!Descend, N!NULL
  <2>2. ~nodeStrayed => N!Processes = {}
    BY <1>1, <1>4, <1>5, Walking, NoService
  <2>3. N!Processes = {}
    BY <2>2, Walking
  <2>4. N!OwnProcess'
    BY <1>2, <2>1, <2>3 DEF N!OwnProcess, N!NULL
  <2> QED
    BY <1>1, <2>1, <2>4, Walking DEF NodeInv, N!Paths
<1>6. CASE next # "NULL"
  <2>1. nodeToken' = nodeToken + 1 /\ nodeTable' = next /\ nodeEntry' = 1
        /\ nodeResult' = nodeResult
    BY <1>6 DEF N!Descend, N!NULL
  <2>2. next \in TableNames
    BY <1>1, <1>6, Walking, TheRow, RowsOfTable
  <2>3. nodeToken' \in 1 .. Len(nodePath')
    BY <1>1, <1>3, <2>1
  <2>4. ~nodeStrayed => Levels(nodePath)[nodeToken + 1] = {next}
    BY <1>3, <1>4, <1>6, Walking, LevelAt
  <2>5. ~nodeStrayed => (Levels(nodePath)[nodeToken])' = {nodeTable'}
    BY <1>1, <2>1, <2>4
  <2>6. Passed'
    BY <2>1 DEF Passed
  <2>7. N!OwnProcess'
    BY <2>1 DEF N!OwnProcess, N!Running
  <2>8. nodeTable' \in TableNames /\ nodeEntry' \in Nat \ {0}
    BY <2>1, <2>2
  <2> QED
    BY <1>1, <1>2, <2>3, <2>5, <2>6, <2>7, <2>8, Walking DEF NodeInv, N!Paths
<1> QED
  BY <1>5, <1>6

\* getProcess gives a path the process of its own service, never that of another table
\* in which the last name is the same, and only a walk that has left its table finds a
\* service for another path (node_tree.c:69-98): for paths of every length.
THEOREM OwnProcessAlways ==
    ASSUME NodeMaxPath \in Nat
    PROVE  N!Spec => []N!OwnProcess
<1>1. N!Init => NodeInv
  BY NodeFirst
<1>2. NodeInv /\ [N!Next]_N!vars => NodeInv'
  <2> SUFFICES ASSUME NodeInv, [N!Next]_N!vars PROVE NodeInv'
    OBVIOUS
  <2>1. CASE N!Next
    <3>1. nodeResult = "running"
      BY <2>1 DEF N!Next, N!Running
    <3> QED
      BY <2>1, <3>1, NodeMismatch, NodeStray, NodeReturn, NodeDescend DEF N!Next
  <2>2. CASE UNCHANGED N!vars
    <3>1. UNCHANGED <<nodePath, nodeToken, nodeTable, nodeEntry, nodeStrayed, nodeResult>>
      BY <2>2 DEF N!vars
    <3>2. N!Processes' = N!Processes /\ Levels(nodePath)' = Levels(nodePath)
      BY <3>1, SamePath
    <3>3. N!OwnProcess' /\ (Passed' <=> Passed)
      BY <3>1, <3>2 DEF NodeInv, N!OwnProcess, Passed, N!Running
    <3> QED
      BY <3>1, <3>2, <3>3 DEF NodeInv, N!Paths
  <2> QED
    BY <2>1, <2>2
<1>3. NodeInv => N!OwnProcess
  BY DEF NodeInv
<1> QED
  BY <1>1, <1>2, <1>3, PTL DEF N!Spec
-----------------------------------------------------------------------------
(* The linked list.                                                        *)

\* From x k links on.
IsAlong(f, g, x, k) == f = [m \in 0 .. k |-> IF m = 0 THEN x ELSE g[f[m - 1]]]

Along(g, x, k) == (CHOOSE f : IsAlong(f, g, x, k))[k]

\* The nodes as lstDth finds them.
Walked(h, t, c, g, d) ==
    [l \in TheLists |-> [k \in 1 .. c[l] |->
        IF k <= c[l] \div 2 THEN Along(g, h[l], k - 1) ELSE Along(d, t[l], c[l] - k)]]

\* Each link leads from a node to the next.
Linked(s, g) == \A k \in 1 .. Len(s) - 1 : g[s[k]] = s[k + 1]

BackLinked(s, d) == \A k \in 1 .. Len(s) - 1 : d[s[k + 1]] = s[k]

\* A sequence of nodes is what is in a list, forwards and backwards.
Chain(s, h, t, c, g, d) ==
    /\ s \in Seq(ListNodes) /\ c = Len(s)
    /\ IF s = << >> THEN h = 0 /\ t = 0
       ELSE h = s[1] /\ t = s[Len(s)] /\ d[h] = 0 /\ g[t] = 0
    /\ Linked(s, g) /\ BackLinked(s, d)

\* No node is in two places.
Single(S) ==
    \A l, m \in TheLists : \A k \in 1 .. Len(S[l]), j \in 1 .. Len(S[m]) :
        S[l][k] = S[m][j] => l = m /\ k = j

\* All lists.
Chained(S, h, t, c, g, d, A) ==
    /\ S \in [TheLists -> Seq(ListNodes)] /\ Single(S)
    /\ \A l \in TheLists : Chain(S[l], h[l], t[l], c[l], g, d)
    /\ \A l \in TheLists : \A k \in 1 .. Len(S[l]) : S[l][k] \in A
    /\ h \in [TheLists -> ListNodes \cup {0}] /\ t \in [TheLists -> ListNodes \cup {0}]
    /\ c \in [TheLists -> Nat] /\ A \subseteq ListNodes
    /\ g \in [ListNodes -> ListNodes \cup {0}] /\ d \in [ListNodes -> ListNodes \cup {0}]

\* The links lead from x over the values of e.
Leads(e, g, x, k) == k \in Nat /\ e[0] = x /\ \A m \in 1 .. k : e[m] = g[e[m - 1]]

LEMMA AlongIs ==
    ASSUME NEW g, NEW x, NEW e, NEW k, Leads(e, g, x, k)
    PROVE  Along(g, x, k) = e[k]
<1>0. k \in Nat /\ e[0] = x /\ \A m \in 1 .. k : e[m] = g[e[m - 1]]
  BY DEF Leads
<1> DEFINE f == CHOOSE f : IsAlong(f, g, x, k)
           r == [m \in 0 .. k |-> e[m]]
           bad == {m \in Nat : m <= k /\ f[m] # e[m]}
<1>1. IsAlong(r, g, x, k)
  <2>1. ASSUME NEW m \in 0 .. k
        PROVE  e[m] = IF m = 0 THEN x ELSE g[r[m - 1]]
    <3>1. CASE m = 0
      BY <3>1, <1>0
    <3>2. CASE m # 0
      <4>1. m \in 1 .. k /\ m - 1 \in 0 .. k
        BY <3>2, <1>0
      <4> QED
        BY <4>1, <3>2, <1>0
    <3> QED
      BY <3>1, <3>2
  <2> QED
    BY <2>1 DEF IsAlong
<1>2. IsAlong(f, g, x, k)
  BY <1>1, Zenon
<1> HIDE DEF f
<1>3. \A m \in 0 .. k : f[m] = IF m = 0 THEN x ELSE g[f[m - 1]]
  BY <1>2 DEF IsAlong
<1>4. bad = {}
  <2> SUFFICES ASSUME bad # {} PROVE FALSE
    OBVIOUS
  <2>1. PICK m \in bad : \A y \in bad : m <= y
    BY LeastExists
  <2>2. m \in 0 .. k /\ f[m] # e[m]
    BY <1>0
  <2>3. m # 0
    BY <2>2, <1>3, <1>0
  <2>4. m - 1 \in Nat /\ m - 1 <= k /\ ~(m <= m - 1) /\ m \in 1 .. k
    BY <2>2, <2>3, <1>0
  <2>5. f[m - 1] = e[m - 1]
    BY <2>1, <2>4
  <2> QED
    BY <2>2, <2>3, <2>4, <2>5, <1>3, <1>0
<1>5. f[k] = e[k]
  BY <1>4, <1>0
<1> QED
  BY <1>5 DEF Along, f

LEMMA AlongForward ==
    ASSUME NEW S, NEW s \in Seq(S), NEW g, Linked(s, g), NEW k \in 1 .. Len(s)
    PROVE  Along(g, s[1], k - 1) = s[k]
<1> DEFINE e == [m \in 0 .. k - 1 |-> s[m + 1]]
<1>1. k - 1 \in Nat /\ Len(s) \in Nat /\ k \in Nat
  OBVIOUS
<1>2. e[0] = s[1] /\ e[k - 1] = s[k]
  BY <1>1
<1>3. ASSUME NEW m \in 1 .. k - 1 PROVE e[m] = g[e[m - 1]]
  <2>1. m \in 1 .. Len(s) - 1 /\ m - 1 \in 0 .. k - 1 /\ m \in 0 .. k - 1
    BY <1>1
  <2>2. e[m - 1] = s[m] /\ e[m] = s[m + 1]
    BY <2>1
  <2> QED
    BY <2>1, <2>2 DEF Linked
<1> HIDE DEF e
<1>4. Leads(e, g, s[1], k - 1)
  BY <1>1, <1>2, <1>3 DEF Leads
<1> QED
  BY <1>2, <1>4, AlongIs

LEMMA AlongBackward ==
    ASSUME NEW S, NEW s \in Seq(S), NEW d, BackLinked(s, d), NEW k \in 1 .. Len(s)
    PROVE  Along(d, s[Len(s)], Len(s) - k) = s[k]
<1> DEFINE z == Len(s)
           e == [m \in 0 .. z - k |-> s[z - m]]
<1>1. z - k \in Nat /\ z \in Nat /\ k \in Nat
  OBVIOUS
<1> HIDE DEF z
<1>2. e[0] = s[z] /\ e[z - k] = s[k]
  BY <1>1
<1>3. ASSUME NEW m \in 1 .. z - k PROVE e[m] = d[e[m - 1]]
  <2> DEFINE q == z - m
  <2>1. q \in 1 .. z - 1 /\ m - 1 \in 0 .. z - k /\ m \in 0 .. z - k /\ z - (m - 1) = q + 1
    BY <1>1, k >= 1
  <2>2. e[m] = s[z - m] /\ e[m - 1] = s[z - (m - 1)]
    BY <2>1
  <2>3. e[m - 1] = s[q + 1] /\ e[m] = s[q]
    BY <2>1, <2>2
  <2> HIDE DEF q
  <2> QED
    BY <2>1, <2>3 DEF BackLinked, z
<1> HIDE DEF e
<1>4. Leads(e, d, s[z], z - k)
  BY <1>1, <1>2, <1>3 DEF Leads
<1>5. Along(d, s[z], z - k) = e[z - k]
  BY <1>4, AlongIs
<1> QED
  BY <1>2, <1>5 DEF z

\* The nodes that lstDth finds, from the nearer end, are those of the sequences.
LEMMA WalkedIs ==
    ASSUME NEW S, NEW h, NEW t, NEW c, NEW g, NEW d, NEW A, Chained(S, h, t, c, g, d, A)
    PROVE  Walked(h, t, c, g, d) = S
<1>1. ASSUME NEW l \in TheLists
      PROVE  S[l] = [k \in 1 .. c[l] |-> IF k <= c[l] \div 2 THEN Along(g, h[l], k - 1)
                                         ELSE Along(d, t[l], c[l] - k)]
  <2>1. PICK s : s = S[l]
    OBVIOUS
  <2>2. s \in Seq(ListNodes) /\ c[l] = Len(s) /\ Linked(s, g) /\ BackLinked(s, d)
    BY <2>1 DEF Chained, Chain
  <2>3. ASSUME NEW k \in 1 .. Len(s)
        PROVE  Along(g, h[l], k - 1) = s[k] /\ Along(d, t[l], c[l] - k) = s[k]
    <3>1. s # << >>
      BY <2>2
    <3>2. h[l] = s[1] /\ t[l] = s[Len(s)]
      BY <2>1, <3>1 DEF Chained, Chain
    <3> QED
      BY <2>2, <3>2, AlongForward, AlongBackward
  <2>4. s = [k \in 1 .. Len(s) |-> s[k]]
    BY <2>2
  <2>5. [k \in 1 .. c[l] |-> IF k <= c[l] \div 2 THEN Along(g, h[l], k - 1)
                             ELSE Along(d, t[l], c[l] - k)] = [k \in 1 .. Len(s) |-> s[k]]
    BY <2>2, <2>3, Zenon
  <2> QED
    BY <2>1, <2>4, <2>5
<1>2. S = [l \in TheLists |-> S[l]]
  BY DEF Chained
<1>3. [l \in TheLists |-> S[l]] = Walked(h, t, c, g, d)
  BY <1>1, Zenon DEF Walked
<1> QED
  BY <1>2, <1>3

\* What the properties and the operations look at.
LEMMA ListForm ==
    /\ \A l, k : L!Nth(l, k) = IF k <= listCount[l] \div 2 THEN Along(listNext, listHead[l], k - 1)
                              ELSE Along(listPrev, listTail[l], listCount[l] - k)
    /\ \A x, k : L!After(x, k) = Along(listNext, x, k)
    /\ \A x, k : L!Before(x, k) = Along(listPrev, x, k)
<1>1. \A x, k : L!After(x, k) = Along(listNext, x, k)
  BY DEF L!After, Along, IsAlong
<1>2. \A x, k : L!Before(x, k) = Along(listPrev, x, k)
  BY DEF L!Before, Along, IsAlong
<1> QED
  BY <1>1, <1>2 DEF L!Nth

ListLists == [l \in TheLists |-> [k \in 1 .. listCount[l] |-> L!Nth(l, k)]]

LEMMA ListListsForm ==
    /\ ListLists = Walked(listHead, listTail, listCount, listNext, listPrev)
    /\ ListLists' = Walked(listHead', listTail', listCount', listNext', listPrev')
<1>1. ListLists = Walked(listHead, listTail, listCount, listNext, listPrev)
  BY DEF ListLists, Walked, L!Nth, L!After, L!Before, Along, IsAlong
<1>2. ListLists' = Walked(listHead', listTail', listCount', listNext', listPrev')
  BY DEF ListLists, Walked, L!Nth, L!After, L!Before, Along, IsAlong
<1> QED
  BY <1>1, <1>2

\* What an operation leaves of the lists: those outside D keep their nodes and links.
LinksKept(S, h, t, c, g, d, D, S2, h2, t2, c2, g2, d2) ==
    \A m \in TheLists \ D :
        /\ S2[m] = S[m] /\ h2[m] = h[m] /\ t2[m] = t[m] /\ c2[m] = c[m]
        /\ \A k \in 1 .. Len(S[m]) : g2[S[m][k]] = g[S[m][k]] /\ d2[S[m][k]] = d[S[m][k]]

Typed(S, h, t, c, g, d, A) ==
    /\ S \in [TheLists -> Seq(ListNodes)]
    /\ h \in [TheLists -> ListNodes \cup {0}] /\ t \in [TheLists -> ListNodes \cup {0}]
    /\ c \in [TheLists -> Nat] /\ A \subseteq ListNodes
    /\ g \in [ListNodes -> ListNodes \cup {0}] /\ d \in [ListNodes -> ListNodes \cup {0}]

Changes(S, h, t, c, g, d, A, D, S2, h2, t2, c2, g2, d2, A2) ==
    /\ Chained(S, h, t, c, g, d, A) /\ Typed(S2, h2, t2, c2, g2, d2, A2) /\ Single(S2)
    /\ \A l \in D : Chain(S2[l], h2[l], t2[l], c2[l], g2, d2)
    /\ \A l \in TheLists : \A k \in 1 .. Len(S2[l]) : S2[l][k] \in A2
    /\ LinksKept(S, h, t, c, g, d, D, S2, h2, t2, c2, g2, d2)

LEMMA ChainKept ==
    ASSUME NEW s, NEW h, NEW t, NEW c, NEW g, NEW d, NEW g2, NEW d2, Chain(s, h, t, c, g, d),
           \A k \in 1 .. Len(s) : g2[s[k]] = g[s[k]] /\ d2[s[k]] = d[s[k]]
    PROVE  Chain(s, h, t, c, g2, d2)
<1>1. s \in Seq(ListNodes) /\ Len(s) \in Nat
  BY DEF Chain
<1>2. Linked(s, g2)
  BY <1>1 DEF Chain, Linked
<1>3. ASSUME NEW k \in 1 .. Len(s) - 1 PROVE d2[s[k + 1]] = s[k]
  <2>1. k + 1 \in 1 .. Len(s)
    BY <1>1
  <2> QED
    BY <2>1 DEF Chain, BackLinked
<1>4. s # << >> => 1 \in 1 .. Len(s) /\ Len(s) \in 1 .. Len(s)
  BY <1>1
<1> QED
  BY <1>2, <1>3, <1>4 DEF Chain, BackLinked

LEMMA ChangedLists ==
    ASSUME NEW S, NEW h, NEW t, NEW c, NEW g, NEW d, NEW A, NEW D,
           NEW S2, NEW h2, NEW t2, NEW c2, NEW g2, NEW d2, NEW A2,
           Changes(S, h, t, c, g, d, A, D, S2, h2, t2, c2, g2, d2, A2)
    PROVE  Chained(S2, h2, t2, c2, g2, d2, A2)
<1>1. ASSUME NEW m \in TheLists, m \notin D
      PROVE  Chain(S2[m], h2[m], t2[m], c2[m], g2, d2)
  <2>1. Chain(S[m], h[m], t[m], c[m], g, d)
    BY DEF Changes, Chained
  <2>2. \A k \in 1 .. Len(S[m]) : g2[S[m][k]] = g[S[m][k]] /\ d2[S[m][k]] = d[S[m][k]]
    BY <1>1 DEF Changes, LinksKept
  <2>3. Chain(S[m], h[m], t[m], c[m], g2, d2)
    BY <2>1, <2>2, ChainKept
  <2> QED
    BY <1>1, <2>3 DEF Changes, LinksKept
<1>2. \A m \in TheLists : Chain(S2[m], h2[m], t2[m], c2[m], g2, d2)
  BY <1>1 DEF Changes
<1> QED
  BY <1>2 DEF Changes, Chained, Typed

\* A new node.
Adds(S, h, t, c, g, d, A, l, x) ==
    /\ Chained(S, h, t, c, g, d, A) /\ ListAddresses /\ l \in TheLists
    /\ x \in ListNodes \ A

LEMMA AddedTail ==
    ASSUME NEW S, NEW h, NEW t, NEW c, NEW g, NEW d, NEW A, NEW l, NEW x,
           Adds(S, h, t, c, g, d, A, l, x)
    PROVE  Chained([S EXCEPT ![l] = Append(@, x)], [h EXCEPT ![l] = IF t[l] = 0 THEN x ELSE @],
                   [t EXCEPT ![l] = x], [c EXCEPT ![l] = @ + 1],
                   [y \in ListNodes |-> IF y = x THEN 0 ELSE IF y = t[l] THEN x ELSE g[y]],
                   [d EXCEPT ![x] = t[l]], A \cup {x})
<1> DEFINE s == S[l]
           S2 == [S EXCEPT ![l] = Append(@, x)]
           h2 == [h EXCEPT ![l] = IF t[l] = 0 THEN x ELSE @]
           t2 == [t EXCEPT ![l] = x]
           c2 == [c EXCEPT ![l] = @ + 1]
           g2 == [y \in ListNodes |-> IF y = x THEN 0 ELSE IF y = t[l] THEN x ELSE g[y]]
           d2 == [d EXCEPT ![x] = t[l]]
<1>1. Chained(S, h, t, c, g, d, A) /\ ListAddresses /\ l \in TheLists
      /\ x \in ListNodes /\ x \notin A
  BY DEF Adds
<1>2. Chain(s, h[l], t[l], c[l], g, d) /\ Single(S) /\ S \in [TheLists -> Seq(ListNodes)]
  BY <1>1 DEF Chained
<1>3. s \in Seq(ListNodes) /\ Len(s) \in Nat /\ c[l] = Len(s)
  BY <1>1, <1>2 DEF Chain
<1>4. \A m \in TheLists : \A k \in 1 .. Len(S[m]) : S[m][k] # x /\ S[m][k] \in ListNodes
  BY <1>1, <1>2 DEF Chained
<1>5. \A k \in 1 .. Len(s), j \in 1 .. Len(s) : s[k] = s[j] => k = j
  BY <1>1, <1>2 DEF Single
<1>6. /\ Len(Append(s, x)) = Len(s) + 1 /\ Append(s, x)[Len(s) + 1] = x
      /\ \A k \in 1 .. Len(s) : Append(s, x)[k] = s[k]
      /\ Append(s, x) \in Seq(ListNodes) /\ Append(s, x) # << >>
  BY <1>1, <1>3
<1>7. Typed(S2, h2, t2, c2, g2, d2, A \cup {x})
  BY <1>1, <1>6 DEF Chained, Typed
<1>8. \A m \in TheLists : m # l => S2[m] = S[m]
  BY <1>2
<1>9. S2[l] = Append(s, x) /\ h2[l] = (IF t[l] = 0 THEN x ELSE h[l]) /\ t2[l] = x /\ c2[l] = Len(s) + 1
  BY <1>1, <1>2, <1>3 DEF Chained
<1>10. Single(S2)
  <2>1. ASSUME NEW m \in TheLists, NEW q \in TheLists, NEW k \in 1 .. Len(S2[m]),
               NEW j \in 1 .. Len(S2[q]), S2[m][k] = S2[q][j]
        PROVE  m = q /\ k = j
    <3>1. (k \in 1 .. Len(S[m]) /\ S2[m][k] = S[m][k])
          \/ (m = l /\ k = Len(s) + 1 /\ S2[m][k] = x)
      BY <1>3, <1>6, <1>8, <1>9
    <3>2. (j \in 1 .. Len(S[q]) /\ S2[q][j] = S[q][j])
          \/ (q = l /\ j = Len(s) + 1 /\ S2[q][j] = x)
      BY <1>3, <1>6, <1>8, <1>9
    <3> QED
      BY <2>1, <3>1, <3>2, <1>2, <1>4 DEF Single
  <2> QED
    BY <2>1 DEF Single
<1>11. \A m \in TheLists : \A k \in 1 .. Len(S2[m]) : S2[m][k] \in A \cup {x}
  <2>1. ASSUME NEW m \in TheLists, NEW k \in 1 .. Len(S2[m]) PROVE S2[m][k] \in A \cup {x}
    <3>1. (k \in 1 .. Len(S[m]) /\ S2[m][k] = S[m][k]) \/ S2[m][k] = x
      BY <1>3, <1>6, <1>8, <1>9
    <3> QED
      BY <3>1, <1>1 DEF Chained
  <2> QED
    BY <2>1
<1>12. t[l] = IF s = << >> THEN 0 ELSE s[Len(s)]
  BY <1>2 DEF Chain
<1>13. LinksKept(S, h, t, c, g, d, {l}, S2, h2, t2, c2, g2, d2)
  <2>1. ASSUME NEW m \in TheLists, m # l, NEW k \in 1 .. Len(S[m])
        PROVE  g2[S[m][k]] = g[S[m][k]] /\ d2[S[m][k]] = d[S[m][k]]
    <3>1. S[m][k] # t[l]
      <4>1. s # << >> => Len(s) \in 1 .. Len(s)
        BY <1>3
      <4> QED
        BY <4>1, <2>1, <1>1, <1>2, <1>4, <1>12 DEF Single, ListAddresses
    <3> QED
      BY <3>1, <2>1, <1>4, <1>1 DEF Chained
  <2> QED
    BY <2>1, <1>8, <1>1 DEF LinksKept, Chained
<1>14. Chain(S2[l], h2[l], t2[l], c2[l], g2, d2)
  <2>1. g2[x] = 0 /\ d2[x] = t[l]
    BY <1>1 DEF Chained
  <2>2. \A k \in 1 .. Len(s) : g2[s[k]] = IF s[k] = t[l] THEN x ELSE g[s[k]]
    BY <1>1, <1>4
  <2>3. \A k \in 1 .. Len(s) : d2[s[k]] = d[s[k]]
    BY <1>1, <1>4 DEF Chained
  <2>4. CASE s = << >>
    <3>1. Len(s) = 0
      BY <2>4
    <3>2. h2[l] = x /\ t[l] = 0
      BY <2>4, <1>9, <1>12
    <3> QED
      BY <3>1, <3>2, <2>1, <1>6, <1>9 DEF Chain, Linked, BackLinked
  <2>5. CASE s # << >>
    <3>1. Len(s) \in 1 .. Len(s) /\ 1 \in 1 .. Len(s)
      BY <2>5, <1>3
    <3>2. t[l] = s[Len(s)] /\ t[l] # 0 /\ h2[l] = s[1] /\ d[s[1]] = 0
      BY <1>1, <1>2, <1>4, <1>9, <1>12, <2>5, <3>1 DEF Chain, ListAddresses
    <3>3. Linked(S2[l], g2)
      <4>1. ASSUME NEW k \in 1 .. Len(s) PROVE g2[Append(s, x)[k]] = Append(s, x)[k + 1]
        <5>1. CASE k = Len(s)
          BY <5>1, <1>6, <2>2, <3>2
        <5>2. CASE k # Len(s)
          <6>1. k + 1 \in 1 .. Len(s) /\ k \in 1 .. Len(s) - 1
            BY <5>2, <1>3
          <6>2. g[s[k]] = s[k + 1]
            BY <6>1, <1>2 DEF Chain, Linked
          <6>3. s[k] # t[l]
            BY <5>2, <3>1, <3>2, <1>5
          <6> QED
            BY <6>1, <6>2, <6>3, <2>2, <1>6
        <5> QED
          BY <5>1, <5>2
      <4>2. Len(S2[l]) - 1 = Len(s)
        BY <1>6, <1>9, <1>3
      <4> QED
        BY <4>1, <4>2, <1>9 DEF Linked
    <3>4. BackLinked(S2[l], d2)
      <4>1. ASSUME NEW k \in 1 .. Len(s) PROVE d2[Append(s, x)[k + 1]] = Append(s, x)[k]
        <5>1. CASE k = Len(s)
          BY <5>1, <1>6, <2>1, <3>2
        <5>2. CASE k # Len(s)
          <6>1. k + 1 \in 1 .. Len(s) /\ k \in 1 .. Len(s) - 1
            BY <5>2, <1>3
          <6>2. d[s[k + 1]] = s[k]
            BY <6>1, <1>2 DEF Chain, BackLinked
          <6> QED
            BY <6>1, <6>2, <2>3, <1>6
        <5> QED
          BY <5>1, <5>2
      <4>2. Len(S2[l]) - 1 = Len(s)
        BY <1>6, <1>9, <1>3
      <4> QED
        BY <4>1, <4>2, <1>9 DEF BackLinked
    <3>5. d2[h2[l]] = 0 /\ h2[l] = Append(s, x)[1]
      BY <3>1, <3>2, <2>3, <1>6
    <3> QED
      BY <3>3, <3>4, <3>5, <2>1, <1>6, <1>9 DEF Chain
  <2> QED
    BY <2>4, <2>5
<1> HIDE DEF S2, h2, t2, c2, g2, d2
<1>15. Changes(S, h, t, c, g, d, A, {l}, S2, h2, t2, c2, g2, d2, A \cup {x})
  BY <1>1, <1>7, <1>10, <1>11, <1>13, <1>14 DEF Changes
<1>16. Chained(S2, h2, t2, c2, g2, d2, A \cup {x})
  BY <1>15, ChangedLists
<1> QED
  BY <1>16 DEF S2, h2, t2, c2, g2, d2

LEMMA AddedHead ==
    ASSUME NEW S, NEW h, NEW t, NEW c, NEW g, NEW d, NEW A, NEW l, NEW x,
           Adds(S, h, t, c, g, d, A, l, x)
    PROVE  Chained([S EXCEPT ![l] = <<x>> \o @], [h EXCEPT ![l] = x],
                   [t EXCEPT ![l] = IF h[l] = 0 THEN x ELSE @], [c EXCEPT ![l] = @ + 1],
                   [g EXCEPT ![x] = h[l]],
                   [y \in ListNodes |-> IF y = x THEN 0 ELSE IF y = h[l] THEN x ELSE d[y]],
                   A \cup {x})
<1> DEFINE s == S[l]
           a == <<x>> \o s
           S2 == [S EXCEPT ![l] = <<x>> \o @]
           h2 == [h EXCEPT ![l] = x]
           t2 == [t EXCEPT ![l] = IF h[l] = 0 THEN x ELSE @]
           c2 == [c EXCEPT ![l] = @ + 1]
           g2 == [g EXCEPT ![x] = h[l]]
           d2 == [y \in ListNodes |-> IF y = x THEN 0 ELSE IF y = h[l] THEN x ELSE d[y]]
<1>1. Chained(S, h, t, c, g, d, A) /\ ListAddresses /\ l \in TheLists
      /\ x \in ListNodes /\ x \notin A
  BY DEF Adds
<1>2. Chain(s, h[l], t[l], c[l], g, d) /\ Single(S) /\ S \in [TheLists -> Seq(ListNodes)]
  BY <1>1 DEF Chained
<1>3. s \in Seq(ListNodes) /\ Len(s) \in Nat /\ c[l] = Len(s)
  BY <1>1, <1>2 DEF Chain
<1>4. \A m \in TheLists : \A k \in 1 .. Len(S[m]) : S[m][k] # x /\ S[m][k] \in ListNodes
  BY <1>1, <1>2 DEF Chained
<1>5. \A k \in 1 .. Len(s), j \in 1 .. Len(s) : s[k] = s[j] => k = j
  BY <1>1, <1>2 DEF Single
<1>6. /\ Len(a) = Len(s) + 1 /\ a[1] = x
      /\ \A k \in 1 .. Len(s) : a[k + 1] = s[k]
      /\ \A k \in 2 .. Len(s) + 1 : a[k] = s[k - 1]
      /\ a \in Seq(ListNodes) /\ a # << >>
  <2>1. <<x>> \in Seq(ListNodes) /\ Len(<<x>>) = 1 /\ <<x>>[1] = x
    BY <1>1
  <2>2. a \in Seq(ListNodes) /\ Len(a) = Len(s) + 1
    BY <1>3, <2>1, ConcatProperties
  <2>3. \A k \in 1 .. 1 + Len(s) : a[k] = IF k <= 1 THEN <<x>>[k] ELSE s[k - 1]
    BY <1>3, <2>1, ConcatProperties
  <2>4. a[1] = x
    BY <1>3, <2>1, <2>3
  <2>5. ASSUME NEW k \in 1 .. Len(s) PROVE a[k + 1] = s[k]
    <3>1. k + 1 \in 1 .. 1 + Len(s) /\ ~(k + 1 <= 1) /\ (k + 1) - 1 = k
      BY <1>3
    <3> QED
      BY <3>1, <2>3
  <2>6. ASSUME NEW k \in 2 .. Len(s) + 1 PROVE a[k] = s[k - 1]
    <3>1. k \in 1 .. 1 + Len(s) /\ ~(k <= 1)
      BY <1>3
    <3> QED
      BY <3>1, <2>3
  <2>7. a # << >>
    BY <2>2, <1>3
  <2> HIDE DEF a
  <2> QED
    BY <2>2, <2>4, <2>5, <2>6, <2>7
<1>7. Typed(S2, h2, t2, c2, g2, d2, A \cup {x})
  BY <1>1, <1>6 DEF Chained, Typed
<1>8. \A m \in TheLists : m # l => S2[m] = S[m]
  BY <1>2
<1>9. S2[l] = a /\ h2[l] = x /\ t2[l] = (IF h[l] = 0 THEN x ELSE t[l]) /\ c2[l] = Len(s) + 1
  BY <1>1, <1>2, <1>3 DEF Chained
<1> HIDE DEF a
<1>10. Single(S2)
  <2>1. ASSUME NEW m \in TheLists, NEW q \in TheLists, NEW k \in 1 .. Len(S2[m]),
               NEW j \in 1 .. Len(S2[q]), S2[m][k] = S2[q][j]
        PROVE  m = q /\ k = j
    <3>1. \/ m # l /\ k \in 1 .. Len(S[m]) /\ S2[m][k] = S[m][k]
          \/ m = l /\ k - 1 \in 1 .. Len(S[m]) /\ S2[m][k] = S[m][k - 1]
          \/ m = l /\ k = 1 /\ S2[m][k] = x
      BY <1>3, <1>6, <1>8, <1>9
    <3>2. \/ q # l /\ j \in 1 .. Len(S[q]) /\ S2[q][j] = S[q][j]
          \/ q = l /\ j - 1 \in 1 .. Len(S[q]) /\ S2[q][j] = S[q][j - 1]
          \/ q = l /\ j = 1 /\ S2[q][j] = x
      BY <1>3, <1>6, <1>8, <1>9
    <3>3. m = l /\ q = l /\ k - 1 = j - 1 => k = j
      <4>1. m = l /\ q = l => k \in Nat /\ j \in Nat
        BY <1>3, <1>6, <1>9
      <4> QED
        BY <4>1
    <3> QED
      BY <2>1, <3>1, <3>2, <3>3, <1>2, <1>4 DEF Single
  <2> QED
    BY <2>1 DEF Single
<1>11. \A m \in TheLists : \A k \in 1 .. Len(S2[m]) : S2[m][k] \in A \cup {x}
  <2>1. ASSUME NEW m \in TheLists, NEW k \in 1 .. Len(S2[m]) PROVE S2[m][k] \in A \cup {x}
    <3>1. \/ k \in 1 .. Len(S[m]) /\ S2[m][k] = S[m][k]
          \/ k - 1 \in 1 .. Len(S[m]) /\ S2[m][k] = S[m][k - 1]
          \/ S2[m][k] = x
      BY <1>3, <1>6, <1>8, <1>9
    <3> QED
      BY <3>1, <1>1 DEF Chained
  <2> QED
    BY <2>1
<1>12. h[l] = IF s = << >> THEN 0 ELSE s[1]
  BY <1>2 DEF Chain
<1>13. LinksKept(S, h, t, c, g, d, {l}, S2, h2, t2, c2, g2, d2)
  <2>1. ASSUME NEW m \in TheLists, m # l, NEW k \in 1 .. Len(S[m])
        PROVE  g2[S[m][k]] = g[S[m][k]] /\ d2[S[m][k]] = d[S[m][k]]
    <3>1. S[m][k] # h[l]
      <4>1. s # << >> => 1 \in 1 .. Len(s)
        BY <1>3
      <4> QED
        BY <4>1, <2>1, <1>1, <1>2, <1>4, <1>12 DEF Single, ListAddresses
    <3> QED
      BY <3>1, <2>1, <1>4, <1>1 DEF Chained
  <2> QED
    BY <2>1, <1>8, <1>1 DEF LinksKept, Chained
<1>14. Chain(S2[l], h2[l], t2[l], c2[l], g2, d2)
  <2>1. d2[x] = 0 /\ g2[x] = h[l]
    BY <1>1 DEF Chained
  <2>2. \A k \in 1 .. Len(s) : d2[s[k]] = IF s[k] = h[l] THEN x ELSE d[s[k]]
    BY <1>1, <1>4
  <2>3. \A k \in 1 .. Len(s) : g2[s[k]] = g[s[k]]
    BY <1>1, <1>4 DEF Chained
  <2>4. CASE s = << >>
    <3>1. Len(s) = 0
      BY <2>4
    <3>2. t2[l] = x /\ h[l] = 0
      BY <2>4, <1>9, <1>12
    <3>3. Len(a) = 1 /\ c2[l] = 1 /\ a[1] = x
      BY <3>1, <1>6, <1>9
    <3>4. Linked(a, g2) /\ BackLinked(a, d2)
      BY <3>3 DEF Linked, BackLinked
    <3> QED
      BY <3>2, <3>3, <3>4, <2>1, <1>6, <1>9 DEF Chain
  <2>5. CASE s # << >>
    <3>1. Len(s) \in 1 .. Len(s) /\ 1 \in 1 .. Len(s)
      BY <2>5, <1>3
    <3>2. h[l] = s[1] /\ h[l] # 0 /\ t2[l] = s[Len(s)] /\ g[s[Len(s)]] = 0
      BY <1>1, <1>2, <1>4, <1>9, <1>12, <2>5, <3>1 DEF Chain, ListAddresses
    <3>3. Linked(S2[l], g2)
      <4>1. ASSUME NEW k \in 1 .. Len(s) PROVE g2[a[k]] = a[k + 1]
        <5>1. CASE k = 1
          BY <5>1, <1>6, <2>1, <3>1, <3>2
        <5>2. CASE k # 1
          <6> DEFINE b == k - 1
          <6>1. b \in 1 .. Len(s) /\ b \in 1 .. Len(s) - 1 /\ b + 1 = k /\ k \in 2 .. Len(s) + 1
            BY <5>2, <1>3
          <6>2. a[k] = s[b]
            BY <6>1, <1>6
          <6> HIDE DEF b
          <6>3. g[s[b]] = s[k]
            BY <6>1, <1>2 DEF Chain, Linked
          <6> QED
            BY <6>1, <6>2, <6>3, <2>3, <1>6
        <5> QED
          BY <5>1, <5>2
      <4>2. Len(S2[l]) - 1 = Len(s)
        BY <1>6, <1>9, <1>3
      <4> QED
        BY <4>1, <4>2, <1>9 DEF Linked
    <3>4. BackLinked(S2[l], d2)
      <4>1. ASSUME NEW k \in 1 .. Len(s) PROVE d2[a[k + 1]] = a[k]
        <5>1. CASE k = 1
          BY <5>1, <1>6, <2>2, <3>1, <3>2
        <5>2. CASE k # 1
          <6> DEFINE b == k - 1
          <6>1. b \in 1 .. Len(s) /\ b \in 1 .. Len(s) - 1 /\ b + 1 = k /\ k \in 2 .. Len(s) + 1
            BY <5>2, <1>3
          <6>2. a[k] = s[b]
            BY <6>1, <1>6
          <6> HIDE DEF b
          <6>3. d[s[k]] = s[b]
            BY <6>1, <1>2 DEF Chain, BackLinked
          <6>4. s[k] # h[l]
            BY <5>2, <3>1, <3>2, <1>5
          <6> QED
            BY <6>2, <6>3, <6>4, <2>2, <1>6
        <5> QED
          BY <5>1, <5>2
      <4>2. Len(S2[l]) - 1 = Len(s)
        BY <1>6, <1>9, <1>3
      <4> QED
        BY <4>1, <4>2, <1>9 DEF BackLinked
    <3>5. g2[t2[l]] = 0 /\ t2[l] = a[Len(s) + 1]
      BY <3>1, <3>2, <2>3, <1>6
    <3> QED
      BY <3>3, <3>4, <3>5, <2>1, <1>6, <1>9 DEF Chain
  <2> QED
    BY <2>4, <2>5
<1> HIDE DEF S2, h2, t2, c2, g2, d2
<1>15. Changes(S, h, t, c, g, d, A, {l}, S2, h2, t2, c2, g2, d2, A \cup {x})
  BY <1>1, <1>7, <1>10, <1>11, <1>13, <1>14 DEF Changes
<1>16. Chained(S2, h2, t2, c2, g2, d2, A \cup {x})
  BY <1>15, ChangedLists
<1> QED
  BY <1>16 DEF S2, h2, t2, c2, g2, d2

Without(s, p) == SubSeq(s, 1, p - 1) \o SubSeq(s, p + 1, Len(s))

LEMMA WithoutIs ==
    ASSUME NEW T, NEW s \in Seq(T), NEW p \in 1 .. Len(s)
    PROVE  /\ Without(s, p) \in Seq(T) /\ Len(Without(s, p)) = Len(s) - 1
           /\ \A k \in 1 .. Len(s) - 1 : Without(s, p)[k] = IF k < p THEN s[k] ELSE s[k + 1]
<1> DEFINE a == SubSeq(s, 1, p - 1)
           b == SubSeq(s, p + 1, Len(s))
<1>1. p \in Nat /\ Len(s) \in Nat /\ p >= 1 /\ p <= Len(s)
  OBVIOUS
<1>2. a \in Seq(T) /\ Len(a) = p - 1 /\ \A k \in 1 .. p - 1 : a[k] = s[k]
  <2>1. 1 \in 1 .. Len(s) + 1 /\ p - 1 \in 1 - 1 .. Len(s)
    BY <1>1
  <2>2. a \in Seq(T) /\ Len(a) = (IF 1 <= p - 1 THEN (p - 1) - 1 + 1 ELSE 0)
        /\ \A k \in 1 .. (p - 1) - 1 + 1 : a[k] = s[1 + k - 1]
    BY <1>1, <2>1, SubSeqProperties
  <2>n. Len(a) = (IF 1 <= p - 1 THEN (p - 1) - 1 + 1 ELSE 0)
    BY <2>2
  <2>3. Len(a) = p - 1
    <3>1. (IF 1 <= p - 1 THEN (p - 1) - 1 + 1 ELSE 0) = p - 1
      BY <1>1
    <3> HIDE DEF a
    <3> QED
      BY <2>n, <3>1
  <2>4. ASSUME NEW k \in 1 .. p - 1 PROVE a[k] = s[k]
    <3>1. k \in 1 .. (p - 1) - 1 + 1 /\ 1 + k - 1 = k
      BY <1>1
    <3> QED
      BY <2>2, <3>1
  <2> QED
    BY <2>2, <2>3, <2>4
<1>3. b \in Seq(T) /\ Len(b) = Len(s) - p /\ \A k \in 1 .. Len(s) - p : b[k] = s[p + k]
  <2>1. p + 1 \in 1 .. Len(s) + 1 /\ Len(s) \in (p + 1) - 1 .. Len(s)
    BY <1>1
  <2>2. b \in Seq(T) /\ Len(b) = (IF p + 1 <= Len(s) THEN Len(s) - (p + 1) + 1 ELSE 0)
        /\ \A k \in 1 .. Len(s) - (p + 1) + 1 : b[k] = s[(p + 1) + k - 1]
    BY <1>1, <2>1, SubSeqProperties
  <2>n. Len(b) = (IF p + 1 <= Len(s) THEN Len(s) - (p + 1) + 1 ELSE 0)
    BY <2>2
  <2>3. Len(b) = Len(s) - p
    <3>1. PICK size \in Nat : size = Len(s)
      BY <1>1
    <3>2. (IF p + 1 <= size THEN size - (p + 1) + 1 ELSE 0) = size - p
      BY <1>1, <3>1
    <3> HIDE DEF b
    <3> QED
      BY <2>n, <3>1, <3>2
  <2>4. ASSUME NEW k \in 1 .. Len(s) - p PROVE b[k] = s[p + k]
    <3>1. k \in 1 .. Len(s) - (p + 1) + 1 /\ (p + 1) + k - 1 = p + k
      BY <1>1
    <3> QED
      BY <2>2, <3>1
  <2> QED
    BY <2>2, <2>3, <2>4
<1> HIDE DEF a, b
<1>4. a \o b \in Seq(T) /\ Len(a \o b) = Len(a) + Len(b)
      /\ \A k \in 1 .. Len(a) + Len(b) : (a \o b)[k] = IF k <= Len(a) THEN a[k] ELSE b[k - Len(a)]
  BY <1>2, <1>3, ConcatProperties
<1>5. ASSUME NEW k \in 1 .. Len(s) - 1
      PROVE  (a \o b)[k] = IF k < p THEN s[k] ELSE s[k + 1]
  <2>1. k \in 1 .. Len(a) + Len(b) /\ (k < p <=> k <= Len(a))
    BY <1>1, <1>2, <1>3
  <2>2. CASE k < p
    BY <2>1, <2>2, <1>1, <1>2, <1>4
  <2>3. CASE ~(k < p)
    <3>1. k - Len(a) \in 1 .. Len(s) - p /\ p + (k - Len(a)) = k + 1
      BY <2>3, <1>1, <1>2
    <3>2. b[k - Len(a)] = s[p + (k - Len(a))]
      BY <3>1, <1>3
    <3> QED
      BY <3>1, <3>2, <2>1, <2>3, <1>4
  <2> QED
    BY <2>2, <2>3
<1>6. Without(s, p) = a \o b
  BY DEF Without, a, b
<1>7. Len(a \o b) = Len(s) - 1
  BY <1>1, <1>2, <1>3, <1>4
<1> QED
  BY <1>4, <1>5, <1>6, <1>7

\* The node at place p of a list is removed.
Deletes(S, h, t, c, g, d, A, l, p, h2, t2, c2, g2, d2, A2) ==
    /\ Chained(S, h, t, c, g, d, A) /\ ListAddresses /\ l \in TheLists /\ p \in 1 .. Len(S[l])
    /\ LET x     == S[l][p]
           only  == c[l] = 1
           first == ~only /\ h[l] = x
           last  == ~only /\ ~first /\ t[l] = x
           inner == ~only /\ ~first /\ ~last
       IN /\ h2 = [h EXCEPT ![l] = IF only THEN 0 ELSE IF first THEN g[x] ELSE @]
          /\ t2 = [t EXCEPT ![l] = IF only THEN 0 ELSE IF last THEN d[x] ELSE @]
          /\ g2 = [y \in ListNodes |-> IF y = d[x] /\ (last \/ inner)
                                       THEN IF last THEN 0 ELSE g[x]
                                       ELSE IF y = x /\ inner THEN 0 ELSE g[y]]
          /\ d2 = [y \in ListNodes |-> IF y = g[x] /\ (first \/ inner)
                                       THEN IF first THEN 0 ELSE d[x]
                                       ELSE IF y = x /\ inner THEN 0 ELSE d[y]]
          /\ A2 = A \ {x}
    /\ c2 = [c EXCEPT ![l] = @ - 1]

\* What the four cases of lstDel have in common.
LEMMA DeletedForm ==
    ASSUME NEW S, NEW h, NEW t, NEW c, NEW g, NEW d, NEW A, NEW l, NEW p,
           NEW h2, NEW t2, NEW c2, NEW g2, NEW d2, NEW A2,
           Deletes(S, h, t, c, g, d, A, l, p, h2, t2, c2, g2, d2, A2)
    PROVE  /\ p > 1 => d[S[l][p]] = S[l][p - 1]
           /\ p = 1 => d[S[l][p]] = 0
           /\ p < Len(S[l]) => g[S[l][p]] = S[l][p + 1]
           /\ p = Len(S[l]) => g[S[l][p]] = 0
           /\ h2[l] = IF p = 1 THEN g[S[l][p]] ELSE h[l]
           /\ t2[l] = IF p = Len(S[l]) THEN d[S[l][p]] ELSE t[l]
           /\ \A y \in ListNodes \ {S[l][p]} :
                 /\ g2[y] = IF p > 1 /\ y = S[l][p - 1] THEN g[S[l][p]] ELSE g[y]
                 /\ d2[y] = IF p < Len(S[l]) /\ y = S[l][p + 1] THEN d[S[l][p]] ELSE d[y]
<1> DEFINE s == S[l]
           x == s[p]
           m == Len(s)
           only  == c[l] = 1
           first == ~only /\ h[l] = x
           last  == ~only /\ ~first /\ t[l] = x
           inner == ~only /\ ~first /\ ~last
<1>1. Chained(S, h, t, c, g, d, A) /\ ListAddresses /\ l \in TheLists /\ p \in 1 .. Len(S[l])
  BY DEF Deletes
<1>2. s \in Seq(ListNodes) /\ m \in Nat /\ c[l] = m /\ Linked(s, g) /\ BackLinked(s, d)
  BY <1>1 DEF Chained, Chain
<1>3. p \in Nat /\ p >= 1 /\ p <= m /\ m >= 1 /\ x \in ListNodes /\ 1 \in 1 .. m /\ m \in 1 .. m
  BY <1>1, <1>2
<1>4. h[l] = s[1] /\ t[l] = s[m] /\ d[s[1]] = 0 /\ g[s[m]] = 0
  <2>1. s # << >>
    BY <1>2, <1>3
  <2> QED
    BY <2>1, <1>1 DEF Chained, Chain
<1>5. \A k \in 1 .. m, j \in 1 .. m : s[k] = s[j] => k = j
  BY <1>1 DEF Chained, Single
<1>6. p > 1 => d[x] = s[p - 1]
  <2>1. p > 1 => p - 1 \in 1 .. m - 1 /\ (p - 1) + 1 = p
    BY <1>3
  <2> QED
    BY <2>1, <1>2 DEF BackLinked
<1>7. p < m => g[x] = s[p + 1]
  <2>1. p < m => p \in 1 .. m - 1
    BY <1>3
  <2> QED
    BY <2>1, <1>2 DEF Linked
<1>8. (p = 1 => d[x] = 0) /\ (p = m => g[x] = 0)
  BY <1>4
<1>9. (h[l] = x <=> p = 1) /\ (t[l] = x <=> p = m)
  BY <1>1, <1>3, <1>4, <1>5
<1>10. /\ only <=> m = 1
       /\ first <=> m # 1 /\ p = 1
       /\ last <=> m # 1 /\ p = m
       /\ inner <=> p # 1 /\ p # m
  <2> HIDE DEF x, s, m
  <2>1. only <=> m = 1
    BY <1>2
  <2> HIDE DEF only
  <2>2. first <=> m # 1 /\ p = 1
    BY <2>1, <1>9
  <2> HIDE DEF first
  <2>3. last <=> m # 1 /\ p = m
    BY <2>1, <2>2, <1>3, <1>9
  <2> HIDE DEF last
  <2>4. inner <=> p # 1 /\ p # m
    BY <2>1, <2>2, <2>3, <1>3
  <2> QED
    BY <2>1, <2>2, <2>3, <2>4
<1>11. /\ h2 = [h EXCEPT ![l] = IF only THEN 0 ELSE IF first THEN g[x] ELSE @]
       /\ t2 = [t EXCEPT ![l] = IF only THEN 0 ELSE IF last THEN d[x] ELSE @]
       /\ g2 = [y \in ListNodes |-> IF y = d[x] /\ (last \/ inner)
                                    THEN IF last THEN 0 ELSE g[x]
                                    ELSE IF y = x /\ inner THEN 0 ELSE g[y]]
       /\ d2 = [y \in ListNodes |-> IF y = g[x] /\ (first \/ inner)
                                    THEN IF first THEN 0 ELSE d[x]
                                    ELSE IF y = x /\ inner THEN 0 ELSE d[y]]
  BY Zenon DEF Deletes
<1> HIDE DEF s, x, m, only, first, last, inner
<1>12. h2[l] = (IF only THEN 0 ELSE IF first THEN g[x] ELSE h[l])
       /\ t2[l] = (IF only THEN 0 ELSE IF last THEN d[x] ELSE t[l])
  BY <1>1, <1>11 DEF Chained
<1>13. h2[l] = (IF p = 1 THEN g[x] ELSE h[l]) /\ t2[l] = (IF p = m THEN d[x] ELSE t[l])
  BY <1>3, <1>8, <1>10, <1>12
<1>14. ASSUME NEW y \in ListNodes \ {x}
       PROVE  /\ g2[y] = IF p > 1 /\ y = s[p - 1] THEN g[x] ELSE g[y]
              /\ d2[y] = IF p < m /\ y = s[p + 1] THEN d[x] ELSE d[y]
  <2>1. y # 0 /\ y # x
    BY <1>1 DEF ListAddresses
  <2>2. (y = d[x] <=> p > 1 /\ y = s[p - 1]) /\ (y = g[x] <=> p < m /\ y = s[p + 1])
    BY <2>1, <1>3, <1>6, <1>7, <1>8
  <2>3. g2[y] = IF y = d[x] /\ (last \/ inner) THEN IF last THEN 0 ELSE g[x] ELSE g[y]
    BY <2>1, <1>11
  <2>4. d2[y] = IF y = g[x] /\ (first \/ inner) THEN IF first THEN 0 ELSE d[x] ELSE d[y]
    BY <2>1, <1>11
  <2>5. p > 1 => (last \/ inner) /\ (last => g[x] = 0)
    BY <1>3, <1>8, <1>10
  <2>6. p < m => (first \/ inner) /\ (first => d[x] = 0)
    BY <1>3, <1>8, <1>10
  <2>7. g2[y] = IF p > 1 /\ y = s[p - 1] THEN g[x] ELSE g[y]
    BY <2>2, <2>3, <2>5
  <2>8. d2[y] = IF p < m /\ y = s[p + 1] THEN d[x] ELSE d[y]
    BY <2>2, <2>4, <2>6
  <2> QED
    BY <2>7, <2>8
<1> QED
  BY <1>6, <1>7, <1>8, <1>13, <1>14 DEF s, x, m

LEMMA DeletedNode ==
    ASSUME NEW S, NEW h, NEW t, NEW c, NEW g, NEW d, NEW A, NEW l, NEW p,
           NEW h2, NEW t2, NEW c2, NEW g2, NEW d2, NEW A2,
           Deletes(S, h, t, c, g, d, A, l, p, h2, t2, c2, g2, d2, A2)
    PROVE  Chained([S EXCEPT ![l] = Without(@, p)], h2, t2, c2, g2, d2, A2)
<1> DEFINE S2 == [S EXCEPT ![l] = Without(@, p)]
<1>1. Chained(S, h, t, c, g, d, A) /\ ListAddresses /\ l \in TheLists /\ p \in 1 .. Len(S[l])
  BY DEF Deletes
<1>2. PICK s, x, m, a : s = S[l] /\ x = s[p] /\ m = Len(s) /\ a = Without(s, p)
  OBVIOUS
<1>3. s \in Seq(ListNodes) /\ m \in Nat /\ c[l] = m /\ Linked(s, g) /\ BackLinked(s, d)
      /\ S \in [TheLists -> Seq(ListNodes)] /\ Single(S)
  BY <1>1, <1>2 DEF Chained, Chain
<1>4. p \in Nat /\ p >= 1 /\ p <= m /\ m >= 1 /\ x \in ListNodes /\ 1 \in 1 .. m /\ m \in 1 .. m
  BY <1>1, <1>2, <1>3
<1>5. h[l] = s[1] /\ t[l] = s[m] /\ d[s[1]] = 0 /\ g[s[m]] = 0
  <2>1. s # << >>
    BY <1>2, <1>3, <1>4
  <2> QED
    BY <2>1, <1>1, <1>2 DEF Chained, Chain
<1>6. \A k \in 1 .. m, j \in 1 .. m : s[k] = s[j] => k = j
  BY <1>1, <1>2 DEF Chained, Single
<1>7. /\ p > 1 => d[x] = s[p - 1]
      /\ p = 1 => d[x] = 0
      /\ p < m => g[x] = s[p + 1]
      /\ p = m => g[x] = 0
      /\ h2[l] = IF p = 1 THEN g[x] ELSE h[l]
      /\ t2[l] = IF p = m THEN d[x] ELSE t[l]
      /\ \A y \in ListNodes \ {x} :
            /\ g2[y] = IF p > 1 /\ y = s[p - 1] THEN g[x] ELSE g[y]
            /\ d2[y] = IF p < m /\ y = s[p + 1] THEN d[x] ELSE d[y]
  BY <1>2, DeletedForm
<1>8. a \in Seq(ListNodes) /\ Len(a) = m - 1
      /\ \A k \in 1 .. m - 1 : a[k] = IF k < p THEN s[k] ELSE s[k + 1]
  BY <1>1, <1>2, <1>3, WithoutIs
<1>9. S2[l] = a /\ \A q \in TheLists : q # l => S2[q] = S[q]
  BY <1>1, <1>2, <1>3
<1>10. A2 = A \ {x} /\ c2 = [c EXCEPT ![l] = @ - 1] /\ c2[l] = m - 1
       /\ (\A q \in TheLists : q # l => h2[q] = h[q] /\ t2[q] = t[q] /\ c2[q] = c[q])
  BY <1>1, <1>2, <1>3 DEF Deletes, Chained
<1>11. Typed(S2, h2, t2, c2, g2, d2, A2)
  <2>1. S2 \in [TheLists -> Seq(ListNodes)]
    BY <1>2, <1>3, <1>8
  <2>2. g[x] \in ListNodes \cup {0} /\ d[x] \in ListNodes \cup {0}
    BY <1>1, <1>4 DEF Chained
  <2>3. h2 \in [TheLists -> ListNodes \cup {0}] /\ t2 \in [TheLists -> ListNodes \cup {0}]
    BY <2>2, <1>1, <1>2 DEF Deletes, Chained
  <2>4. c2 \in [TheLists -> Nat]
    BY <1>1, <1>3, <1>4, <1>10 DEF Chained
  <2>5. g2 \in [ListNodes -> ListNodes \cup {0}]
    BY <2>2, <1>1, <1>2 DEF Deletes, Chained
  <2>6. d2 \in [ListNodes -> ListNodes \cup {0}]
    BY <2>2, <1>1, <1>2 DEF Deletes, Chained
  <2> QED
    BY <2>1, <2>3, <2>4, <2>5, <2>6, <1>1, <1>10 DEF Typed, Chained
<1>12. ASSUME NEW k \in 1 .. m - 1
       PROVE  \E b \in 1 .. m : b # p /\ a[k] = s[b] /\ b = IF k < p THEN k ELSE k + 1
  <2>1. CASE k < p
    <3>1. k \in 1 .. m /\ k # p /\ a[k] = s[k]
      BY <2>1, <1>3, <1>4, <1>8
    <3> QED
      BY <3>1, <2>1
  <2>2. CASE ~(k < p)
    <3>1. k + 1 \in 1 .. m /\ k + 1 # p /\ a[k] = s[k + 1]
      BY <2>2, <1>3, <1>4, <1>8
    <3> QED
      BY <3>1, <2>2
  <2> QED
    BY <2>1, <2>2
<1>13. Single(S2)
  <2>1. ASSUME NEW e \in TheLists, NEW q \in TheLists, NEW k \in 1 .. Len(S2[e]),
               NEW j \in 1 .. Len(S2[q]), S2[e][k] = S2[q][j]
        PROVE  e = q /\ k = j
    <3>1. \/ e # l /\ k \in 1 .. Len(S[e]) /\ S2[e][k] = S[e][k]
          \/ e = l /\ k \in 1 .. m - 1 /\ S2[e][k] = a[k]
      BY <1>8, <1>9
    <3>2. \/ q # l /\ j \in 1 .. Len(S[q]) /\ S2[q][j] = S[q][j]
          \/ q = l /\ j \in 1 .. m - 1 /\ S2[q][j] = a[j]
      BY <1>8, <1>9
    <3>3. CASE e # l /\ q # l
      BY <2>1, <3>1, <3>2, <3>3, <1>3 DEF Single
    <3>4. CASE e = l /\ q # l
      <4>1. PICK b \in 1 .. m : a[k] = s[b]
        BY <3>1, <3>4, <1>12
      <4> QED
        BY <4>1, <2>1, <3>1, <3>2, <3>4, <1>2, <1>3 DEF Single
    <3>5. CASE e # l /\ q = l
      <4>1. PICK b \in 1 .. m : a[j] = s[b]
        BY <3>2, <3>5, <1>12
      <4> QED
        BY <4>1, <2>1, <3>1, <3>2, <3>5, <1>2, <1>3 DEF Single
    <3>6. CASE e = l /\ q = l
      <4>1. PICK b \in 1 .. m : a[k] = s[b] /\ b = IF k < p THEN k ELSE k + 1
        BY <3>1, <3>6, <1>12
      <4>2. PICK u \in 1 .. m : a[j] = s[u] /\ u = IF j < p THEN j ELSE j + 1
        BY <3>2, <3>6, <1>12
      <4>3. b = u
        BY <4>1, <4>2, <2>1, <3>1, <3>2, <3>6, <1>6
      <4>4. k \in Nat /\ j \in Nat
        BY <3>1, <3>2, <3>6
      <4> QED
        BY <4>1, <4>2, <4>3, <4>4, <1>4, <3>6
    <3> QED
      BY <3>3, <3>4, <3>5, <3>6
  <2> QED
    BY <2>1 DEF Single
<1>14. \A e \in TheLists : \A k \in 1 .. Len(S2[e]) : S2[e][k] \in A2
  <2>1. ASSUME NEW e \in TheLists, NEW k \in 1 .. Len(S2[e]) PROVE S2[e][k] \in A \ {x}
    <3>1. CASE e # l
      <4>1. k \in 1 .. Len(S[e]) /\ S2[e][k] = S[e][k]
        BY <3>1, <1>9
      <4>2. S[e][k] # x
        BY <4>1, <3>1, <1>1, <1>2, <1>3 DEF Single
      <4> QED
        BY <4>1, <4>2, <1>1 DEF Chained
    <3>2. CASE e = l
      <4>3. k \in 1 .. m - 1 /\ S2[e][k] = a[k]
        BY <3>2, <1>8, <1>9
      <4>1. PICK b \in 1 .. m : b # p /\ S2[e][k] = s[b]
        BY <4>3, <1>12
      <4>2. s[b] # x
        BY <4>1, <1>1, <1>2, <1>6
      <4> QED
        BY <4>1, <4>2, <1>1, <1>2 DEF Chained
    <3> QED
      BY <3>1, <3>2
  <2> QED
    BY <2>1, <1>10
<1>15. LinksKept(S, h, t, c, g, d, {l}, S2, h2, t2, c2, g2, d2)
  <2>1. ASSUME NEW q \in TheLists, q # l, NEW k \in 1 .. Len(S[q])
        PROVE  g2[S[q][k]] = g[S[q][k]] /\ d2[S[q][k]] = d[S[q][k]]
    <3>1. \A b \in 1 .. m : S[q][k] # s[b]
      BY <2>1, <1>1, <1>2, <1>3 DEF Single
    <3>2. S[q][k] \in ListNodes
      BY <1>3
    <3>3. S[q][k] # x
      BY <3>1, <1>1, <1>2
    <3>4. (p > 1 => p - 1 \in 1 .. m) /\ (p < m => p + 1 \in 1 .. m)
      BY <1>3, <1>4
    <3> QED
      BY <3>1, <3>2, <3>3, <3>4, <1>7
  <2> QED
    BY <2>1, <1>9, <1>10 DEF LinksKept
<1>16. \A k \in 1 .. m : k # p => s[k] \in ListNodes \ {x}
  BY <1>1, <1>2, <1>3, <1>6
<1>17. Linked(a, g2)
  <2>1. ASSUME NEW k \in 1 .. m - 1 - 1 PROVE g2[a[k]] = a[k + 1]
    <3>1. k \in 1 .. m - 1 /\ k + 1 \in 1 .. m - 1 /\ k + 2 \in 1 .. m /\ k \in 1 .. m /\ k + 1 \in 1 .. m
      BY <1>3
    <3>2. CASE k + 1 < p
      <4>1. a[k] = s[k] /\ a[k + 1] = s[k + 1]
        BY <3>1, <3>2, <1>4, <1>8
      <4>2. k # p - 1 /\ k # p /\ (p > 1 => p - 1 \in 1 .. m)
        BY <3>1, <3>2, <1>4
      <4>3. g2[s[k]] = g[s[k]]
        BY <3>1, <4>2, <1>6, <1>7, <1>16
      <4> QED
        BY <3>1, <4>1, <4>3, <1>2, <1>3 DEF Linked
    <3>3. CASE k + 1 = p
      <4>1. a[k] = s[k] /\ a[k + 1] = s[p + 1]
        BY <3>1, <3>3, <1>4, <1>8
      <4>2. k = p - 1 /\ k # p /\ p > 1 /\ p < m
        BY <3>1, <3>3, <1>3, <1>4
      <4>3. g2[s[k]] = g[x]
        BY <3>1, <4>2, <1>7, <1>16
      <4> QED
        BY <4>1, <4>2, <4>3, <1>7
    <3>4. CASE p <= k
      <4>1. a[k] = s[k + 1] /\ a[k + 1] = s[(k + 1) + 1]
        BY <3>1, <3>4, <1>4, <1>8
      <4>2. k + 1 # p - 1 /\ k + 1 # p /\ (p > 1 => p - 1 \in 1 .. m)
        BY <3>1, <3>4, <1>4
      <4>3. g2[s[k + 1]] = g[s[k + 1]]
        BY <3>1, <4>2, <1>6, <1>7, <1>16
      <4> QED
        BY <3>1, <4>1, <4>3, <1>2, <1>3 DEF Linked
    <3> QED
      BY <3>1, <3>2, <3>3, <3>4, <1>4
  <2> QED
    BY <2>1, <1>8 DEF Linked
<1>18. BackLinked(a, d2)
  <2>1. ASSUME NEW k \in 1 .. m - 1 - 1 PROVE d2[a[k + 1]] = a[k]
    <3>1. k \in 1 .. m - 1 /\ k + 1 \in 1 .. m - 1 /\ k + 2 \in 1 .. m /\ k \in 1 .. m /\ k + 1 \in 1 .. m
      BY <1>3
    <3>2. CASE k + 1 < p
      <4>1. a[k] = s[k] /\ a[k + 1] = s[k + 1]
        BY <3>1, <3>2, <1>4, <1>8
      <4>2. k + 1 # p + 1 /\ k + 1 # p /\ (p < m => p + 1 \in 1 .. m)
        BY <3>1, <3>2, <1>3, <1>4
      <4>3. d2[s[k + 1]] = d[s[k + 1]]
        BY <3>1, <4>2, <1>6, <1>7, <1>16
      <4> QED
        BY <3>1, <4>1, <4>3, <1>2, <1>3 DEF BackLinked
    <3>3. CASE k + 1 = p
      <4>1. a[k] = s[p - 1] /\ a[k + 1] = s[p + 1]
        BY <3>1, <3>3, <1>4, <1>8
      <4>2. p + 1 # p /\ p < m /\ p + 1 \in 1 .. m /\ p > 1
        BY <3>1, <3>3, <1>3, <1>4
      <4>3. d2[s[p + 1]] = d[x]
        BY <4>2, <1>7, <1>16
      <4> QED
        BY <4>1, <4>2, <4>3, <1>7
    <3>4. CASE p <= k
      <4>1. a[k] = s[k + 1] /\ a[k + 1] = s[(k + 1) + 1] /\ (k + 1) + 1 \in 1 .. m
        BY <3>1, <3>4, <1>4, <1>8
      <4>2. (k + 1) + 1 # p + 1 /\ (k + 1) + 1 # p /\ (p < m => p + 1 \in 1 .. m)
        BY <3>1, <3>4, <1>3, <1>4
      <4>3. d2[s[(k + 1) + 1]] = d[s[(k + 1) + 1]]
        BY <4>1, <4>2, <1>6, <1>7, <1>16
      <4> QED
        BY <3>1, <4>1, <4>3, <1>2, <1>3 DEF BackLinked
    <3> QED
      BY <3>1, <3>2, <3>3, <3>4, <1>4
  <2> QED
    BY <2>1, <1>8 DEF BackLinked
<1>19. Chain(a, h2[l], t2[l], c2[l], g2, d2)
  <2>1. CASE m = 1
    <3>1. a = << >>
      BY <2>1, <1>8
    <3>2. h2[l] = 0 /\ t2[l] = 0
      BY <2>1, <1>4, <1>7
    <3> QED
      BY <3>1, <3>2, <1>8, <1>10, <1>17, <1>18 DEF Chain
  <2>2. CASE m # 1
    <3>1. m - 1 \in 1 .. m - 1 /\ 1 \in 1 .. m - 1 /\ 2 \in 1 .. m /\ m - 1 \in 1 .. m /\ a # << >>
      BY <2>2, <1>3, <1>4, <1>8
    <3>2. a[1] = (IF p = 1 THEN s[2] ELSE s[1]) /\ a[m - 1] = (IF p = m THEN s[m - 1] ELSE s[m])
      <4>1. 1 < p <=> p # 1
        BY <1>4
      <4>2. m - 1 < p <=> p = m
        BY <1>3, <1>4
      <4>3. (m - 1) + 1 = m /\ 1 + 1 = 2
        BY <1>3
      <4> QED
        BY <3>1, <4>1, <4>2, <4>3, <1>8
    <3>3. h2[l] = a[1]
      BY <2>2, <3>2, <1>3, <1>4, <1>5, <1>7
    <3>4. t2[l] = a[m - 1]
      BY <2>2, <3>2, <1>3, <1>4, <1>5, <1>7
    <3>5. d2[h2[l]] = 0
      <4>1. CASE p = 1
        <5>1. 2 # p /\ p < m /\ p + 1 = 2
          BY <4>1, <2>2, <1>3, <1>4
        <5> QED
          BY <4>1, <5>1, <3>1, <3>2, <3>3, <1>7, <1>16
      <4>2. CASE p # 1
        <5>1. p < m => p + 1 \in 1 .. m /\ p + 1 # 1
          BY <1>3, <1>4
        <5>2. d2[s[1]] = d[s[1]]
          BY <4>2, <5>1, <1>4, <1>6, <1>7, <1>16
        <5> QED
          BY <4>2, <5>2, <3>2, <3>3, <1>5
      <4> QED
        BY <4>1, <4>2
    <3>6. g2[t2[l]] = 0
      <4>1. CASE p = m
        <5>1. m - 1 # p /\ p > 1 /\ p - 1 = m - 1
          BY <4>1, <2>2, <1>3, <1>4
        <5> QED
          BY <4>1, <5>1, <3>1, <3>2, <3>4, <1>7, <1>16
      <4>2. CASE p # m
        <5>1. p > 1 => p - 1 \in 1 .. m /\ p - 1 # m
          BY <1>3, <1>4
        <5>2. g2[s[m]] = g[s[m]]
          BY <4>2, <5>1, <1>4, <1>6, <1>7, <1>16
        <5> QED
          BY <4>2, <5>2, <3>2, <3>4, <1>5
      <4> QED
        BY <4>1, <4>2
    <3> QED
      BY <3>1, <3>3, <3>4, <3>5, <3>6, <1>8, <1>10, <1>17, <1>18 DEF Chain
  <2> QED
    BY <2>1, <2>2
<1> HIDE DEF S2
<1>20. Changes(S, h, t, c, g, d, A, {l}, S2, h2, t2, c2, g2, d2, A2)
  BY <1>1, <1>9, <1>11, <1>13, <1>14, <1>15, <1>19 DEF Changes
<1>21. Chained(S2, h2, t2, c2, g2, d2, A2)
  BY <1>20, ChangedLists
<1> QED
  BY <1>21 DEF S2

LEMMA EmptyChain ==
    ASSUME NEW g, NEW d
    PROVE  Chain(<< >>, 0, 0, 0, g, d)
<1>1. << >> \in Seq(ListNodes) /\ Len(<< >>) = 0
  OBVIOUS
<1>2. Linked(<< >>, g) /\ BackLinked(<< >>, d)
  BY <1>1 DEF Linked, BackLinked
<1> QED
  BY <1>1, <1>2 DEF Chain

\* A list is freed.
Frees(S, h, t, c, g, d, A, l, A2) ==
    /\ Chained(S, h, t, c, g, d, A) /\ l \in TheLists
    /\ A2 = A \ {S[l][k] : k \in 1 .. Len(S[l])}

LEMMA FreedList ==
    ASSUME NEW S, NEW h, NEW t, NEW c, NEW g, NEW d, NEW A, NEW l, NEW A2,
           Frees(S, h, t, c, g, d, A, l, A2)
    PROVE  Chained([S EXCEPT ![l] = << >>], [h EXCEPT ![l] = 0], [t EXCEPT ![l] = 0],
                   [c EXCEPT ![l] = 0], g, d, A2)
<1> DEFINE S2 == [S EXCEPT ![l] = << >>]
           h2 == [h EXCEPT ![l] = 0]
           t2 == [t EXCEPT ![l] = 0]
           c2 == [c EXCEPT ![l] = 0]
<1>1. Chained(S, h, t, c, g, d, A) /\ l \in TheLists /\ S \in [TheLists -> Seq(ListNodes)]
      /\ Single(S) /\ A2 = A \ {S[l][k] : k \in 1 .. Len(S[l])}
  BY DEF Frees, Chained
<1>2. S2[l] = << >> /\ h2[l] = 0 /\ t2[l] = 0 /\ c2[l] = 0
  BY <1>1 DEF Chained
<1>3. \A m \in TheLists : m # l => S2[m] = S[m] /\ h2[m] = h[m] /\ t2[m] = t[m] /\ c2[m] = c[m]
  BY <1>1 DEF Chained
<1>4. << >> \in Seq(ListNodes) /\ Len(<< >>) = 0
  OBVIOUS
<1>5. Typed(S2, h2, t2, c2, g, d, A2)
  BY <1>1, <1>4 DEF Chained, Typed
<1>6. \A m \in TheLists : \A k \in 1 .. Len(S2[m]) :
         m # l /\ k \in 1 .. Len(S[m]) /\ S2[m][k] = S[m][k]
  BY <1>2, <1>3, <1>4
<1>7. Single(S2)
  BY <1>1, <1>6 DEF Single
<1>8. \A m \in TheLists : \A k \in 1 .. Len(S2[m]) : S2[m][k] \in A2
  <2>1. ASSUME NEW m \in TheLists, NEW k \in 1 .. Len(S2[m]) PROVE S2[m][k] \in A2
    <3>1. m # l /\ k \in 1 .. Len(S[m]) /\ S2[m][k] = S[m][k]
      BY <1>6
    <3>2. \A j \in 1 .. Len(S[l]) : S[m][k] # S[l][j]
      BY <3>1, <1>1 DEF Single
    <3> QED
      BY <3>1, <3>2, <1>1 DEF Chained
  <2> QED
    BY <2>1
<1>9. Chain(S2[l], h2[l], t2[l], c2[l], g, d)
  BY <1>2, EmptyChain
<1>10. LinksKept(S, h, t, c, g, d, {l}, S2, h2, t2, c2, g, d)
  BY <1>3 DEF LinksKept
<1> HIDE DEF S2, h2, t2, c2
<1>11. Changes(S, h, t, c, g, d, A, {l}, S2, h2, t2, c2, g, d, A2)
  BY <1>1, <1>5, <1>7, <1>8, <1>9, <1>10 DEF Changes
<1>12. Chained(S2, h2, t2, c2, g, d, A2)
  BY <1>11, ChangedLists
<1> QED
  BY <1>12 DEF S2, h2, t2, c2

\* A stretch of a list is appended to another, and the rest of it is freed.
Joins(S, h, t, c, g, d, A, l, q, from, to, S2, h2, t2, c2, g2, d2, A2) ==
    /\ Chained(S, h, t, c, g, d, A) /\ ListAddresses
    /\ l \in TheLists /\ q \in TheLists /\ l # q /\ c[l] > 0
    /\ from \in 1 .. Len(S[q]) /\ to \in from .. Len(S[q])
    /\ S2 = [S EXCEPT ![l] = @ \o SubSeq(S[q], from, to), ![q] = << >>]
    /\ g2 = [g EXCEPT ![S[q][to]] = 0, ![t[l]] = S[q][from]]
    /\ d2 = [d EXCEPT ![S[q][from]] = t[l]]
    /\ h2 = [h EXCEPT ![q] = 0]
    /\ t2 = [t EXCEPT ![l] = S[q][to], ![q] = 0]
    /\ c2 = [c EXCEPT ![l] = @ + (to - from + 1), ![q] = 0]
    /\ A2 = A \ {S[q][k] : k \in 1 .. Len(S[q]) \ (from .. to)}

\* A stretch of a sequence, and one that it is appended to.
IsStretch(r, s, from, to) ==
    /\ r \in Seq(ListNodes) /\ s \in Seq(ListNodes)
    /\ from \in 1 .. Len(s) /\ to \in from .. Len(s)

WithStretch(r, s, from, to) == r \o SubSeq(s, from, to)

LEMMA Stretched ==
    ASSUME NEW r, NEW s, NEW from, NEW to, IsStretch(r, s, from, to)
    PROVE  /\ WithStretch(r, s, from, to) \in Seq(ListNodes)
           /\ Len(WithStretch(r, s, from, to)) = Len(r) + (to - from + 1)
           /\ \A k \in 1 .. Len(r) : WithStretch(r, s, from, to)[k] = r[k]
           /\ \A k \in from .. to : WithStretch(r, s, from, to)[Len(r) + (k - from + 1)] = s[k]
<1> DEFINE b == SubSeq(s, from, to)
<1>0. /\ r \in Seq(ListNodes) /\ s \in Seq(ListNodes)
      /\ from \in 1 .. Len(s) /\ to \in from .. Len(s)
  BY DEF IsStretch
<1>1. from \in Nat /\ to \in Nat /\ Len(s) \in Nat /\ Len(r) \in Nat /\ 1 <= from /\ from <= to
  BY <1>0
<1>2. from \in 1 .. Len(s) + 1 /\ to \in from - 1 .. Len(s)
  BY <1>0, <1>1
<1>3. b \in Seq(ListNodes) /\ Len(b) = (IF from <= to THEN to - from + 1 ELSE 0)
      /\ \A k \in 1 .. to - from + 1 : b[k] = s[from + k - 1]
  BY <1>0, <1>1, <1>2, SubSeqProperties
<1>4. b \in Seq(ListNodes) /\ Len(b) = to - from + 1
  BY <1>1, <1>3
<1> HIDE DEF b
<1>5. r \o b \in Seq(ListNodes) /\ Len(r \o b) = Len(r) + Len(b)
      /\ \A k \in 1 .. Len(r) + Len(b) : (r \o b)[k] = IF k <= Len(r) THEN r[k] ELSE b[k - Len(r)]
  BY <1>0, <1>4, ConcatProperties
<1>6. ASSUME NEW k \in 1 .. Len(r) PROVE (r \o b)[k] = r[k]
  <2>1. k \in 1 .. Len(r) + Len(b) /\ k <= Len(r)
    BY <1>1, <1>4
  <2> QED
    BY <2>1, <1>5
<1>7. ASSUME NEW k \in from .. to PROVE (r \o b)[Len(r) + (k - from + 1)] = s[k]
  <2> DEFINE z == k - from + 1
  <2>1. z \in 1 .. to - from + 1 /\ from + z - 1 = k
    BY <1>1
  <2>2. b[z] = s[from + z - 1]
    BY <2>1, <1>3
  <2>3. Len(r) + z \in 1 .. Len(r) + Len(b) /\ ~(Len(r) + z <= Len(r)) /\ (Len(r) + z) - Len(r) = z
    BY <2>1, <1>1, <1>4
  <2> HIDE DEF z
  <2>4. (r \o b)[Len(r) + z] = s[k]
    BY <2>1, <2>2, <2>3, <1>5
  <2> QED
    BY <2>4 DEF z
<1>8. Len(r \o b) = Len(r) + (to - from + 1)
  BY <1>1, <1>4, <1>5
<1> QED
  BY <1>5, <1>6, <1>7, <1>8 DEF b, WithStretch

LEMMA JoinedLists ==
    ASSUME NEW S, NEW h, NEW t, NEW c, NEW g, NEW d, NEW A, NEW l, NEW q, NEW from, NEW to,
           NEW S2, NEW h2, NEW t2, NEW c2, NEW g2, NEW d2, NEW A2,
           Joins(S, h, t, c, g, d, A, l, q, from, to, S2, h2, t2, c2, g2, d2, A2)
    PROVE  Chained(S2, h2, t2, c2, g2, d2, A2)
<1>0. S2 = [S EXCEPT ![l] = WithStretch(@, S[q], from, to), ![q] = << >>]
  BY DEF Joins, WithStretch
<1>1. Chained(S, h, t, c, g, d, A) /\ ListAddresses /\ l \in TheLists /\ q \in TheLists
      /\ l # q /\ c[l] > 0 /\ from \in 1 .. Len(S[q]) /\ to \in from .. Len(S[q])
      /\ S \in [TheLists -> Seq(ListNodes)] /\ Single(S)
  BY DEF Joins, Chained
<1>2. PICK r, s, a, m, w : r = S[l] /\ s = S[q] /\ a = WithStretch(r, s, from, to)
                           /\ m = Len(r) /\ w = to - from + 1
  OBVIOUS
<1>3. r \in Seq(ListNodes) /\ s \in Seq(ListNodes) /\ m \in Nat /\ m > 0 /\ Len(s) \in Nat
      /\ c[l] = m
  BY <1>1, <1>2 DEF Chained, Chain
<1>4. from \in Nat /\ to \in Nat /\ 1 <= from /\ from <= to /\ to <= Len(s)
      /\ from \in 1 .. Len(s) /\ to \in 1 .. Len(s) /\ to \in from .. Len(s)
      /\ w \in Nat /\ w >= 1 /\ m \in 1 .. m /\ 1 \in 1 .. m
  BY <1>1, <1>2, <1>3
<1>5. h[l] = r[1] /\ t[l] = r[m] /\ d[r[1]] = 0
  <2>1. r # << >>
    BY <1>2, <1>3
  <2> QED
    BY <2>1, <1>1, <1>2 DEF Chained, Chain
<1>6. Linked(r, g) /\ BackLinked(r, d) /\ Linked(s, g) /\ BackLinked(s, d)
  BY <1>1, <1>2 DEF Chained, Chain
<1>7. /\ \A k \in 1 .. m, j \in 1 .. m : r[k] = r[j] => k = j
      /\ \A k \in 1 .. Len(s), j \in 1 .. Len(s) : s[k] = s[j] => k = j
      /\ \A k \in 1 .. m, j \in 1 .. Len(s) : r[k] # s[j]
      /\ \A k \in 1 .. m : r[k] \in ListNodes
      /\ \A k \in 1 .. Len(s) : s[k] \in ListNodes
  <2>1. \A k \in 1 .. m, j \in 1 .. m : r[k] = r[j] => k = j
    <3>1. \A k \in 1 .. Len(S[l]), j \in 1 .. Len(S[l]) : S[l][k] = S[l][j] => k = j
      BY <1>1 DEF Single
    <3> QED
      BY <3>1, <1>2
  <2>2. \A k \in 1 .. Len(s), j \in 1 .. Len(s) : s[k] = s[j] => k = j
    BY <1>1, <1>2 DEF Single
  <2>3. \A k \in 1 .. m, j \in 1 .. Len(s) : r[k] # s[j]
    BY <1>1, <1>2 DEF Single
  <2>4. (\A k \in 1 .. m : r[k] \in ListNodes) /\ (\A k \in 1 .. Len(s) : s[k] \in ListNodes)
    BY <1>2, <1>3
  <2> QED
    BY <2>1, <2>2, <2>3, <2>4
<1>8. a \in Seq(ListNodes) /\ Len(a) = m + w
      /\ (\A k \in 1 .. m : a[k] = r[k])
      /\ (\A k \in from .. to : a[m + (k - from + 1)] = s[k])
  <2>1. IsStretch(r, s, from, to)
    BY <1>3, <1>4 DEF IsStretch
  <2> QED
    BY <2>1, <1>2, Stretched
<1>9. S2[l] = a /\ S2[q] = << >> /\ \A e \in TheLists \ {l, q} : S2[e] = S[e]
  BY <1>0, <1>1, <1>2
<1>10. /\ h2 = [h EXCEPT ![q] = 0] /\ t2 = [t EXCEPT ![l] = s[to], ![q] = 0]
       /\ c2 = [c EXCEPT ![l] = @ + w, ![q] = 0]
       /\ g2 = [g EXCEPT ![s[to]] = 0, ![r[m]] = s[from]]
       /\ d2 = [d EXCEPT ![s[from]] = r[m]]
       /\ A2 = A \ {s[k] : k \in 1 .. Len(s) \ (from .. to)}
  BY <1>2, <1>5 DEF Joins
<1>11. /\ h2[l] = r[1] /\ t2[l] = s[to] /\ c2[l] = m + w
       /\ h2[q] = 0 /\ t2[q] = 0 /\ c2[q] = 0
       /\ \A e \in TheLists \ {l, q} : h2[e] = h[e] /\ t2[e] = t[e] /\ c2[e] = c[e]
  BY <1>1, <1>3, <1>5, <1>10 DEF Chained
<1>12. /\ r[m] \in ListNodes /\ s[to] \in ListNodes /\ s[from] \in ListNodes /\ r[m] # s[to]
       /\ g \in [ListNodes -> ListNodes \cup {0}] /\ d \in [ListNodes -> ListNodes \cup {0}]
  BY <1>1, <1>4, <1>7 DEF Chained
<1>13. /\ g2[r[m]] = s[from] /\ g2[s[to]] = 0 /\ d2[s[from]] = r[m]
       /\ \A y \in ListNodes : y # r[m] /\ y # s[to] => g2[y] = g[y]
       /\ \A y \in ListNodes : y # s[from] => d2[y] = d[y]
  BY <1>10, <1>12
<1>14. ASSUME NEW k \in 1 .. m + w
       PROVE  \/ k \in 1 .. m /\ a[k] = r[k]
              \/ \E b \in from .. to : b \in 1 .. Len(s) /\ k = m + (b - from + 1) /\ a[k] = s[b]
  <2>1. CASE k <= m
    <3>1. k \in 1 .. m
      BY <2>1, <1>3
    <3> QED
      BY <3>1, <1>8
  <2>2. CASE k > m
    <3> DEFINE b == from + (k - m) - 1
    <3>0. k \in Nat /\ k <= m + w
      BY <1>3, <1>4
    <3>2. w = to - from + 1
      BY <1>2
    <3>1. b \in from .. to /\ b \in 1 .. Len(s) /\ k = m + (b - from + 1)
      BY <3>0, <3>2, <2>2, <1>3, <1>4
    <3> HIDE DEF b
    <3>3. a[k] = s[b]
      BY <3>1, <1>8
    <3> QED
      BY <3>1, <3>3
  <2> QED
    BY <2>1, <2>2, <1>3
<1>15. Typed(S2, h2, t2, c2, g2, d2, A2)
  <2>1. S2 \in [TheLists -> Seq(ListNodes)]
    <3>1. S2 = [S EXCEPT ![l] = a, ![q] = << >>]
      BY <1>0, <1>1, <1>2
    <3>2. << >> \in Seq(ListNodes)
      OBVIOUS
    <3> QED
      BY <3>1, <3>2, <1>1, <1>8
  <2>2. h2 \in [TheLists -> ListNodes \cup {0}] /\ t2 \in [TheLists -> ListNodes \cup {0}]
        /\ A2 \subseteq ListNodes
    BY <1>1, <1>10, <1>12 DEF Chained
  <2>3. c2 \in [TheLists -> Nat]
    BY <1>1, <1>3, <1>4, <1>10 DEF Chained
  <2>4. g2 \in [ListNodes -> ListNodes \cup {0}] /\ d2 \in [ListNodes -> ListNodes \cup {0}]
    BY <1>10, <1>12
  <2> QED
    BY <2>1, <2>2, <2>3, <2>4 DEF Typed
<1>16. Single(S2)
  <2>1. ASSUME NEW e \in TheLists, NEW u \in TheLists, NEW k \in 1 .. Len(S2[e]),
               NEW j \in 1 .. Len(S2[u]), S2[e][k] = S2[u][j]
        PROVE  e = u /\ k = j
    <3>1. e # q /\ u # q
      <4>1. Len(S2[q]) = 0
        BY <1>9
      <4> QED
        BY <4>1
    <3>2. CASE e # l /\ u # l
      BY <3>1, <3>2, <2>1, <1>1, <1>9 DEF Single
    <3>3. CASE e = l /\ u # l
      <4>1. k \in 1 .. m + w /\ S2[e][k] = a[k] /\ j \in 1 .. Len(S[u]) /\ S2[u][j] = S[u][j]
        BY <3>1, <3>3, <1>8, <1>9
      <4>2. (\E b \in 1 .. m : a[k] = r[b]) \/ (\E b \in 1 .. Len(s) : a[k] = s[b])
        BY <4>1, <1>14
      <4>3. \A b \in 1 .. Len(S[l]) : S[u][j] # S[l][b]
        BY <4>1, <3>1, <3>3, <1>1 DEF Single
      <4>4. \A b \in 1 .. Len(S[q]) : S[u][j] # S[q][b]
        BY <4>1, <3>1, <3>3, <1>1 DEF Single
      <4> QED
        BY <4>1, <4>2, <4>3, <4>4, <2>1, <1>2
    <3>4. CASE e # l /\ u = l
      <4>1. j \in 1 .. m + w /\ S2[u][j] = a[j] /\ k \in 1 .. Len(S[e]) /\ S2[e][k] = S[e][k]
        BY <3>1, <3>4, <1>8, <1>9
      <4>2. (\E b \in 1 .. m : a[j] = r[b]) \/ (\E b \in 1 .. Len(s) : a[j] = s[b])
        BY <4>1, <1>14
      <4>3. \A b \in 1 .. Len(S[l]) : S[e][k] # S[l][b]
        BY <4>1, <3>1, <3>4, <1>1 DEF Single
      <4>4. \A b \in 1 .. Len(S[q]) : S[e][k] # S[q][b]
        BY <4>1, <3>1, <3>4, <1>1 DEF Single
      <4> QED
        BY <4>1, <4>2, <4>3, <4>4, <2>1, <1>2
    <3>5. CASE e = l /\ u = l
      <4>1. k \in 1 .. m + w /\ j \in 1 .. m + w /\ a[k] = a[j]
        BY <3>5, <2>1, <1>8, <1>9
      <4>2. CASE k \in 1 .. m /\ a[k] = r[k]
        <5>1. j \in 1 .. m /\ a[j] = r[j]
          BY <4>1, <4>2, <1>7, <1>14
        <5> QED
          BY <5>1, <4>1, <4>2, <3>5, <1>7
      <4>3. CASE \E b \in from .. to : b \in 1 .. Len(s) /\ k = m + (b - from + 1) /\ a[k] = s[b]
        <5>1. PICK b \in 1 .. Len(s) : k = m + (b - from + 1) /\ a[k] = s[b]
          BY <4>3
        <5>2. PICK z \in 1 .. Len(s) : j = m + (z - from + 1) /\ a[j] = s[z]
          BY <4>1, <5>1, <1>7, <1>14
        <5>3. b = z
          BY <5>1, <5>2, <4>1, <1>7
        <5> QED
          BY <5>1, <5>2, <5>3, <3>5
      <4> QED
        BY <4>1, <4>2, <4>3, <1>14
    <3> QED
      BY <3>2, <3>3, <3>4, <3>5
  <2> QED
    BY <2>1 DEF Single
<1>17. \A e \in TheLists : \A k \in 1 .. Len(S2[e]) : S2[e][k] \in A2
  <2>1. ASSUME NEW e \in TheLists, NEW k \in 1 .. Len(S2[e]) PROVE S2[e][k] \in A2
    <3>1. e # q
      <4>1. Len(S2[q]) = 0
        BY <1>9
      <4> QED
        BY <4>1
    <3>2. CASE e # l
      <4>1. k \in 1 .. Len(S[e]) /\ S2[e][k] = S[e][k]
        BY <3>1, <3>2, <1>9
      <4>2. \A j \in 1 .. Len(s) : S[e][k] # s[j]
        BY <4>1, <3>1, <1>1, <1>2 DEF Single
      <4>3. S[e][k] \in A
        BY <4>1, <1>1 DEF Chained
      <4> QED
        BY <4>1, <4>2, <4>3, <1>10
    <3>3. CASE e = l
      <4>1. k \in 1 .. m + w /\ S2[e][k] = a[k]
        BY <3>3, <1>8, <1>9
      <4>2. (\A j \in 1 .. m : r[j] \in A) /\ (\A j \in 1 .. Len(s) : s[j] \in A)
        BY <1>1, <1>2 DEF Chained
      <4>3. CASE k \in 1 .. m /\ a[k] = r[k]
        <5>1. a[k] \in A /\ \A j \in 1 .. Len(s) : a[k] # s[j]
          BY <4>2, <4>3, <1>7
        <5> QED
          BY <5>1, <4>1, <1>10
      <4>4. CASE \E b \in from .. to : b \in 1 .. Len(s) /\ k = m + (b - from + 1) /\ a[k] = s[b]
        <5>1. PICK b \in from .. to : b \in 1 .. Len(s) /\ a[k] = s[b]
          BY <4>4
        <5>2. \A j \in 1 .. Len(s) \ (from .. to) : s[b] # s[j]
          BY <5>1, <1>7
        <5> QED
          BY <5>1, <5>2, <4>1, <4>2, <1>10
      <4> QED
        BY <4>1, <4>3, <4>4, <1>14
    <3> QED
      BY <3>2, <3>3
  <2> QED
    BY <2>1
<1>18. LinksKept(S, h, t, c, g, d, {l, q}, S2, h2, t2, c2, g2, d2)
  <2>1. ASSUME NEW e \in TheLists \ {l, q}, NEW k \in 1 .. Len(S[e])
        PROVE  g2[S[e][k]] = g[S[e][k]] /\ d2[S[e][k]] = d[S[e][k]]
    <3>1. (\A b \in 1 .. m : S[e][k] # r[b]) /\ (\A b \in 1 .. Len(s) : S[e][k] # s[b])
      BY <2>1, <1>1, <1>2 DEF Single
    <3>2. S[e][k] \in ListNodes
      BY <1>1
    <3> QED
      BY <3>1, <3>2, <1>4, <1>13
  <2> QED
    BY <2>1, <1>9, <1>11 DEF LinksKept
<1>19. Linked(a, g2) /\ BackLinked(a, d2)
  <2>1. ASSUME NEW k \in 1 .. m + w - 1
        PROVE  g2[a[k]] = a[k + 1] /\ d2[a[k + 1]] = a[k]
    <3>1. CASE k < m
      <4>1. k \in 1 .. m - 1 /\ k \in 1 .. m /\ k + 1 \in 1 .. m /\ k # m
        BY <3>1, <1>3
      <4>2. a[k] = r[k] /\ a[k + 1] = r[k + 1]
        BY <4>1, <1>8
      <4>3. g2[r[k]] = g[r[k]] /\ d2[r[k + 1]] = d[r[k + 1]]
        BY <4>1, <1>4, <1>7, <1>13
      <4> QED
        BY <4>1, <4>2, <4>3, <1>2, <1>6 DEF Linked, BackLinked
    <3>2. CASE k = m
      <4>1. from \in from .. to /\ m + (from - from + 1) = m + 1
        BY <1>3, <1>4
      <4>2. a[m] = r[m] /\ a[m + 1] = s[from]
        BY <4>1, <1>4, <1>8
      <4> QED
        BY <3>2, <4>2, <1>13
    <3>3. CASE k > m
      <4> DEFINE b == from + (k - m) - 1
      <4>0. k \in Nat /\ k <= m + w - 1
        BY <1>3, <1>4
      <4>5. w = to - from + 1
        BY <1>2
      <4>1. b \in from .. to /\ b + 1 \in from .. to /\ b \in 1 .. Len(s) - 1 /\ b # to
            /\ b + 1 # from /\ b \in 1 .. Len(s) /\ b + 1 \in 1 .. Len(s)
            /\ k = m + (b - from + 1) /\ k + 1 = m + ((b + 1) - from + 1)
        BY <4>0, <4>5, <3>3, <1>3, <1>4
      <4> HIDE DEF b
      <4>2. a[k] = s[b] /\ a[k + 1] = s[b + 1]
        BY <4>1, <1>8
      <4>3. /\ s[b] # r[m] /\ s[b] # s[to] /\ s[b + 1] # s[from]
            /\ s[b] \in ListNodes /\ s[b + 1] \in ListNodes
        BY <4>1, <1>4, <1>7
      <4>6. g2[s[b]] = g[s[b]] /\ d2[s[b + 1]] = d[s[b + 1]]
        BY <4>3, <1>13
      <4> QED
        BY <4>1, <4>2, <4>6, <1>6 DEF Linked, BackLinked
    <3> QED
      BY <3>1, <3>2, <3>3, <1>3
  <2>2. Len(a) - 1 = m + w - 1
    BY <1>3, <1>4, <1>8
  <2> QED
    BY <2>1, <2>2 DEF Linked, BackLinked
<1>20. Chain(a, r[1], s[to], m + w, g2, d2)
  <2>1. a # << >>
    BY <1>3, <1>4, <1>8
  <2>2. a[1] = r[1] /\ d2[r[1]] = 0
    BY <1>4, <1>5, <1>7, <1>8, <1>13
  <2>3. to \in from .. to /\ m + (to - from + 1) = m + w
    BY <1>2, <1>3, <1>4
  <2>4. a[m + w] = s[to]
    BY <2>3, <1>8
  <2> QED
    BY <2>1, <2>2, <2>4, <1>8, <1>13, <1>19 DEF Chain
<1>21. Changes(S, h, t, c, g, d, A, {l, q}, S2, h2, t2, c2, g2, d2, A2)
  <2>1. Chain(S2[l], h2[l], t2[l], c2[l], g2, d2)
    BY <1>9, <1>11, <1>20
  <2>2. Chain(S2[q], h2[q], t2[q], c2[q], g2, d2)
    BY <1>9, <1>11, EmptyChain
  <2> QED
    BY <2>1, <2>2, <1>1, <1>15, <1>16, <1>17, <1>18 DEF Changes
<1> QED
  BY <1>21, ChangedLists

\* The links are those of the sequences that lstDth finds.
ListInv == Chained(ListLists, listHead, listTail, listCount, listNext, listPrev, listAllocated)

LEMMA ListFirst ==
    ASSUME L!Init
    PROVE  ListInv /\ L!Abstract!Init
<1> DEFINE S == [l \in TheLists |-> << >>]
<1>1. /\ listHead = [l \in TheLists |-> 0] /\ listTail = [l \in TheLists |-> 0]
      /\ listCount = [l \in TheLists |-> 0] /\ listAllocated = {}
      /\ listNext = [x \in ListNodes |-> 0] /\ listPrev = [x \in ListNodes |-> 0]
  BY DEF L!Init, L!NULL
<1>2. << >> \in Seq(ListNodes) /\ Len(<< >>) = 0
  OBVIOUS
<1>3. Single(S) /\ S \in [TheLists -> Seq(ListNodes)]
  BY <1>2 DEF Single
<1>4. \A l \in TheLists : Chain(S[l], listHead[l], listTail[l], listCount[l], listNext, listPrev)
  BY <1>1, EmptyChain
<1>5. Chained(S, listHead, listTail, listCount, listNext, listPrev, listAllocated)
  BY <1>1, <1>2, <1>3, <1>4 DEF Chained
<1> HIDE DEF S
<1>6. ListLists = S
  BY <1>5, WalkedIs, ListListsForm
<1>7. L!Abstract!Init
  BY <1>1, <1>6 DEF L!Abstract!Init, ListLists, S
<1> QED
  BY <1>5, <1>6, <1>7 DEF ListInv

\* After a step the sequences are those whose links it has left.
LEMMA Settled ==
    ASSUME NEW S2,
           Chained(S2, listHead', listTail', listCount', listNext', listPrev', listAllocated')
    PROVE  ListLists' = S2 /\ ListInv'
<1>1. ListLists' = S2
  BY WalkedIs, ListListsForm
<1> QED
  BY <1>1 DEF ListInv

LEMMA InList ==
    ASSUME ListInv, NEW l \in TheLists
    PROVE  /\ ListLists[l] \in Seq(ListNodes) /\ listCount[l] = Len(ListLists[l])
           /\ Len(ListLists[l]) \in Nat
           /\ \A k \in 1 .. Len(ListLists[l]) :
                 /\ L!After(listHead[l], k - 1) = ListLists[l][k]
                 /\ L!Before(listTail[l], Len(ListLists[l]) - k) = ListLists[l][k]
                 /\ ListLists[l][k] \in ListNodes /\ ListLists[l][k] \in listAllocated
           /\ Len(ListLists[l]) > 0 =>
                 /\ listHead[l] = ListLists[l][1] /\ listTail[l] = ListLists[l][Len(ListLists[l])]
                 /\ listPrev[listHead[l]] = 0 /\ listNext[listTail[l]] = 0
           /\ Len(ListLists[l]) = 0 => listHead[l] = 0 /\ listTail[l] = 0
           /\ \A k, j \in 1 .. Len(ListLists[l]) : ListLists[l][k] = ListLists[l][j] => k = j
<1>1. PICK s, S : S = ListLists /\ s = ListLists[l]
  OBVIOUS
<1>2. Chain(s, listHead[l], listTail[l], listCount[l], listNext, listPrev)
  BY <1>1 DEF ListInv, Chained
<1>3. s \in Seq(ListNodes) /\ listCount[l] = Len(s) /\ Len(s) \in Nat
      /\ Linked(s, listNext) /\ BackLinked(s, listPrev)
  BY <1>2 DEF Chain
<1>4. (s = << >> <=> Len(s) = 0) /\ (Len(s) # 0 <=> Len(s) > 0)
  BY <1>3
<1>5. /\ Len(s) > 0 => /\ listHead[l] = s[1] /\ listTail[l] = s[Len(s)]
                       /\ listPrev[listHead[l]] = 0 /\ listNext[listTail[l]] = 0
      /\ Len(s) = 0 => listHead[l] = 0 /\ listTail[l] = 0
  BY <1>2, <1>4 DEF Chain
<1>6. ASSUME NEW k \in 1 .. Len(s)
      PROVE  /\ L!After(listHead[l], k - 1) = s[k]
             /\ L!Before(listTail[l], Len(s) - k) = s[k]
             /\ s[k] \in ListNodes /\ s[k] \in listAllocated
  <2>1. Len(s) > 0
    BY <1>3
  <2>2. Along(listNext, s[1], k - 1) = s[k] /\ Along(listPrev, s[Len(s)], Len(s) - k) = s[k]
    BY <1>3, AlongForward, AlongBackward
  <2>3. s[k] \in listAllocated
    BY <1>1 DEF ListInv, Chained
  <2> QED
    BY <2>1, <2>2, <2>3, <1>3, <1>5, ListForm
<1>7. \A k, j \in 1 .. Len(s) : s[k] = s[j] => k = j
  <2>1. Single(S) /\ s = S[l]
    BY <1>1 DEF ListInv, Chained
  <2> QED
    BY <2>1 DEF Single
<1> QED
  BY <1>1, <1>3, <1>5, <1>6, <1>7

LEMMA ListAddTail ==
    ASSUME ListAddresses, ListInv, NEW l \in TheLists, NEW x \in ListNodes, L!AddTail(l, x)
    PROVE  ListInv' /\ L!Abstract!AddTail(l, x)
<1>1. PICK S, h, t, c, g, d, A : S = ListLists /\ h = listHead /\ t = listTail /\ c = listCount
         /\ g = listNext /\ d = listPrev /\ A = listAllocated
  OBVIOUS
<1>2. x \in ListNodes \ A /\ listAllocated' = A \cup {x}
  BY <1>1 DEF L!AddTail, L!Malloc
<1>3. Adds(S, h, t, c, g, d, A, l, x)
  BY <1>1, <1>2 DEF Adds, ListInv
<1>4. /\ listHead' = [h EXCEPT ![l] = IF t[l] = 0 THEN x ELSE @]
      /\ listTail' = [t EXCEPT ![l] = x] /\ listCount' = [c EXCEPT ![l] = @ + 1]
      /\ listNext' = [y \in ListNodes |-> IF y = x THEN 0 ELSE IF y = t[l] THEN x ELSE g[y]]
      /\ listPrev' = [d EXCEPT ![x] = t[l]]
  BY <1>1, Zenon DEF L!AddTail, L!NULL
<1>5. Chained([S EXCEPT ![l] = Append(@, x)], listHead', listTail', listCount', listNext',
              listPrev', listAllocated')
  <2>1. Chained([S EXCEPT ![l] = Append(@, x)], [h EXCEPT ![l] = IF t[l] = 0 THEN x ELSE @],
                [t EXCEPT ![l] = x], [c EXCEPT ![l] = @ + 1],
                [y \in ListNodes |-> IF y = x THEN 0 ELSE IF y = t[l] THEN x ELSE g[y]],
                [d EXCEPT ![x] = t[l]], A \cup {x})
    BY <1>3, AddedTail
  <2> QED
    BY <2>1, <1>2, <1>4
<1>6. ListLists' = [S EXCEPT ![l] = Append(@, x)] /\ ListInv'
  BY <1>5, Settled
<1>7. L!Abstract!AddTail(l, x)
  BY <1>1, <1>2, <1>6 DEF L!Abstract!AddTail, L!Abstract!New, ListLists
<1> QED
  BY <1>6, <1>7

LEMMA ListAddHead ==
    ASSUME ListAddresses, ListInv, NEW l \in TheLists, NEW x \in ListNodes, L!AddHead(l, x)
    PROVE  ListInv' /\ L!Abstract!AddHead(l, x)
<1>1. PICK S, h, t, c, g, d, A : S = ListLists /\ h = listHead /\ t = listTail /\ c = listCount
         /\ g = listNext /\ d = listPrev /\ A = listAllocated
  OBVIOUS
<1>2. x \in ListNodes \ A /\ listAllocated' = A \cup {x}
  BY <1>1 DEF L!AddHead, L!Malloc
<1>3. Adds(S, h, t, c, g, d, A, l, x)
  BY <1>1, <1>2 DEF Adds, ListInv
<1>4. /\ listHead' = [h EXCEPT ![l] = x]
      /\ listTail' = [t EXCEPT ![l] = IF h[l] = 0 THEN x ELSE @]
      /\ listCount' = [c EXCEPT ![l] = @ + 1]
      /\ listNext' = [g EXCEPT ![x] = h[l]]
      /\ listPrev' = [y \in ListNodes |-> IF y = x THEN 0 ELSE IF y = h[l] THEN x ELSE d[y]]
  BY <1>1, Zenon DEF L!AddHead, L!NULL
<1>5. Chained([S EXCEPT ![l] = <<x>> \o @], listHead', listTail', listCount', listNext',
              listPrev', listAllocated')
  <2>1. Chained([S EXCEPT ![l] = <<x>> \o @], [h EXCEPT ![l] = x],
                [t EXCEPT ![l] = IF h[l] = 0 THEN x ELSE @], [c EXCEPT ![l] = @ + 1],
                [g EXCEPT ![x] = h[l]],
                [y \in ListNodes |-> IF y = x THEN 0 ELSE IF y = h[l] THEN x ELSE d[y]],
                A \cup {x})
    BY <1>3, AddedHead
  <2> QED
    BY <2>1, <1>2, <1>4
<1>6. ListLists' = [S EXCEPT ![l] = <<x>> \o @] /\ ListInv'
  BY <1>5, Settled
<1>7. L!Abstract!AddHead(l, x)
  BY <1>1, <1>2, <1>6 DEF L!Abstract!AddHead, L!Abstract!New, ListLists
<1> QED
  BY <1>6, <1>7

LEMMA ListDel ==
    ASSUME ListAddresses, ListInv, NEW l \in TheLists, NEW x \in L!Members(l), L!Del(l, x)
    PROVE  ListInv' /\ \E p \in 1 .. Len(ListLists[l]) : L!Abstract!Del(l, p)
<1>1. PICK S, h, t, c, g, d, A : S = ListLists /\ h = listHead /\ t = listTail /\ c = listCount
         /\ g = listNext /\ d = listPrev /\ A = listAllocated
  OBVIOUS
<1>2. PICK p \in 1 .. Len(S[l]) : x = S[l][p]
  <2>1. PICK k \in 0 .. listCount[l] - 1 : x = L!After(listHead[l], k)
    BY DEF L!Members
  <2>2. k + 1 \in 1 .. Len(ListLists[l]) /\ (k + 1) - 1 = k
    BY InList
  <2>3. L!After(listHead[l], (k + 1) - 1) = ListLists[l][k + 1]
    BY <2>2, InList
  <2> QED
    BY <2>1, <2>2, <2>3, <1>1
<1>3. Deletes(S, h, t, c, g, d, A, l, p, listHead', listTail', listCount', listNext', listPrev',
              listAllocated')
  BY <1>1, <1>2 DEF Deletes, ListInv, L!Del, L!NULL
<1>4. Chained([S EXCEPT ![l] = Without(@, p)], listHead', listTail', listCount', listNext',
              listPrev', listAllocated')
  BY <1>3, DeletedNode
<1>5. ListLists' = [S EXCEPT ![l] = Without(@, p)] /\ ListInv'
  BY <1>4, Settled
<1>6. listAllocated' = listAllocated \ {S[l][p]}
  BY <1>2 DEF L!Del
<1>7. p \in DOMAIN ListLists[l]
  BY <1>1, InList
<1>8. L!Abstract!Del(l, p)
  BY <1>1, <1>5, <1>6, <1>7 DEF L!Abstract!Del, L!Abstract!RemoveAt, Without, ListLists
<1> QED
  BY <1>1, <1>5, <1>8

LEMMA ListFree ==
    ASSUME ListInv, NEW l \in TheLists, L!Free(l)
    PROVE  ListInv' /\ L!Abstract!Free(l)
<1>1. PICK S, h, t, c, g, d, A : S = ListLists /\ h = listHead /\ t = listTail /\ c = listCount
         /\ g = listNext /\ d = listPrev /\ A = listAllocated
  OBVIOUS
<1>2. {L!After(listHead[l], k) : k \in 0 .. listCount[l] - 1}
         = {ListLists[l][k] : k \in 1 .. Len(ListLists[l])}
  <2>1. ASSUME NEW k \in 0 .. listCount[l] - 1
        PROVE  L!After(listHead[l], k) \in {ListLists[l][j] : j \in 1 .. Len(ListLists[l])}
    <3>1. k + 1 \in 1 .. Len(ListLists[l]) /\ (k + 1) - 1 = k
      BY InList
    <3>2. L!After(listHead[l], (k + 1) - 1) = ListLists[l][k + 1]
      BY <3>1, InList
    <3> QED
      BY <3>1, <3>2
  <2>2. ASSUME NEW k \in 1 .. Len(ListLists[l])
        PROVE  ListLists[l][k] \in {L!After(listHead[l], j) : j \in 0 .. listCount[l] - 1}
    <3>1. k - 1 \in 0 .. listCount[l] - 1
      BY InList
    <3> QED
      BY <3>1, InList
  <2> QED
    BY <2>1, <2>2
<1>3. listAllocated' = A \ {S[l][k] : k \in 1 .. Len(S[l])}
  BY <1>1, <1>2 DEF L!Free
<1>4. Frees(S, h, t, c, g, d, A, l, listAllocated')
  BY <1>1, <1>3 DEF Frees, ListInv
<1>5. /\ listHead' = [h EXCEPT ![l] = 0] /\ listTail' = [t EXCEPT ![l] = 0]
      /\ listCount' = [c EXCEPT ![l] = 0] /\ listNext' = g /\ listPrev' = d
  BY <1>1 DEF L!Free, L!NULL, L!links
<1>6. Chained([S EXCEPT ![l] = << >>], listHead', listTail', listCount', listNext', listPrev',
              listAllocated')
  BY <1>4, <1>5, FreedList
<1>7. ListLists' = [S EXCEPT ![l] = << >>] /\ ListInv'
  BY <1>6, Settled
<1>8. {S[l][k] : k \in 1 .. Len(S[l])} = {S[l][k] : k \in DOMAIN S[l]}
  BY <1>1, InList
<1>9. L!Abstract!Free(l)
         <=> /\ ListLists' = [ListLists EXCEPT ![l] = << >>]
             /\ listAllocated' = listAllocated \ {ListLists[l][k] : k \in DOMAIN ListLists[l]}
  BY DEF L!Abstract!Free, L!Abstract!ToSet, ListLists
<1>10. L!Abstract!Free(l)
  BY <1>1, <1>3, <1>7, <1>8, <1>9
<1> QED
  BY <1>7, <1>10

\* What both merges do, with a stretch of the second list.
LEMMA ListJoin ==
    ASSUME ListAddresses, ListInv, NEW l \in TheLists, NEW q \in TheLists, l # q,
           listCount[l] > 0, NEW from \in 1 .. Len(ListLists[q]),
           NEW to \in from .. Len(ListLists[q]),
           L!Join(l, q, ListLists[q][from], ListLists[q][to], to - from + 1),
           listAllocated'
              = listAllocated \ {ListLists[q][k] : k \in 1 .. Len(ListLists[q]) \ (from .. to)}
    PROVE  ListInv' /\ L!Abstract!Merge(l, q, from, to)
<1>1. PICK S, h, t, c, g, d, A : S = ListLists /\ h = listHead /\ t = listTail /\ c = listCount
         /\ g = listNext /\ d = listPrev /\ A = listAllocated
  OBVIOUS
<1>2. /\ listNext' = [g EXCEPT ![S[q][to]] = 0, ![t[l]] = S[q][from]]
      /\ listPrev' = [d EXCEPT ![S[q][from]] = t[l]]
      /\ listHead' = [h EXCEPT ![q] = 0]
      /\ listTail' = [t EXCEPT ![l] = S[q][to], ![q] = 0]
      /\ listCount' = [c EXCEPT ![l] = @ + (to - from + 1), ![q] = 0]
  BY <1>1 DEF L!Join, L!NULL
<1>3. from \in 1 .. Len(S[q]) /\ to \in from .. Len(S[q]) /\ c[l] > 0
      /\ listAllocated' = A \ {S[q][k] : k \in 1 .. Len(S[q]) \ (from .. to)}
      /\ Chained(S, h, t, c, g, d, A)
  BY <1>1 DEF ListInv
<1>4. PICK S2 : S2 = [S EXCEPT ![l] = @ \o SubSeq(S[q], from, to), ![q] = << >>]
  OBVIOUS
<1>14. Joins(S, h, t, c, g, d, A, l, q, from, to, S2, listHead', listTail', listCount',
             listNext', listPrev', listAllocated')
  BY <1>2, <1>3, <1>4 DEF Joins
<1>5. Chained(S2, listHead', listTail', listCount', listNext', listPrev', listAllocated')
  BY <1>14, JoinedLists
<1>6. ListLists' = [S EXCEPT ![l] = @ \o SubSeq(S[q], from, to), ![q] = << >>] /\ ListInv'
  BY <1>4, <1>5, Settled
<1>7. PICK s : s = S[q]
  OBVIOUS
<1>15. /\ ListLists[q] \in Seq(ListNodes) /\ Len(ListLists[q]) \in Nat
       /\ \A k, j \in 1 .. Len(ListLists[q]) : ListLists[q][k] = ListLists[q][j] => k = j
  BY InList
<1>16. ListLists[q] = s
  BY <1>1, <1>7
<1>17. /\ s \in Seq(ListNodes) /\ Len(s) \in Nat
       /\ \A k, j \in 1 .. Len(s) : s[k] = s[j] => k = j
  BY <1>15, <1>16, Zenon
<1>8. s \in Seq(ListNodes) /\ Len(s) \in Nat /\ DOMAIN s = 1 .. Len(s)
      /\ \A k, j \in 1 .. Len(s) : s[k] = s[j] => k = j
  BY <1>17
<1>9. {SubSeq(s, from, to)[k] : k \in DOMAIN SubSeq(s, from, to)} = {s[k] : k \in from .. to}
  <2> DEFINE part == SubSeq(s, from, to)
  <2>1. from \in Nat /\ to \in Nat /\ from \in 1 .. Len(s) + 1 /\ to \in from - 1 .. Len(s)
        /\ from <= to
    BY <1>3, <1>7, <1>8
  <2>2. part \in Seq(ListNodes) /\ Len(part) = (IF from <= to THEN to - from + 1 ELSE 0)
        /\ \A k \in 1 .. to - from + 1 : part[k] = s[from + k - 1]
    BY <1>8, <2>1, SubSeqProperties
  <2>3. DOMAIN part = 1 .. to - from + 1
    BY <2>1, <2>2
  <2> HIDE DEF part
  <2>4. ASSUME NEW k \in DOMAIN part PROVE part[k] \in {s[j] : j \in from .. to}
    <3>1. k \in 1 .. to - from + 1
      BY <2>3
    <3>2. from + k - 1 \in from .. to
      BY <3>1, <2>1
    <3>3. part[k] = s[from + k - 1]
      BY <3>1, <2>2
    <3> QED
      BY <3>2, <3>3
  <2>5. ASSUME NEW k \in from .. to PROVE s[k] \in {part[j] : j \in DOMAIN part}
    <3>1. k - from + 1 \in DOMAIN part /\ from + (k - from + 1) - 1 = k
      BY <2>1, <2>3
    <3>2. part[k - from + 1] = s[from + (k - from + 1) - 1]
      BY <3>1, <2>2, <2>3
    <3> QED
      BY <3>1, <3>2
  <2> QED
    BY <2>4, <2>5 DEF part
<1>10. {s[k] : k \in 1 .. Len(s) \ (from .. to)}
          = {s[k] : k \in DOMAIN s} \ {s[k] : k \in from .. to}
  <2>1. from .. to \subseteq 1 .. Len(s)
    BY <1>3, <1>7, <1>8
  <2> QED
    BY <2>1, <1>8
<1>11. L!Abstract!Merge(l, q, from, to)
          <=> /\ l # q
              /\ ListLists' = [ListLists EXCEPT ![l] = @ \o SubSeq(ListLists[q], from, to),
                                                ![q] = << >>]
              /\ listAllocated'
                    = listAllocated
                      \ ({ListLists[q][k] : k \in DOMAIN ListLists[q]}
                         \ {SubSeq(ListLists[q], from, to)[k] :
                               k \in DOMAIN SubSeq(ListLists[q], from, to)})
  BY DEF L!Abstract!Merge, L!Abstract!ToSet, ListLists
<1>12. listAllocated' = listAllocated
                        \ ({s[k] : k \in DOMAIN s}
                           \ {SubSeq(s, from, to)[k] : k \in DOMAIN SubSeq(s, from, to)})
  <2>1. listAllocated' = listAllocated \ {s[k] : k \in 1 .. Len(s) \ (from .. to)}
    BY <1>1, <1>3, <1>7
  <2> QED
    BY <2>1, <1>9, <1>10
<1>13. L!Abstract!Merge(l, q, from, to)
  BY <1>1, <1>6, <1>7, <1>11, <1>12
<1> QED
  BY <1>6, <1>13

LEMMA ListMerge ==
    ASSUME ListAddresses, ListInv, NEW l \in TheLists, NEW q \in TheLists, L!Merge(l, q)
    PROVE  /\ ListInv'
           /\ \E from, to \in 1 .. Len(ListLists[q]) : L!Abstract!Merge(l, q, from, to)
<1>1. l # q /\ listCount[l] > 0 /\ listCount[q] > 0
      /\ L!Join(l, q, listHead[q], listTail[q], listCount[q]) /\ listAllocated' = listAllocated
  BY DEF L!Merge
<1>2. PICK m : m = Len(ListLists[q])
  OBVIOUS
<1>3. m \in Nat /\ m > 0 /\ listCount[q] = m /\ m - 1 + 1 = m
      /\ listHead[q] = ListLists[q][1] /\ listTail[q] = ListLists[q][m]
  BY <1>1, <1>2, InList
<1>4. 1 \in 1 .. m /\ m \in 1 .. m
  BY <1>3
<1>5. L!Join(l, q, ListLists[q][1], ListLists[q][m], m - 1 + 1)
  BY <1>1, <1>3
<1>6. listAllocated'
         = listAllocated \ {ListLists[q][k] : k \in 1 .. Len(ListLists[q]) \ (1 .. m)}
  BY <1>1, <1>2
<1>7. ListInv' /\ L!Abstract!Merge(l, q, 1, m)
  BY <1>1, <1>2, <1>4, <1>5, <1>6, ListJoin
<1> QED
  BY <1>2, <1>4, <1>7

LEMMA ListMergeN ==
    ASSUME ListAddresses, ListInv, NEW l \in TheLists, NEW q \in TheLists, NEW start, NEW end,
           L!MergeN(l, q, start, end)
    PROVE  /\ ListInv'
           /\ \E from, to \in 1 .. Len(ListLists[q]) : L!Abstract!Merge(l, q, from, to)
<1>1. l # q /\ listCount[l] > 0 /\ listCount[q] > 0
  BY DEF L!MergeN
<1>2. PICK s, m : s = ListLists[q] /\ m = Len(s)
  OBVIOUS
<1>3. m \in Nat /\ listCount[q] = m
      /\ \A k \in 1 .. m : L!After(listHead[q], k - 1) = s[k] /\ L!Before(listTail[q], m - k) = s[k]
  BY <1>2, InList
<1>4. PICK j \in 0 .. m - 1 : \E k \in 0 .. m - 1 - j :
         /\ L!After(listHead[q], j) = start /\ L!Before(listTail[q], k) = end
         /\ listAllocated' = listAllocated \ ({L!After(listHead[q], a) : a \in 0 .. j - 1}
                                              \cup {L!Before(listTail[q], b) : b \in 0 .. k - 1})
         /\ L!Join(l, q, start, end, m - j - k)
  BY <1>3 DEF L!MergeN
<1>5. PICK k \in 0 .. m - 1 - j :
         /\ L!After(listHead[q], j) = start /\ L!Before(listTail[q], k) = end
         /\ listAllocated' = listAllocated \ ({L!After(listHead[q], a) : a \in 0 .. j - 1}
                                              \cup {L!Before(listTail[q], b) : b \in 0 .. k - 1})
         /\ L!Join(l, q, start, end, m - j - k)
  BY <1>4
<1>6. PICK from, to : from = j + 1 /\ to = m - k
  OBVIOUS
<1>7. /\ from \in 1 .. m /\ to \in from .. m /\ to \in 1 .. m
      /\ j = from - 1 /\ k = m - to /\ m - j - k = to - from + 1
  BY <1>3, <1>6
<1>8. start = s[from] /\ end = s[to]
  BY <1>3, <1>5, <1>7
<1>9. {L!After(listHead[q], a) : a \in 0 .. j - 1} = {s[a] : a \in 1 .. from - 1}
  <2>1. ASSUME NEW a \in 0 .. j - 1
        PROVE  L!After(listHead[q], a) \in {s[b] : b \in 1 .. from - 1}
    <3>1. a + 1 \in 1 .. m /\ (a + 1) - 1 = a /\ a + 1 \in 1 .. from - 1
      BY <1>3, <1>6
    <3>2. L!After(listHead[q], (a + 1) - 1) = s[a + 1]
      BY <3>1, <1>3
    <3> QED
      BY <3>1, <3>2
  <2>2. ASSUME NEW a \in 1 .. from - 1
        PROVE  s[a] \in {L!After(listHead[q], b) : b \in 0 .. j - 1}
    <3>1. a \in 1 .. m /\ a - 1 \in 0 .. j - 1
      BY <1>3, <1>6
    <3> QED
      BY <3>1, <1>3
  <2> QED
    BY <2>1, <2>2
<1>10. {L!Before(listTail[q], b) : b \in 0 .. k - 1} = {s[a] : a \in to + 1 .. m}
  <2>1. ASSUME NEW b \in 0 .. k - 1
        PROVE  L!Before(listTail[q], b) \in {s[a] : a \in to + 1 .. m}
    <3>1. m - b \in 1 .. m /\ m - (m - b) = b /\ m - b \in to + 1 .. m
      BY <1>3, <1>6
    <3>2. L!Before(listTail[q], m - (m - b)) = s[m - b]
      BY <3>1, <1>3
    <3> QED
      BY <3>1, <3>2
  <2>2. ASSUME NEW a \in to + 1 .. m
        PROVE  s[a] \in {L!Before(listTail[q], b) : b \in 0 .. k - 1}
    <3>1. a \in 1 .. m /\ m - a \in 0 .. k - 1
      BY <1>3, <1>6
    <3> QED
      BY <3>1, <1>3
  <2> QED
    BY <2>1, <2>2
<1>11. {s[a] : a \in 1 .. from - 1} \cup {s[a] : a \in to + 1 .. m}
          = {s[a] : a \in 1 .. m \ (from .. to)}
  <2>1. \A a : a \in 1 .. from - 1 \/ a \in to + 1 .. m <=> a \in 1 .. m \ (from .. to)
    BY <1>3, <1>7
  <2> QED
    BY <2>1
<1>12. listAllocated'
          = listAllocated \ {ListLists[q][a] : a \in 1 .. Len(ListLists[q]) \ (from .. to)}
  <2>1. listAllocated'
           = listAllocated \ ({s[a] : a \in 1 .. from - 1} \cup {s[a] : a \in to + 1 .. m})
    BY <1>5, <1>9, <1>10
  <2>2. listAllocated' = listAllocated \ {s[a] : a \in 1 .. m \ (from .. to)}
    BY <2>1, <1>11
  <2> QED
    BY <2>2, <1>2
<1>13. L!Join(l, q, ListLists[q][from], ListLists[q][to], to - from + 1)
  BY <1>2, <1>5, <1>7, <1>8
<1>14. ListInv' /\ L!Abstract!Merge(l, q, from, to)
  BY <1>1, <1>2, <1>7, <1>12, <1>13, ListJoin
<1> QED
  BY <1>2, <1>7, <1>14

LEMMA ListStep ==
    ASSUME ListAddresses
    PROVE  ListInv /\ [L!Next]_(L!vars)
              => ListInv' /\ (L!Abstract!Next \/ UNCHANGED L!Abstract!vars)
<1> SUFFICES ASSUME ListInv, [L!Next]_(L!vars)
             PROVE  ListInv' /\ (L!Abstract!Next \/ UNCHANGED L!Abstract!vars)
  OBVIOUS
<1>1. CASE UNCHANGED L!vars
  <2>1. UNCHANGED <<listHead, listTail, listCount, listNext, listPrev, listAllocated>>
    BY <1>1 DEF L!vars, L!ends, L!links
  <2>2. Chained(ListLists, listHead', listTail', listCount', listNext', listPrev', listAllocated')
    BY <2>1 DEF ListInv
  <2>3. PICK S : S = ListLists
    OBVIOUS
  <2>4. ListLists' = S /\ ListInv'
    BY <2>2, <2>3, Settled
  <2>5. UNCHANGED L!Abstract!vars <=> ListLists' = ListLists /\ listAllocated' = listAllocated
    BY DEF L!Abstract!vars, ListLists
  <2> QED
    BY <2>1, <2>3, <2>4, <2>5
<1>2. CASE L!Next
  <2>1. PICK l \in TheLists :
           \/ \E x \in ListNodes : L!AddTail(l, x) \/ L!AddHead(l, x)
           \/ \E x \in L!Members(l) : L!Del(l, x)
           \/ L!Free(l)
           \/ \E q \in TheLists :
                 \/ L!Merge(l, q)
                 \/ \E start, end \in L!Members(q) : L!MergeN(l, q, start, end)
    BY <1>2 DEF L!Next
  <2>2. \A m \in TheLists : Len([k \in 1 .. listCount[m] |-> L!Nth(m, k)]) = Len(ListLists[m])
    BY DEF ListLists
  <2>3. CASE \E x \in ListNodes : L!AddTail(l, x) \/ L!AddHead(l, x)
    BY <2>3, ListAddTail, ListAddHead DEF L!Abstract!Next
  <2>4. CASE \E x \in L!Members(l) : L!Del(l, x)
    <3>1. ListInv' /\ \E p \in 1 .. Len(ListLists[l]) : L!Abstract!Del(l, p)
      BY <2>4, ListDel
    <3> QED
      BY <3>1 DEF L!Abstract!Next, ListLists
  <2>5. CASE L!Free(l)
    BY <2>5, ListFree DEF L!Abstract!Next
  <2>6. CASE \E q \in TheLists : \/ L!Merge(l, q)
                                \/ \E start, end \in L!Members(q) : L!MergeN(l, q, start, end)
    <3>1. PICK q \in TheLists : /\ ListInv'
                                /\ \E from, to \in 1 .. Len(ListLists[q]) :
                                      L!Abstract!Merge(l, q, from, to)
      BY <2>6, ListMerge, ListMergeN
    <3> QED
      BY <3>1 DEF L!Abstract!Next, ListLists
  <2> QED
    BY <2>1, <2>3, <2>4, <2>5, <2>6
<1> QED
  BY <1>1, <1>2

LEMMA ListBothWays ==
    ASSUME ListAddresses, ListInv
    PROVE  L!BothWays
<1>1. ASSUME NEW l \in TheLists
      PROVE  /\ (listHead[l] = 0) = (listCount[l] = 0) /\ (listTail[l] = 0) = (listCount[l] = 0)
             /\ listCount[l] > 0 =>
                   /\ listNext[listTail[l]] = 0 /\ listPrev[listHead[l]] = 0
                   /\ \A k \in 1 .. listCount[l] :
                         /\ L!After(listHead[l], k - 1) = L!Before(listTail[l], listCount[l] - k)
                         /\ L!Nth(l, k) \in listAllocated
  <2>1. PICK m : m = listCount[l]
    OBVIOUS
  <2>2. m \in Nat /\ m = Len(ListLists[l])
    BY <2>1, InList
  <2>3. CASE m = 0
    <3>1. listHead[l] = 0 /\ listTail[l] = 0
      BY <2>2, <2>3, InList
    <3> QED
      BY <3>1, <2>1, <2>3
  <2>4. CASE m # 0
    <3>1. m > 0 /\ 1 \in 1 .. m /\ m \in 1 .. m
      BY <2>2, <2>4
    <3>2. listHead[l] = ListLists[l][1] /\ listTail[l] = ListLists[l][m]
          /\ listPrev[listHead[l]] = 0 /\ listNext[listTail[l]] = 0
      BY <2>2, <3>1, InList
    <3>3. listHead[l] # 0 /\ listTail[l] # 0
      BY <2>2, <3>1, <3>2, InList DEF ListAddresses
    <3>4. ASSUME NEW k \in 1 .. m
          PROVE  /\ L!After(listHead[l], k - 1) = L!Before(listTail[l], m - k)
                 /\ L!Nth(l, k) \in listAllocated
      <4>1. L!After(listHead[l], k - 1) = L!Before(listTail[l], m - k)
        BY <2>2, InList
      <4>2. L!Nth(l, k) = ListLists[l][k]
        BY <2>1 DEF ListLists
      <4>3. ListLists[l][k] \in listAllocated
        BY <2>2, InList
      <4> QED
        BY <4>1, <4>2, <4>3
    <3> QED
      BY <3>2, <3>3, <3>4, <2>1, <2>4
  <2> QED
    BY <2>3, <2>4
<1> QED
  BY <1>1 DEF L!BothWays, L!NULL

LEMMA ListTypeOK ==
    ASSUME ListAddresses, ListInv
    PROVE  L!TypeOK
<1>1. ASSUME NEW l \in TheLists
      PROVE  listCount[l] \in 0 .. Cardinality(ListNodes)
  <2>1. PICK s, m : s = ListLists[l] /\ m = Len(s)
    OBVIOUS
  <2>2. m \in Nat /\ listCount[l] = m /\ (\A k \in 1 .. m : s[k] \in ListNodes)
        /\ \A k, j \in 1 .. m : s[k] = s[j] => k = j
    BY <2>1, InList
  <2> DEFINE T == {s[k] : k \in 1 .. m}
             f == [k \in 1 .. m |-> s[k]]
  <2>3. f \in Bijection(1 .. m, T)
    BY <2>2 DEF Bijection, Injection, Surjection, IsInjective
  <2>4. ExistsBijection(1 .. m, T)
    BY <2>3 DEF ExistsBijection
  <2>5. Cardinality(T) = m
    BY <2>2, <2>4, FS_CountingElements
  <2>6. T \subseteq ListNodes
    BY <2>2
  <2>7. Cardinality(T) <= Cardinality(ListNodes) /\ Cardinality(ListNodes) \in Nat
    BY <2>6, FS_Subset, FS_CardinalityType DEF ListAddresses
  <2> QED
    BY <2>2, <2>5, <2>7
<1>2. listCount \in [TheLists -> 0 .. Cardinality(ListNodes)]
  <2>1. listCount \in [TheLists -> Nat]
    BY DEF ListInv, Chained
  <2> QED
    BY <2>1, <1>1
<1>3. /\ listHead \in [TheLists -> ListNodes \cup {0}]
      /\ listTail \in [TheLists -> ListNodes \cup {0}]
      /\ listNext \in [ListNodes -> ListNodes \cup {0}]
      /\ listPrev \in [ListNodes -> ListNodes \cup {0}]
      /\ listAllocated \subseteq ListNodes
  BY DEF ListInv, Chained
<1>4. L!Cardinality(ListNodes) = Cardinality(ListNodes)
  BY DEF L!Cardinality, Cardinality
<1> QED
  BY <1>2, <1>3, <1>4 DEF L!TypeOK, L!NULL

\* Every list reads the same in both directions and is as long as its count says, the
\* nodes that lstDth finds are allocated, and no operation, neither a deletion nor a
\* merge, leaves a link that leads elsewhere (list.c:34-349): for any set of addresses.
THEOREM ListsBothWays ==
    ASSUME ListAddresses
    PROVE  L!Spec => [](L!TypeOK /\ L!BothWays)
<1>1. L!Init => ListInv
  BY ListFirst
<1>2. ListInv /\ [L!Next]_(L!vars) => ListInv'
  BY ListStep
<1>3. ListInv => L!TypeOK /\ L!BothWays
  BY ListTypeOK, ListBothWays
<1> QED
  BY <1>1, <1>2, <1>3, PTL DEF L!Spec

\* The links implement sequences: every operation does to the nodes, as lstDth finds
\* them, what it says, and frees the nodes it is to free and no other.
THEOREM ListImplementsSequences ==
    ASSUME ListAddresses
    PROVE  L!Spec => L!ImplementsLists
<1>1. L!Init => ListInv /\ L!Abstract!Init
  BY ListFirst
<1>2. ListInv /\ [L!Next]_(L!vars)
         => ListInv' /\ (L!Abstract!Next \/ UNCHANGED L!Abstract!vars)
  BY ListStep
<1>3. L!Spec => L!Abstract!Spec
  BY <1>1, <1>2, PTL DEF L!Spec, L!Abstract!Spec
<1> QED
  BY <1>3 DEF L!ImplementsLists
-----------------------------------------------------------------------------
(* All parts side by side.                                                *)

\* Side by side, every part behaves as it does alone.
LEMMA EachAlone ==
    /\ MCSpec => Spec /\ HttpSpec
    /\ MCSpec => K!Spec /\ B!Spec /\ R!Spec /\ H!Spec /\ N!Spec /\ L!Spec
    /\ MCSpec => RB!Spec /\ CT!Spec
<1>1. MCInit => /\ Init /\ HttpInit
                /\ K!Init /\ B!Init /\ R!Init /\ H!Init /\ N!Init /\ L!Init
                /\ RB!Init /\ CT!Init
  BY DEF MCInit
<1>2. [MCNext]_mcvars => [Next]_vars /\ [HttpNext]_httpVars
  BY DEF MCNext, mcvars
<1>3. [MCNext]_mcvars => [K!Next]_(K!vars) /\ [B!Next]_(B!vars) /\ [R!Next]_(R!vars)
  BY DEF MCNext, mcvars, kmpVars, K!vars, bufferVars, B!vars, ringVars, R!vars
<1>4. [MCNext]_mcvars => [H!Next]_(H!vars) /\ [N!Next]_(N!vars)
  BY DEF MCNext, mcvars, hashVars, H!vars, nodeVars, N!vars
<1>5. [MCNext]_mcvars => [L!Next]_(L!vars)
  BY DEF MCNext, mcvars, listVars, L!vars, L!ends, L!links
<1>6. [MCNext]_mcvars => [RB!Next]_(RB!vars) /\ [CT!Next]_(CT!vars)
  BY DEF MCNext, mcvars, treeVars, RB!vars, clockVars, CT!vars
<1> QED
  BY <1>1, <1>2, <1>3, <1>4, <1>5, <1>6, PTL
     DEF MCSpec, Spec, HttpSpec, K!Spec, B!Spec, R!Spec, H!Spec, N!Spec, L!Spec,
         RB!Spec, CT!Spec

\* kmp's prefix table is right and it finds the first occurrence; getProcess finds the
\* service of the path in its own table.
THEOREM LookupsAreRight == MCSpec => []LookupsRight
<1>1. NodeMaxPath \in Nat
  BY LibraryTablesAssumption
<1>2. K!Spec => [](K!PrefixTable /\ K!FirstOccurrence)
  BY SearchIsRight
<1>3. N!Spec => []N!OwnProcess
  BY <1>1, OwnProcessAlways
<1>4. K!PrefixTable /\ K!FirstOccurrence /\ N!OwnProcess => LookupsRight
  BY DEF LookupsRight
<1> QED
  BY <1>2, <1>3, <1>4, EachAlone, PTL

\* Every part that stands alone keeps its data consistent in every state, up to its first
\* undefined access, at which the part stops: of the ring buffer the first piece longer
\* than the whole buffer, of the hash table those that hashBroken stands for.
THEOREM StructuresAreSound == MCSpec => []StructuresSound
<1>1. Spec => [](TypeOK /\ RefExact /\ HeapOrder)
  BY TimerConsistent, HeapTimerAssumption
<1>2. L!Spec => [](L!TypeOK /\ L!BothWays)
  BY ListsBothWays, LibraryTablesAssumption
<1>3. RB!Spec => [](RB!TypeOK /\ RB!ParentLinks /\ RB!Walks /\ RB!RedBlack)
  BY TreeConsistent, LibraryTreesAssumption
<1>4. B!Spec => []B!TypeOK
  BY BufferImplementsStream, LibraryBytesAssumption
<1>5. R!Spec => []R!TypeOK
  BY RingImplementsLossyStream, LibraryBytesAssumption
<1>6. H!Spec => [](H!TypeOK /\ H!OneNodePerKey)
  BY OneNodeAlways, LibraryTablesAssumption
<1>7. CT!Spec => []CT!HeapOrder
  BY ClockHeapOrder, LibraryTreesAssumption
<1>8. HttpSpec => []HttpTypeOK
  BY TypeCorrect
<1>9. /\ TypeOK /\ RefExact /\ HeapOrder
      /\ L!TypeOK /\ L!BothWays
      /\ RB!TypeOK /\ RB!ParentLinks /\ RB!Walks /\ RB!RedBlack
      /\ B!TypeOK /\ R!TypeOK
      /\ H!TypeOK /\ H!OneNodePerKey
      /\ CT!HeapOrder /\ HttpTypeOK
      => StructuresSound
  BY DEF StructuresSound
<1> QED
  BY <1>1, <1>2, <1>3, <1>4, <1>5, <1>6, <1>7, <1>8, <1>9, EachAlone, PTL

\* The structures of the library implement, up to their first undefined access: sequences,
\* a set, a map but for a hashClear that leaves bucket 0, a timer while its map of ids
\* tells the truth, and the streams of bytes; the ring buffer its stream only up to the
\* first piece longer than the whole buffer.
THEOREM LibraryIsImplemented == MCSpec => ImplementsLibrary
<1>1. L!Spec => L!Abstract!Init /\ [][L!Abstract!Next]_(L!Abstract!vars)
  BY ListImplementsSequences, LibraryTablesAssumption DEF L!ImplementsLists, L!Abstract!Spec
<1>2. RB!Spec => RB!Abstract!Init /\ [][RB!Abstract!Next]_(RB!In)
  BY TreeImplementsSet, LibraryTreesAssumption DEF RB!ImplementsSet, RB!Abstract!Spec
<1>3. B!Spec => B!Abstract!Init /\ [][B!Abstract!Next]_(B!Abstract!vars)
  BY BufferImplementsStream, LibraryBytesAssumption DEF B!ImplementsStream, B!Abstract!Spec
<1>4. R!Spec => R!Abstract!Init /\ [][R!Abstract!Next]_(R!Abstract!vars)
  BY RingImplementsLossyStream, LibraryBytesAssumption
     DEF R!ImplementsLossyStream, R!Abstract!Spec
<1>5. H!Spec => /\ H!Abstract!Init /\ [][H!Abstract!Next \/ H!ClearsInPart]_(H!Map)
                /\ [][H!Finds]_(H!vars)
  BY HashImplementsDictionary, LibraryTablesAssumption DEF H!ImplementsDictionary
<1>6. CT!Spec => /\ CT!Abstract!Init
                 /\ [][sound' => CT!Abstract!Next]_<<CT!Abstract!vars, sound>>
  BY ClockImplementsTimer, LibraryTreesAssumption DEF CT!ImplementsTimer
<1> DEFINE Promised ==
              /\ which = "list"   => [L!Abstract!Next]_(L!Abstract!vars)
              /\ which = "tree"   => [RB!Abstract!Next]_(RB!In)
              /\ which = "buffer" => [B!Abstract!Next]_(B!Abstract!vars)
              /\ which = "ring"   => [R!Abstract!Next]_(R!Abstract!vars)
              /\ which = "hash"   => [H!Abstract!Next \/ H!ClearsInPart]_(H!Map) /\ H!Finds
              /\ which = "clock" /\ sound' => [CT!Abstract!Next]_(CT!Abstract!vars)
<1>7. ASSUME [MCNext]_mcvars, UNCHANGED H!vars, which = "hash"
      PROVE  UNCHANGED mcvars
  BY <1>7 DEF MCNext, mcvars, H!vars, hashVars
<1>8. /\ [MCNext]_mcvars
      /\ [L!Abstract!Next]_(L!Abstract!vars) /\ [RB!Abstract!Next]_(RB!In)
      /\ [B!Abstract!Next]_(B!Abstract!vars) /\ [R!Abstract!Next]_(R!Abstract!vars)
      /\ [H!Abstract!Next \/ H!ClearsInPart]_(H!Map) /\ [H!Finds]_(H!vars)
      /\ [sound' => CT!Abstract!Next]_<<CT!Abstract!vars, sound>>
      => [Promised]_mcvars
  BY <1>7
<1> HIDE DEF Promised
<1>9. /\ L!Abstract!Init /\ RB!Abstract!Init /\ B!Abstract!Init /\ R!Abstract!Init
      /\ H!Abstract!Init /\ CT!Abstract!Init
      /\ [][Promised]_mcvars
      => ImplementsLibrary
  BY DEF ImplementsLibrary, Promised
<1> QED
  BY <1>1, <1>2, <1>3, <1>4, <1>5, <1>6, <1>8, <1>9, EachAlone, PTL DEF MCSpec
=============================================================================
