---------------------------- MODULE MC_Components ----------------------------
(***************************************************************************)
(* The parts that stand alone, side by side: the data structures and the   *)
(* searches of the C library, the buffers and the timer of the web server, *)
(* and the requests of its clients.  Which of them a behaviour uses is     *)
(* chosen at the start, and the others stay as they are.                   *)
(***************************************************************************)
EXTENDS HeapTimer, HttpRequest, LibraryBytes, LibraryTables, LibraryTrees

VARIABLE which

listVars == <<listHead, listTail, listCount, listNext, listPrev, listAllocated>>
treeVars == <<rbTree, rbPc, rbNode, rbParent>>
bufferVars == <<bytes, bytesSize, bytesRead, bytesWritten, bytesFed>>
ringVars == <<ring, ringRead, ringWritten, ringFed, ringBroken>>
hashVars == <<hashBucket, hashBroken>>
clockVars == <<array, arraySize, gs_ref, clock, clockTicks, sound>>
kmpVars  == <<kmpText, kmpPattern, kmpPc, kmpI, kmpJ, kmpK, kmpNext, kmpResult>>
nodeVars == <<nodePath, nodeToken, nodeTable, nodeEntry, nodeStrayed, nodeResult>>
mcvars ==
    <<which, vars, listVars, treeVars, bufferVars, ringVars, hashVars, clockVars,
      kmpVars, nodeVars, httpVars>>

\* What a part that is not used looks at stays the same.
MCInit ==
    /\ which \in {"timer", "list", "tree", "buffer", "ring", "hash", "clock", "kmp",
                  "nodes", "http"}
    /\ Init /\ L!Init /\ RB!Init /\ B!Init /\ R!Init /\ H!Init /\ CT!Init
    /\ which # "kmp" => kmpText = << >> /\ kmpPattern = << >>
    /\ K!Init
    /\ which # "nodes" => nodePath = << >>
    /\ N!Init
    /\ which # "http" => build = "memory"
    /\ HttpInit

\* Every part but the given one stays as it is.
MCNext ==
    /\ UNCHANGED which
    /\ IF which = "timer" THEN Next ELSE UNCHANGED vars
    /\ IF which = "list" THEN L!Next ELSE UNCHANGED listVars
    /\ IF which = "tree" THEN RB!Next ELSE UNCHANGED treeVars
    /\ IF which = "buffer" THEN B!Next ELSE UNCHANGED bufferVars
    /\ IF which = "ring" THEN R!Next ELSE UNCHANGED ringVars
    /\ IF which = "hash" THEN H!Next ELSE UNCHANGED hashVars
    /\ IF which = "clock" THEN CT!Next ELSE UNCHANGED clockVars
    /\ IF which = "kmp" THEN K!Next ELSE UNCHANGED kmpVars
    /\ IF which = "nodes" THEN N!Next ELSE UNCHANGED nodeVars
    /\ IF which = "http" THEN HttpNext ELSE UNCHANGED httpVars

MCSpec == MCInit /\ [][MCNext]_mcvars
-----------------------------------------------------------------------------
(* What the clients of the web server ask.                                 *)

Get(p, keep) ==
    [method |-> "GET", path |-> p, keep |-> keep, name |-> "", password |-> "", ended |-> FALSE]

Post(p, password, ended) ==
    [method |-> "POST", path |-> p, keep |-> TRUE, name |-> "ann", password |-> password,
     ended |-> ended]

\* Two clients register the same name, once without a password, and one of them
\* logs in; a body of the second does not end with CRLF.
MCRequests == <<
    {Get(<<"", FALSE>>, TRUE), Get(<<"key", FALSE>>, FALSE),
     Post(<<"register", FALSE>>, "one", TRUE), Post(<<"register", FALSE>>, "", TRUE)},
    {Post(<<"register", FALSE>>, "two", FALSE), Post(<<"login", TRUE>>, "one", TRUE)}>>

MCServed == {<<name, TRUE>> :
    name \in {"index", "register", "login", "welcome", "error", "404", "403", "400"}}

\* A key of each bucket, one more, and one whose bytes are negative chars.
MCHashKeys == {1, 2, 3, -3}

MCHidden == {<<"key", FALSE>>}
MCUserLines == <<<<"bob", "one">>, <<"bob", "two">>>>
MCCuts == <<{3, 6, 8, 15}, {}>>
MCAsked == <<2, 1>>
-----------------------------------------------------------------------------
\* What holds of each part in every state: the types and the orders of both
\* timers and their maps, the list both ways, the links, the walk and the
\* colours of the tree, the chains of the hash table, the types of the requests.
StructuresSound ==
    /\ which = "timer"  => TypeOK /\ RefExact /\ HeapOrder
    /\ which = "list"   => L!TypeOK /\ L!BothWays
    /\ which = "tree"   => RB!TypeOK /\ RB!ParentLinks /\ RB!Walks /\ RB!RedBlack
    /\ which = "buffer" => B!TypeOK
    /\ which = "ring"   => R!TypeOK
    /\ which = "hash"   => H!TypeOK /\ H!OneNodePerKey
    /\ which = "clock"  => CT!HeapOrder
    /\ which = "http"   => HttpTypeOK

\* kmp finds the first occurrence, with a right prefix table (string.c:44); and
\* getProcess finds the service of the path, of its own table (node_tree.c:90).
LookupsRight ==
    /\ which = "kmp"   => K!PrefixTable /\ K!FirstOccurrence
    /\ which = "nodes" => N!OwnProcess

\* Each structure of the library implements what it promises: list.c sequences of
\* nodes, rbtree.c a set, hashTable.c a map but for a clear that leaves bucket 0,
\* heapTimer.c a timer while its map of ids tells the truth, and both buffers give
\* back what was put in, in order, the one of fixed size without the oldest bytes it
\* had no room for.  After an undefined access the part has stopped.
ImplementsLibrary ==
    /\ L!Abstract!Init /\ RB!Abstract!Init /\ B!Abstract!Init /\ R!Abstract!Init
    /\ H!Abstract!Init /\ CT!Abstract!Init
    /\ [][/\ which = "list"   => [L!Abstract!Next]_(L!Abstract!vars)
          /\ which = "tree"   => [RB!Abstract!Next]_(RB!In)
          /\ which = "buffer" => [B!Abstract!Next]_(B!Abstract!vars)
          /\ which = "ring"   => [R!Abstract!Next]_(R!Abstract!vars)
          /\ which = "hash"   => [H!Abstract!Next \/ H!ClearsInPart]_(H!Map) /\ H!Finds
          /\ which = "clock" /\ sound' => [CT!Abstract!Next]_(CT!Abstract!vars)]_mcvars

\* After hashClear no key is found (comment, hashTable.c:102: it clears all elements of
\* the table, like clear of an unordered map).
ClearForgetsAll ==
    [][which = "hash" /\ H!hashClear /\ ~hashBroken'
           => \A key \in HashKeys : H!Value(key)' = H!NULL]_mcvars
=============================================================================
