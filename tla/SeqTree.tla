------------------------------ MODULE SeqTree ------------------------------
(***************************************************************************)
(* The sequential tree of bench/main-2.cpp, from which the transactional   *)
(* one was made: insert, remove and destroy_tree, called by one thread.    *)
(* A call is one step.                                                     *)
(***************************************************************************)
EXTENDS Integers, Sequences, FiniteSets

CONSTANTS Key, Node, NULL

ASSUME SeqTreeAssumption == Key \subseteq Int /\ NULL \notin Node

VARIABLES
    root,  \* pointer to the root node
    node,  \* node[n]: the fields of node n
    freed  \* the nodes deleted by destroy_tree, in order; << >> before

vars == <<root, node, freed>>

Ptr == Node \cup {NULL}

\* Memory that no call has looked at holds anything.
Init ==
    /\ root = NULL
    /\ node = [n \in Node |-> [key |-> CHOOSE k \in Key : TRUE, left |-> NULL, right |-> NULL]]
    /\ freed = << >>

-----------------------------------------------------------------------------
(* The shape of the tree *)

\* The nodes below n, left to right.  No path is longer than there are nodes:
\* order[i][m] goes i nodes deep below m, and so do the functions below.
InOrderFrom(n) ==
    LET order[i \in 0 .. Cardinality(Node)] ==
            [m \in Ptr |->
                IF m = NULL \/ i = 0 THEN << >>
                ELSE order[i - 1][node[m].left] \o <<m>> \o order[i - 1][node[m].right]]
    IN  order[Cardinality(Node)][n]

InOrder  == InOrderFrom(root)
Tree     == {InOrder[i] : i \in DOMAIN InOrder}
Contents == {node[n].key : n \in Tree}

\* The child of n on the way to key k.
Side(n, k) == IF k < node[n].key THEN "left" ELSE "right"

\* The way from the root to key k, or to where it would be.
PathTo(k) ==
    LET path[i \in 0 .. Cardinality(Node)] ==
            [n \in Ptr |->
                IF n = NULL \/ i = 0 THEN << >>
                ELSE IF node[n].key = k THEN <<n>>
                ELSE <<n>> \o path[i - 1][node[n][Side(n, k)]]]
    IN  path[Cardinality(Node)][root]

EndOf(path) == path[Len(path)]

\* Does the search for k end at k?
Has(k) == root # NULL /\ node[EndOf(PathTo(k))].key = k

-----------------------------------------------------------------------------
(* insert *)

NewNode(n, k) == [node EXCEPT ![n] = [key |-> k, left |-> NULL, right |-> NULL]]

\* A node that was taken out is not freed, but nothing refers to it any more.
Insert(k) ==
    LET path == PathTo(k)
        leaf == EndOf(path)
        n    == CHOOSE m \in Node \ Tree : TRUE
    IN  /\ freed = << >>
        /\ IF Has(k) THEN UNCHANGED <<root, node>>
           ELSE /\ Node \ Tree # {}
                /\ IF root = NULL
                   THEN root' = n /\ node' = NewNode(n, k)
                   ELSE /\ node' = [NewNode(n, k) EXCEPT ![leaf][Side(leaf, k)] = n]
                        /\ UNCHANGED root
        /\ UNCHANGED freed

-----------------------------------------------------------------------------
(* remove *)

\* Down the left children of n; n's successor's parent, or n's right child, first.
LeftmostPath(n) ==
    LET down[i \in 0 .. Cardinality(Node)] ==
            [m \in Ptr |->
                IF m = NULL \/ i = 0 THEN << >> ELSE <<m>> \o down[i - 1][node[m].left]]
    IN  down[Cardinality(Node)][n]

\* Mutant: the successor's right child is lost.
RemovedShort(leaf) ==
    LET left  == node[leaf].left
        right == node[leaf].right
        down  == LeftmostPath(right)
        child == EndOf(down)
        moved == [node EXCEPT ![leaf].key = node[child].key]
    IN  IF left = NULL THEN [up |-> right, node |-> node]
        ELSE IF right = NULL THEN [up |-> left, node |-> node]
        ELSE IF Len(down) = 1
             THEN [up |-> leaf, node |-> [moved EXCEPT ![leaf].right = NULL]]
             ELSE [up   |-> leaf,
                   node |-> [moved EXCEPT ![down[Len(down) - 1]].left = NULL]]

\* What remove(key, leaf) returns to the caller that set leaf, when leaf has the key,
\* and the nodes it leaves.
Removed(leaf) ==
    LET left  == node[leaf].left
        right == node[leaf].right
        down  == LeftmostPath(right)
        child == EndOf(down)
        moved == [node EXCEPT ![leaf].key = node[child].key]
    IN  IF left = NULL /\ right = NULL THEN [up |-> NULL, node |-> node]
        ELSE IF left = NULL            THEN [up |-> right, node |-> node]
        ELSE IF right = NULL           THEN [up |-> left, node |-> node]
        ELSE IF Len(down) = 1
             THEN [up |-> leaf, node |-> [moved EXCEPT ![leaf].right = node[right].right]]
             ELSE [up   |-> leaf,
                   node |-> [moved EXCEPT ![down[Len(down) - 1]].left = node[child].right]]

\* Every node on the way is linked again to what the call below returned; what the
\* first call returned is dropped.
Remove(k) ==
    LET path == PathTo(k)
        leaf == EndOf(path)
        out  == Removed(leaf)
    IN  /\ freed = << >>
        /\ IF Has(k)
           THEN node' = IF Len(path) = 1 THEN out.node
                        ELSE LET up == path[Len(path) - 1]
                             IN  [out.node EXCEPT ![up][Side(up, k)] = out.up]
           ELSE UNCHANGED node
        /\ UNCHANGED <<root, freed>>

-----------------------------------------------------------------------------
\* Children first.  root still points to the node that was the root.
DestroyTree ==
    LET post[i \in 0 .. Cardinality(Node)] ==
            [m \in Ptr |->
                IF m = NULL \/ i = 0 THEN << >>
                ELSE post[i - 1][node[m].left] \o post[i - 1][node[m].right] \o <<m>>]
    IN  /\ freed = << >>
        /\ freed' = post[Cardinality(Node)][root]
        /\ UNCHANGED <<root, node>>

\* The program ends after destroy_tree.
Ended == freed # << >> /\ UNCHANGED vars

Next == (\E k \in Key : Insert(k) \/ Remove(k)) \/ DestroyTree \/ Ended

Spec == Init /\ [][Next]_vars

-----------------------------------------------------------------------------
\* A search finds every key of the tree, and every key is there once.
SearchTree ==
    \A i \in 1 .. Len(InOrder) - 1 : node[InOrder[i]].key < node[InOrder[i + 1]].key

HasTwo(n) == node[n].left # NULL /\ node[n].right # NULL

\* insert adds its key and nothing else.  remove takes its key out and nothing else,
\* below the root and where the root is kept for its two children
\* (main-2.cpp:97-121); a root with fewer is another matter, see the README.
CallsChangeOneKey ==
    [][\A k \in Key :
          /\ Insert(k) => Contents' = Contents \cup {k}
          /\ Remove(k) /\ root # NULL /\ (node[root].key = k => HasTwo(root))
                 => Contents' = Contents \ {k}]_vars
=============================================================================
