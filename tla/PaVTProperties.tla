--------------------------- MODULE PaVTProperties ---------------------------
(* What the tree of PaVT.tla must satisfy, whoever calls it. *)
EXTENDS PaVT

\* Every variable keeps its type.
TypeOK ==
    /\ link \in [Field -> [Ptr -> Ptr]]
    /\ marked \in [Ptr -> BOOLEAN]
    /\ alloc \subseteq Node
    /\ held \in [Thread -> SUBSET Ptr]
    /\ leaked \in [Thread -> SUBSET Ptr]
    /\ pc \in [Thread -> Location]
    /\ op \in [Thread -> S!Op \cup {NoOp}]
    /\ reg \in [Thread -> Locals]
    /\ todo \in [Thread -> Seq(Store)]
    /\ result \in [Thread -> S!Answer \cup {"none"}]

-----------------------------------------------------------------------------
(* Locks *)

\* The nodes whose mutex an operation holds at location l with the local
\* variables r, as main.cpp acquires them on the way there.
LockedAt(l, r) ==
    LET at(locations, nodes) == IF l \in locations THEN nodes ELSE {}
        succLocked == {"lockSuccRight", "lockSuccRightSnapshot", "applyRemove"}
        succParentLocked == {"recheckSucc", "lockSucc"} \cup succLocked
        predLocked == {"promoteRight", "readSuccParent", "lockSuccParent"} \cup succParentLocked
        twoLocked == {"lockRightNode"} \cup predLocked
        neighbours == {"readPred", "readSucc"}
        oneLocked == {"lockSnapshot", "unlinkOneChild"}
        nodeLocked == {"lockLeft", "lockRight", "lockChild", "unlinkLeaf"}
                      \cup neighbours \cup oneLocked \cup twoLocked
    IN  UNION { at({"addSnapshot"} \cup nodeLocked, {r.node}),
                at({"recheck", "lockNode"} \cup nodeLocked, {r.parent}),
                at({"lockRight"} \cup twoLocked, {r.left}),
                at(twoLocked, {r.right}),
                at(IF NULL \in {r.left, r.right} THEN {} ELSE neighbours, {r.left, r.right}),
                at(oneLocked, {OnlyChild(r)}),
                at({"unlinkOneChild"}, {SnapshotToLock(r)}),
                at(predLocked, {r.rightNode}),
                at(succParentLocked, {r.succParent}),
                at(succLocked, {r.leftNode}),
                at(succLocked \ {"lockSuccRight"}, {r.succRight} \ {NULL}) }

\* Where an operation holds no lock of its own.
LockFree == {"idle", "walk", "miss", "addLock", "lockParent"}

\* A mutex has one owner, what an operation reads and writes in its critical
\* section is locked by it, and an idle thread owns only what it leaked.
LocksHeld ==
    /\ \A t, u \in Thread : t # u => held[t] \cap held[u] = {}
    /\ \A t \in Thread : LockedAt(pc[t], reg[t]) \cup leaked[t] \subseteq held[t]
    /\ \A t \in Thread : pc[t] \in LockFree => held[t] = leaked[t]

\* The pointers that a node's own mutex protects.
TreeField == {"left", "right", "parent"}

\* The stores still to be made to a tree pointer are to nodes the thread has
\* locked.
StoresLocked ==
    \A t \in Thread : \A i \in DOMAIN todo[t] :
        todo[t][i].f \in TreeField => todo[t][i].n \in held[t]

\* LocksHeld and StoresLocked, with what makes them inductive: a thread that
\* releases its locks has no store left to make.
LockInv ==
    /\ LocksHeld
    /\ StoresLocked
    /\ \A t \in Thread : pc[t] # "store" => todo[t] = << >>

GuardedWrite ==
    \A n \in alloc :
       (marked'[n] # marked[n] \/ \E f \in TreeField : link'[f][n] # link[f][n])
          => \E t \in Thread : n \in held[t] /\ <<pc'[t], todo'[t]>> # <<pc[t], todo[t]>>

\* No step rewrites a tree pointer or the mark of a constructed node unless
\* the thread making the step owns that node's mutex: every reader that holds
\* it (main.cpp:139, 263-265, 344, 394) sees them stand still.
GuardedWrites == [][GuardedWrite]_vars

\* The mutex an operation is about to lock.
Wants(t) ==
    LET r == reg[t]
    IN  CASE pc[t] = "addLock"               -> {r.node}
          [] pc[t] = "lockParent"            -> {r.parent}
          [] pc[t] = "lockNode"              -> {r.node}
          [] pc[t] = "lockChild"             -> {OnlyChild(r)}
          [] pc[t] = "lockSnapshot"          -> {SnapshotToLock(r)}
          [] pc[t] = "lockLeft"              -> {r.left}
          [] pc[t] = "lockRight"             -> {r.right}
          [] pc[t] = "lockRightNode"         -> {r.rightNode}
          [] pc[t] = "lockSuccParent"        -> {r.succParent}
          [] pc[t] = "lockSucc"              -> {r.leftNode}
          [] pc[t] = "lockSuccRight"         -> {Right(r.leftNode)} \ {NULL}
          [] pc[t] = "lockSuccRightSnapshot" -> {r.succRightSnapshot}
          [] OTHER                           -> {}

\* No operation dereferences a null pointer: neither the one it is about to
\* lock or walk through, nor one it will store through.
NoNullDereference ==
    \A t \in Thread :
        /\ NULL \notin Wants(t)
        /\ pc[t] # "idle" => reg[t].node # NULL
        /\ pc[t] = "miss" => Snapshot(reg[t].node, op[t].key) # NULL
        /\ pc[t] = "readSuccParent" => reg[t].leftNode # NULL
        /\ \A i \in DOMAIN todo[t] : todo[t][i].n # NULL

-----------------------------------------------------------------------------
(* Pending stores *)

PendingStores(t) == {todo[t][i] : i \in DOMAIN todo[t]}

\* Two threads never have stores to one location pending: the snapshots have
\* no lock of their own, and only the locks and tests taken for the tree
\* pointers (main.cpp:144, 294, 330, 378, 402) keep their writers apart.
NoStoreRace ==
    \A t, u \in Thread : t # u =>
        \A s \in PendingStores(t), w \in PendingStores(u) : <<s.f, s.n>> # <<w.f, w.n>>

\* No store links a removed node back in or hangs a node under a removed one.
NoDeadTarget ==
    \A t \in Thread : \A s \in PendingStores(t) : ~marked[s.n] /\ ~marked[s.v]

\* What remove read in unlocked moments is still true when it marks the node:
\* the position of the node and of its successor, and both neighbours.
FreshWhenMarking ==
    \A t \in Thread :
        LET r == reg[t]
            n == r.node
            s == r.leftNode
        IN  /\ pc[t] \in {"unlinkLeaf", "unlinkOneChild", "promoteRight", "applyRemove"} =>
                 /\ ~marked[n] /\ ~marked[r.parent]
                 /\ Parent(n) = r.parent /\ Left(n) = r.left /\ Right(n) = r.right
                 /\ link[IF r.leftChild THEN "left" ELSE "right"][r.parent] = n
                 /\ LeftSnapshot(n) = r.rightNode /\ RightSnapshot(r.rightNode) = n
                 /\ RightSnapshot(n) = s /\ LeftSnapshot(s) = n
            /\ pc[t] = "applyRemove" =>
                 /\ Parent(s) = r.succParent /\ Left(s) = NULL /\ Right(s) = r.succRight
                 /\ RightSnapshot(s) = r.succRightSnapshot
                 /\ Left(r.succParent) = s

\* A key has at most one unmarked node, counting those being published.
NoDuplicate ==
    \A n, m \in alloc : n # m /\ ~marked[n] /\ ~marked[m] => value[n] # value[m]

-----------------------------------------------------------------------------
(* The shape of the tree between updates *)

Settled == \A t \in Thread : todo[t] = << >>

Live == {n \in alloc : ~marked[n]}

\* Where the search for key k ends: its node, or NULL.
Find(k) ==
    LET descend(n) == IF n = NULL \/ value[n] = k THEN n ELSE Child(n, k)
        at[i \in 0 .. Cardinality(Node)] == IF i = 0 THEN root ELSE descend(at[i-1])
    IN  at[Cardinality(Node)]

\* Children are live and point back.
ChildrenPointBack ==
    \A n \in Live : \A c \in {Left(n), Right(n)} \ {NULL} : c \in Live /\ Parent(c) = n

\* They do, and a search finds every live node.
TreeShape ==
    /\ ChildrenPointBack
    /\ \A n \in Live \ {rightSentinel} : Find(value[n]) = n

\* The snapshots link each live node to the next one in key order, both ways.
SnapshotShape ==
    \A a, b \in Live :
        value[a] < value[b] /\ (\A c \in Live : ~(value[a] < value[c] /\ value[c] < value[b]))
           => RightSnapshot(a) = b /\ LeftSnapshot(b) = a

\* Seen as a set of keys, the tree does what KeySet.tla says: the key is in
\* from the moment add has made its node until remove marks it, a call makes
\* at most one of these changes and answers whether it did.
Keys(nodes) == {value[n] : n \in nodes \ {leftSentinel, rightSentinel}}

K == INSTANCE KeySet WITH set <- Keys(Live),
                          call <- op,
                          took <- [t \in Thread |-> pc[t] = "store"],
                          answer <- result

ImplementsKeySet == K!Spec

\* Whenever no update is half done, tree and snapshots agree with the set of
\* unmarked nodes.
Consistent == Settled => TreeShape /\ SnapshotShape
=============================================================================
