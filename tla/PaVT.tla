-------------------------------- MODULE PaVT --------------------------------
(***************************************************************************)
(* The lock-based binary search tree of src/paper-version/main.cpp.        *)
(*                                                                         *)
(* Every node has child and parent pointers (the tree) and a pointer to    *)
(* its neighbour in key order on each side (the snapshots).  Searches take *)
(* no lock; add locks one node; remove locks every node whose tree         *)
(* pointers it rewrites.  The snapshots have no lock of their own: they    *)
(* are read and written under whatever node locks the operation holds.     *)
(*                                                                         *)
(* A step of a thread makes at most one access to a location that none of  *)
(* the locks it holds protects, so a lock acquisition and the reads it     *)
(* protects are one step, and so are the releases at the end of an         *)
(* operation.  GuardedWrites, checked below, is what makes that sound.     *)
(***************************************************************************)
EXTENDS Integers, Sequences, FiniteSets

CONSTANTS
    Thread,         \* the worker threads
    Key,            \* the values the callers pass
    Node,           \* the PaVTNode objects, each with the value it is built with
    value,          \* PaVTNode::value, never assigned after construction
    leftSentinel,   \* the root: the greatest value
    rightSentinel,  \* the parent of the root: the least value
    NULL

ASSUME NodeAssumption ==
    /\ Key \subseteq Int
    /\ value \in [Node -> Int]
    /\ NULL \notin Node
    /\ {leftSentinel, rightSentinel} \subseteq Node
    /\ value[rightSentinel] < value[leftSentinel]
    /\ \A k \in Key : value[rightSentinel] < k /\ k < value[leftSentinel]

S == INSTANCE OrderedSet

root == leftSentinel

Field == {"left", "right", "parent", "leftSnapshot", "rightSnapshot"}
Ptr   == Node \cup {NULL}
Store == [f : Field, n : Ptr, v : Ptr]

\* The local variables of add, remove and contains.
Locals == [node : Ptr, parent : Ptr, left : Ptr, right : Ptr,
           leftNode : Ptr, rightNode : Ptr, succParent : Ptr,
           succRight : Ptr, succRightSnapshot : Ptr, leftChild : BOOLEAN]

Location ==
    {"idle", "walk", "miss", "addLock", "addSnapshot",
     "lockParent", "recheck", "lockNode", "readPred", "readSucc",
     "lockLeft", "lockRight", "lockChild", "lockSnapshot", "lockRightNode",
     "readSuccParent", "lockSuccParent", "recheckSucc", "lockSucc",
     "lockSuccRight", "lockSuccRightSnapshot",
     "unlinkLeaf", "unlinkOneChild", "promoteRight", "applyRemove", "store"}

VARIABLES
    link,    \* link[f][n]: pointer field f of node n
    marked,  \* marked[n]: n is logically deleted
    alloc,   \* the nodes constructed so far; none is ever freed
    held,    \* held[t]: the nodes whose mutex t owns (the mutexes are recursive)
    leaked,  \* leaked[t]: those of them no code is left to unlock
    pc,      \* pc[t]: where t is in its operation
    op,      \* op[t]: the call in progress
    reg,     \* reg[t]: the local variables of that call
    todo,    \* todo[t]: the stores t has still to make, in order
    result   \* result[t]: what the last call of t returned

heap == <<link, marked, alloc>>
vars == <<link, marked, alloc, held, leaked, pc, op, reg, todo, result>>

Left(n)          == link["left"][n]
Right(n)         == link["right"][n]
Parent(n)        == link["parent"][n]
LeftSnapshot(n)  == link["leftSnapshot"][n]
RightSnapshot(n) == link["rightSnapshot"][n]

NoOp == [type |-> "none", key |-> 0]

Blank ==
    [node |-> NULL, parent |-> NULL, left |-> NULL, right |-> NULL,
     leftNode |-> NULL, rightNode |-> NULL, succParent |-> NULL,
     succRight |-> NULL, succRightSnapshot |-> NULL, leftChild |-> FALSE]

AtRoot == [Blank EXCEPT !.node = root]

-----------------------------------------------------------------------------
\* The PaVTBST constructor: two linked sentinels.
Init ==
    /\ link = [f \in Field |-> [n \in Ptr |->
                 CASE n = leftSentinel /\ f \in {"parent", "leftSnapshot"} -> rightSentinel
                   [] n = rightSentinel /\ f \in {"right", "rightSnapshot"} -> leftSentinel
                   [] OTHER -> NULL]]
    /\ marked = [n \in Ptr |-> FALSE]
    /\ alloc = {leftSentinel, rightSentinel}
    /\ held = [t \in Thread |-> {}]
    /\ leaked = [t \in Thread |-> {}]
    /\ pc = [t \in Thread |-> "idle"]
    /\ op = [t \in Thread |-> NoOp]
    /\ reg = [t \in Thread |-> Blank]
    /\ todo = [t \in Thread |-> << >>]
    /\ result = [t \in Thread |-> "none"]

-----------------------------------------------------------------------------
Goto(t, l) == pc' = [pc EXCEPT ![t] = l]

\* Mutant of Free: the mutex excludes nobody.
FreeAlways(t, n) == TRUE

\* Thread t can own the mutex of n: no other thread does.
Free(t, n) == \A u \in Thread \ {t} : n \notin held[u]

Acquire(t, n) == held' = [held EXCEPT ![t] = @ \cup {n}]

\* Mutants of Retry: the locks are kept; the search does not go back to the root.
RetryLocked(t) ==
    Goto(t, "walk") /\ reg' = [reg EXCEPT ![t] = AtRoot] /\ UNCHANGED <<held, op, result>>
RetryInPlace(t) ==
    Goto(t, "walk") /\ held' = [held EXCEPT ![t] = leaked[t]] /\ UNCHANGED <<reg, op, result>>

\* `continue` of the outer loop, every lock of this attempt released.
Retry(t) ==
    /\ Goto(t, "walk")
    /\ reg' = [reg EXCEPT ![t] = AtRoot]
    /\ held' = [held EXCEPT ![t] = leaked[t]]
    /\ UNCHANGED <<op, result>>

\* Mutant of Return: the wrong variable is returned.
ReturnType(t, answer, kept) ==
    /\ Goto(t, "idle")
    /\ op' = [op EXCEPT ![t] = NoOp]
    /\ reg' = [reg EXCEPT ![t] = Blank]
    /\ result' = [result EXCEPT ![t] = op[t].type]
    /\ held' = [held EXCEPT ![t] = kept]

\* `return`: t is left with the locks in kept and unlocks the others.
Return(t, answer, kept) ==
    /\ Goto(t, "idle")
    /\ op' = [op EXCEPT ![t] = NoOp]
    /\ reg' = [reg EXCEPT ![t] = Blank]
    /\ result' = [result EXCEPT ![t] = answer]
    /\ held' = [held EXCEPT ![t] = kept]

\* Go on to l, remembering the local variables r.
Proceed(t, l, r) ==
    /\ Goto(t, l)
    /\ reg' = [reg EXCEPT ![t] = r]
    /\ UNCHANGED <<op, result>>

\* Lock n and go on to l.
Lock(t, n, l) ==
    /\ Free(t, n)
    /\ Acquire(t, n)
    /\ Proceed(t, l, reg[t])
    /\ UNCHANGED <<heap, leaked, todo>>

\* The same, but unlock everything and start over if the test just after the
\* lock finds what was read before it stale.
TryLock(t, n, stale, l) ==
    \/ ~stale /\ Lock(t, n, l)
    \/ stale /\ Free(t, n) /\ Retry(t) /\ UNCHANGED <<heap, leaked, todo>>

\* The operation is called; all three start their search at the root.
Call(t, o) ==
    /\ pc[t] = "idle"
    /\ Goto(t, "walk")
    /\ op' = [op EXCEPT ![t] = o]
    /\ reg' = [reg EXCEPT ![t] = AtRoot]
    /\ UNCHANGED <<heap, held, leaked, todo, result>>

-----------------------------------------------------------------------------
(* The search, the same in add, remove and contains: no lock is held, and  *)
(* the child pointers read may be those of a node already unlinked.        *)

Child(n, k) == IF k < value[n] THEN Left(n) ELSE Right(n)
Snapshot(n, k) == IF k < value[n] THEN LeftSnapshot(n) ELSE RightSnapshot(n)

\* Mutant of Outside: the neighbour is not looked at.
OutsideNever(n, k, neighbour) == FALSE

\* The key lies on the wrong side of the neighbour just read: restart.
Outside(n, k, neighbour) ==
    IF k < value[n] THEN k <= value[neighbour] ELSE k >= value[neighbour]

Walk(t) ==
    /\ pc[t] = "walk"
    /\ op[t].key # value[reg[t].node]
    /\ LET child == Child(reg[t].node, op[t].key) IN
       \/ /\ child # NULL
          /\ Proceed(t, "walk", [reg[t] EXCEPT !.node = child])
       \/ /\ child = NULL
          /\ Proceed(t, IF op[t].type = "add" THEN "addLock" ELSE "miss", reg[t])
    /\ UNCHANGED <<heap, held, leaked, todo>>

\* add and contains answer at once when they meet the key.
Found(t) ==
    /\ pc[t] = "walk"
    /\ op[t].key = value[reg[t].node]
    /\ op[t].type \in {"add", "contains"}
    /\ Return(t, "present", leaked[t])
    /\ UNCHANGED <<heap, leaked, todo>>

\* remove and contains answer "absent" only when the key falls between the
\* last node and its neighbour.
MissSnapshot(t) ==
    /\ pc[t] = "miss"
    /\ LET n == reg[t].node
           k == op[t].key
       IN  IF Outside(n, k, Snapshot(n, k)) THEN Retry(t) ELSE Return(t, "absent", leaked[t])
    /\ UNCHANGED <<heap, leaked, todo>>

-----------------------------------------------------------------------------
(* add *)

\* Mutants of AddLock: no lock; a node removed meanwhile is not noticed.
AddUnlocked(t) ==
    /\ pc[t] = "addLock"
    /\ Child(reg[t].node, op[t].key) = NULL
    /\ Proceed(t, "addSnapshot", reg[t])
    /\ UNCHANGED <<heap, held, leaked, todo>>
AddLockIgnoresMark(t) ==
    LET n == reg[t].node IN
    /\ pc[t] = "addLock"
    /\ TryLock(t, n, Child(n, op[t].key) # NULL, "addSnapshot")

AddLock(t) ==
    LET n == reg[t].node IN
    /\ pc[t] = "addLock"
    /\ TryLock(t, n, marked[n] \/ Child(n, op[t].key) # NULL, "addSnapshot")

\* The stores that publish newNode below node, between node and upperNode.
AddStores(node, upperNode, newNode) ==
    IF value[newNode] < value[node]
    THEN << [f |-> "rightSnapshot", n |-> upperNode, v |-> newNode],
            [f |-> "leftSnapshot",  n |-> node,      v |-> newNode],
            [f |-> "left",          n |-> node,      v |-> newNode] >>
    ELSE << [f |-> "leftSnapshot",  n |-> upperNode, v |-> newNode],
            [f |-> "rightSnapshot", n |-> node,      v |-> newNode],
            [f |-> "right",         n |-> node,      v |-> newNode] >>

\* The PaVTNode constructor, given the neighbours in key order.
Construct(newNode, node, upperNode) ==
    /\ alloc' = alloc \cup {newNode}
    /\ link' = [link EXCEPT
         !["parent"][newNode] = node,
         !["leftSnapshot"][newNode] =
            IF value[newNode] > value[node] THEN node ELSE upperNode,
         !["rightSnapshot"][newNode] =
            IF value[newNode] > value[node] THEN upperNode ELSE node]

\* An object never used before, built for value k.
Fresh(k) == CHOOSE n \in Node \ alloc : value[n] = k

AddSnapshot(t) ==
    /\ pc[t] = "addSnapshot"
    /\ LET n == reg[t].node
           k == op[t].key
           upperNode == Snapshot(n, k)
       IN  \/ /\ Outside(n, k, upperNode)
              /\ Retry(t)
              /\ UNCHANGED <<link, alloc, todo>>
           \/ /\ ~Outside(n, k, upperNode)
              /\ \E m \in Node \ alloc : value[m] = k
              /\ Construct(Fresh(k), n, upperNode)
              /\ todo' = [todo EXCEPT ![t] = AddStores(n, upperNode, Fresh(k))]
              /\ Proceed(t, "store", reg[t])
              /\ UNCHANGED held
    /\ UNCHANGED <<marked, leaked>>

-----------------------------------------------------------------------------
(* remove: lock the parent, then the node *)

ReadParent(t) ==
    /\ pc[t] = "walk"
    /\ op[t].key = value[reg[t].node]
    /\ op[t].type = "remove"
    /\ Proceed(t, "lockParent", [reg[t] EXCEPT !.parent = Parent(reg[t].node)])
    /\ UNCHANGED <<heap, held, leaked, todo>>

LockParent(t) ==
    /\ pc[t] = "lockParent"
    /\ Free(t, reg[t].parent)
    /\ Acquire(t, reg[t].parent)
    /\ Proceed(t, IF Parent(reg[t].node) # reg[t].parent THEN "recheck" ELSE "lockNode",
               reg[t])
    /\ UNCHANGED <<heap, leaked, todo>>

\* Mutant of Recheck: a node that was moved is taken for removed.
RecheckMoved(t) ==
    /\ pc[t] = "recheck"
    /\ Return(t, "absent", held[t])
    /\ leaked' = [leaked EXCEPT ![t] = held[t]]
    /\ UNCHANGED <<heap, todo>>

\* The node was moved or removed meanwhile.  When it is marked the code
\* returns here, before the parent's mutex is unlocked.
Recheck(t) ==
    /\ pc[t] = "recheck"
    /\ \/ /\ marked[reg[t].node]
          /\ Return(t, "absent", held[t])
          /\ leaked' = [leaked EXCEPT ![t] = held[t]]
       \/ /\ ~marked[reg[t].node]
          /\ Retry(t)
          /\ UNCHANGED leaked
    /\ UNCHANGED <<heap, todo>>

\* Mutant of RemovedMeanwhile: the answer is wrong.
RemovedTwice(t) ==
    /\ pc[t] = "lockNode" /\ Free(t, reg[t].node) /\ marked[reg[t].node]
    /\ Return(t, "present", leaked[t])
    /\ UNCHANGED <<heap, leaked, todo>>

\* With the parent locked, the node turns out to be removed.
RemovedMeanwhile(t) ==
    /\ pc[t] = "lockNode"
    /\ Free(t, reg[t].node)
    /\ marked[reg[t].node]
    /\ Return(t, "absent", leaked[t])
    /\ UNCHANGED <<heap, leaked, todo>>

\* Mutant of LockNode: one child is taken for two.
LockNodeOneIsTwo(t) ==
    LET n == reg[t].node IN
    /\ pc[t] = "lockNode" /\ Free(t, n) /\ ~marked[n]
    /\ Acquire(t, n)
    /\ Proceed(t, IF Left(n) # NULL \/ Right(n) # NULL THEN "lockLeft" ELSE "readPred",
               [reg[t] EXCEPT !.left = Left(n), !.right = Right(n)])
    /\ UNCHANGED <<heap, leaked, todo>>

\* With both locks held: how many children, and on which side of the parent.
LockNode(t) ==
    LET n == reg[t].node IN
    /\ pc[t] = "lockNode"
    /\ Free(t, n)
    /\ ~marked[n]
    /\ Acquire(t, n)
    /\ Proceed(t, IF Left(n) # NULL /\ Right(n) # NULL THEN "lockLeft" ELSE "readPred",
               [reg[t] EXCEPT !.left = Left(n), !.right = Right(n),
                              !.leftChild = (Left(reg[t].parent) = n)])
    /\ UNCHANGED <<heap, leaked, todo>>

-----------------------------------------------------------------------------
(* remove: the neighbours in key order, read one after the other *)

ReadPred(t) ==
    /\ pc[t] = "readPred"
    /\ Proceed(t, "readSucc", [reg[t] EXCEPT !.rightNode = LeftSnapshot(reg[t].node)])
    /\ UNCHANGED <<heap, held, leaked, todo>>

ReadSucc(t) ==
    LET none == reg[t].left = NULL /\ reg[t].right = NULL
        both == reg[t].left # NULL /\ reg[t].right # NULL
    IN  /\ pc[t] = "readSucc"
        /\ Proceed(t, IF none THEN "unlinkLeaf" ELSE IF both THEN "lockRightNode" ELSE "lockChild",
                   [reg[t] EXCEPT !.leftNode = RightSnapshot(reg[t].node)])
        /\ UNCHANGED <<heap, held, leaked, todo>>

-----------------------------------------------------------------------------
(* remove, one child *)

OnlyChild(r) == IF r.left = NULL THEN r.right ELSE r.left

LockChild(t) == pc[t] = "lockChild" /\ Lock(t, OnlyChild(reg[t]), "lockSnapshot")

SnapshotToLock(r) == IF r.left = NULL THEN r.leftNode ELSE r.rightNode

\* Mutant of LockSnapshot: the neighbour is not checked under its lock.
LockSnapshotUnchecked(t) ==
    pc[t] = "lockSnapshot" /\ TryLock(t, SnapshotToLock(reg[t]), FALSE, "unlinkOneChild")

LockSnapshot(t) ==
    LET m == SnapshotToLock(reg[t])
        back == IF reg[t].left = NULL THEN LeftSnapshot(m) ELSE RightSnapshot(m)
    IN  /\ pc[t] = "lockSnapshot"
        /\ TryLock(t, m, back # reg[t].node \/ marked[m], "unlinkOneChild")

-----------------------------------------------------------------------------
(* remove, two children *)

LockLeft(t)  == pc[t] = "lockLeft"  /\ Lock(t, reg[t].left, "lockRight")
LockRight(t) == pc[t] = "lockRight" /\ Lock(t, reg[t].right, "readPred")

LockRightNode(t) ==
    LET m == reg[t].rightNode IN
    /\ pc[t] = "lockRightNode"
    /\ TryLock(t, m, RightSnapshot(m) # reg[t].node \/ marked[m],
               IF Left(reg[t].right) = NULL THEN "promoteRight" ELSE "readSuccParent")

\* From here on leftNode is the node that takes the place of the removed one.
Succ(t) == reg[t].leftNode

ReadSuccParent(t) ==
    /\ pc[t] = "readSuccParent"
    /\ Proceed(t, "lockSuccParent", [reg[t] EXCEPT !.succParent = Parent(Succ(t))])
    /\ UNCHANGED <<heap, held, leaked, todo>>

LockSuccParent(t) ==
    /\ pc[t] = "lockSuccParent"
    /\ TryLock(t, reg[t].succParent, Parent(Succ(t)) # reg[t].succParent, "recheckSucc")

\* The second half of that test; the successor itself is not locked yet.
RecheckSucc(t) ==
    /\ pc[t] = "recheckSucc"
    /\ \/ marked[Succ(t)] /\ Retry(t)
       \/ ~marked[Succ(t)] /\ Proceed(t, "lockSucc", reg[t]) /\ UNCHANGED held
    /\ UNCHANGED <<heap, leaked, todo>>

LockSucc(t) ==
    LET m == Succ(t) IN
    /\ pc[t] = "lockSucc"
    /\ TryLock(t, m, LeftSnapshot(m) # reg[t].node \/ marked[m], "lockSuccRight")

\* succ->right, stable under the successor's lock, is locked when there is
\* one; the neighbour after the successor is read either way.
LockSuccRight(t) ==
    LET right == Right(Succ(t))
        next == RightSnapshot(Succ(t))
    IN  /\ pc[t] = "lockSuccRight"
        /\ \/ right = NULL /\ UNCHANGED held
           \/ right # NULL /\ Free(t, right) /\ Acquire(t, right)
        /\ Proceed(t, IF right \in {NULL, next} THEN "applyRemove" ELSE "lockSuccRightSnapshot",
                   [reg[t] EXCEPT !.succRight = right, !.succRightSnapshot = next])
        /\ UNCHANGED <<heap, leaked, todo>>

LockSuccRightSnapshot(t) ==
    LET m == reg[t].succRightSnapshot IN
    /\ pc[t] = "lockSuccRightSnapshot"
    /\ TryLock(t, m, LeftSnapshot(m) # Succ(t) \/ marked[m], "applyRemove")

-----------------------------------------------------------------------------
(* remove: the node is marked first, then unlinked store by store *)

\* The store that makes child take the node's place under its parent.
Replace(r, child) ==
    [f |-> IF r.leftChild THEN "left" ELSE "right", n |-> r.parent, v |-> child]

\* The two stores that make rightNode and leftNode neighbours.
Splice(r) == << [f |-> "rightSnapshot", n |-> r.rightNode, v |-> r.leftNode],
                [f |-> "leftSnapshot",  n |-> r.leftNode,  v |-> r.rightNode] >>

LeafStores(r) ==
    << Replace(r, NULL) >> \o
    (IF r.leftChild
     THEN << [f |-> "leftSnapshot",  n |-> r.parent,    v |-> r.rightNode],
             [f |-> "rightSnapshot", n |-> r.rightNode, v |-> r.parent] >>
     ELSE << [f |-> "rightSnapshot", n |-> r.parent,    v |-> r.leftNode],
             [f |-> "leftSnapshot",  n |-> r.leftNode,  v |-> r.parent] >>)

OneChildStores(r) ==
    << Replace(r, OnlyChild(r)), [f |-> "parent", n |-> OnlyChild(r), v |-> r.parent] >>
    \o Splice(r)

\* Mutant of PromoteRightStores: the left child is lost.
PromoteRightLosesLeft(r) ==
    << [f |-> "parent", n |-> r.left,  v |-> r.right],
       [f |-> "parent", n |-> r.right, v |-> r.parent],
       Replace(r, r.right) >> \o Splice(r)
PromoteRightStores(r) ==
    << [f |-> "left",   n |-> r.right, v |-> r.left],
       [f |-> "parent", n |-> r.left,  v |-> r.right],
       [f |-> "parent", n |-> r.right, v |-> r.parent],
       Replace(r, r.right) >> \o Splice(r)

\* Mutant of ApplyRemoveStores: the successor's old place is not given to its
\* right child.
ApplyRemoveKeepsPlace(r) ==
    << [f |-> "right",  n |-> r.leftNode, v |-> r.right],
       [f |-> "parent", n |-> r.right,    v |-> r.leftNode],
       [f |-> "left",   n |-> r.leftNode, v |-> r.left],
       [f |-> "parent", n |-> r.left,     v |-> r.leftNode],
       [f |-> "parent", n |-> r.leftNode, v |-> r.parent],
       Replace(r, r.leftNode) >>

\* The body of applyRemove after its first line.
ApplyRemoveStores(r) ==
    LET succ == r.leftNode IN
    << [f |-> "right",         n |-> succ,                v |-> r.right],
       [f |-> "parent",        n |-> r.right,             v |-> succ],
       [f |-> "left",          n |-> succ,                v |-> r.left],
       [f |-> "parent",        n |-> r.left,              v |-> succ],
       [f |-> "parent",        n |-> succ,                v |-> r.parent],
       Replace(r, succ),
       [f |-> "left",          n |-> r.succParent,        v |-> r.succRight],
       [f |-> "rightSnapshot", n |-> succ,                v |-> r.succRightSnapshot],
       [f |-> "leftSnapshot",  n |-> r.succRightSnapshot, v |-> succ] >>
    \o (IF r.succRight = NULL THEN << >>
        ELSE << [f |-> "parent", n |-> r.succRight, v |-> r.succParent] >>)
    \o << [f |-> "leftSnapshot",  n |-> succ,        v |-> r.rightNode],
          [f |-> "rightSnapshot", n |-> r.rightNode, v |-> succ] >>

\* `node->marked = true`, after which only the stores are left.
Mark(t, l, stores) ==
    /\ pc[t] = l
    /\ marked' = [marked EXCEPT ![reg[t].node] = TRUE]
    /\ todo' = [todo EXCEPT ![t] = stores]
    /\ Proceed(t, "store", reg[t])
    /\ UNCHANGED <<link, alloc, held, leaked>>

UnlinkLeaf(t)     == Mark(t, "unlinkLeaf", LeafStores(reg[t]))
UnlinkOneChild(t) == Mark(t, "unlinkOneChild", OneChildStores(reg[t]))
PromoteRight(t)   == Mark(t, "promoteRight", PromoteRightStores(reg[t]))
ApplyRemove(t)    == Mark(t, "applyRemove", ApplyRemoveStores(reg[t]))

\* The next store of an add or a remove; after the last one it unlocks and
\* returns: add that the key was absent, remove that it was present.
DoStore(t) ==
    /\ pc[t] = "store"
    /\ LET s == Head(todo[t]) IN link' = [link EXCEPT ![s.f][s.n] = s.v]
    /\ todo' = [todo EXCEPT ![t] = Tail(@)]
    /\ \/ /\ Len(todo[t]) > 1
          /\ UNCHANGED <<held, pc, op, reg, result>>
       \/ /\ Len(todo[t]) = 1
          /\ Return(t, IF op[t].type = "add" THEN "absent" ELSE "present", leaked[t])
    /\ UNCHANGED <<marked, alloc, leaked>>

-----------------------------------------------------------------------------
\* What thread t does inside a call.
Step(t) ==
    \/ Walk(t) \/ Found(t) \/ MissSnapshot(t)
    \/ AddLock(t) \/ AddSnapshot(t)
    \/ ReadParent(t) \/ LockParent(t) \/ Recheck(t)
    \/ RemovedMeanwhile(t) \/ LockNode(t)
    \/ ReadPred(t) \/ ReadSucc(t)
    \/ LockChild(t) \/ LockSnapshot(t)
    \/ LockLeft(t) \/ LockRight(t) \/ LockRightNode(t)
    \/ ReadSuccParent(t) \/ LockSuccParent(t) \/ RecheckSucc(t) \/ LockSucc(t)
    \/ LockSuccRight(t) \/ LockSuccRightSnapshot(t)
    \/ UnlinkLeaf(t) \/ UnlinkOneChild(t) \/ PromoteRight(t) \/ ApplyRemove(t)
    \/ DoStore(t)

Next == \E t \in Thread : Step(t) \/ \E o \in S!Op : Call(t, o)

Spec == Init /\ [][Next]_vars
=============================================================================
