----------------------------- MODULE PaVTProofs -----------------------------
(***************************************************************************)
(* Theorems about the tree of PaVT.tla, for any threads, keys and nodes.   *)
(*                                                                         *)
(* While updates are half made the pointers are neither a tree nor a list. *)
(* The invariant is about the heap g that memory becomes when every        *)
(* pending store has been made: g is a search tree and a list in key order *)
(* over the unmarked nodes, memory differs from g only where a store is    *)
(* pending, and what a call has read under its locks is true of g.  A step *)
(* that constructs or marks a node changes g; the stores that follow bring *)
(* memory closer to it.  Between two neighbours of the order lies a gap,   *)
(* where exactly one of the two has no child: its lock is the one that     *)
(* protects the snapshots across the gap (Owns).  The last theorems carry  *)
(* the results over to the test program of TestCase.tla.                   *)
(***************************************************************************)
EXTENDS TestCase, SequenceTheorems, FiniteSetTheorems, WellFoundedInduction, TLAPS

-----------------------------------------------------------------------------
(* Facts about the operators the actions are built from. *)

USE DEF Ptr, root

\* A pointer field of a node is a node or NULL.
LEMMA Dereference ==
    ASSUME TypeOK, NEW n \in Ptr
    PROVE  /\ Left(n) \in Ptr /\ Right(n) \in Ptr /\ Parent(n) \in Ptr
           /\ LeftSnapshot(n) \in Ptr /\ RightSnapshot(n) \in Ptr
           /\ \A k : Child(n, k) \in Ptr /\ Snapshot(n, k) \in Ptr
  BY DEF TypeOK, Field, Left, Right, Parent, LeftSnapshot, RightSnapshot, Child, Snapshot

\* The sentinels are nodes, so the blank locals are well typed.
LEMMA BlankLocals == Blank \in Locals /\ AtRoot \in Locals
  BY NodeAssumption DEF Blank, AtRoot, Locals

\* What the threads are doing, as opposed to the heap and the locks.
ControlOK ==
    /\ pc \in [Thread -> Location]
    /\ op \in [Thread -> S!Op \cup {NoOp}]
    /\ reg \in [Thread -> Locals]
    /\ result \in [Thread -> S!Answer \cup {"none"}]

LocksOK == held \in [Thread -> SUBSET Ptr] /\ leaked \in [Thread -> SUBSET Ptr]

LEMMA RetryTyped ==
    ASSUME TypeOK, NEW t \in Thread, Retry(t), leaked' = leaked
    PROVE  ControlOK' /\ LocksOK'
  BY BlankLocals DEF TypeOK, Retry, Goto, Location, ControlOK, LocksOK

LEMMA ReturnTyped ==
    ASSUME TypeOK, NEW t \in Thread, NEW a \in S!Answer, NEW kept \in SUBSET Ptr,
           Return(t, a, kept)
    PROVE  ControlOK' /\ held' \in [Thread -> SUBSET Ptr]
  BY BlankLocals DEF TypeOK, Return, Goto, Location, ControlOK

LEMMA ProceedTyped ==
    ASSUME TypeOK, NEW t \in Thread, NEW l \in Location, NEW r \in Locals, Proceed(t, l, r)
    PROVE  ControlOK'
  BY DEF TypeOK, Proceed, Goto, ControlOK

LEMMA LockTyped ==
    ASSUME TypeOK, NEW t \in Thread, NEW n \in Ptr, NEW l \in Location, Lock(t, n, l)
    PROVE  TypeOK'
  <1>1. reg[t] \in Locals
    BY DEF TypeOK
  <1>2. ControlOK'
    BY <1>1, ProceedTyped DEF Lock
  <1>3. LocksOK'
    BY DEF TypeOK, Lock, Acquire, LocksOK
  <1> QED
    BY <1>2, <1>3 DEF TypeOK, ControlOK, LocksOK, Lock, heap

LEMMA TryLockTyped ==
    ASSUME TypeOK, NEW t \in Thread, NEW n \in Ptr, NEW l \in Location, NEW stale,
           TryLock(t, n, stale, l)
    PROVE  TypeOK'
  <1>1. CASE Lock(t, n, l)
    BY <1>1, LockTyped
  <1>2. CASE Retry(t) /\ UNCHANGED <<heap, leaked, todo>>
    BY <1>2, RetryTyped DEF TypeOK, ControlOK, LocksOK, heap
  <1> QED
    BY <1>1, <1>2 DEF TryLock

LEMMA MarkTyped ==
    ASSUME TypeOK, NEW t \in Thread, NEW l, NEW stores \in Seq(Store), Mark(t, l, stores)
    PROVE  TypeOK'
  <1>1. reg[t] \in Locals
    BY DEF TypeOK
  <1>2. ControlOK'
    BY <1>1, ProceedTyped DEF Mark, Location
  <1>3. marked' \in [Ptr -> BOOLEAN] /\ todo' \in [Thread -> Seq(Store)]
    BY DEF TypeOK, Mark
  <1> QED
    BY <1>2, <1>3 DEF TypeOK, ControlOK, Mark

\* Only Proceed changes anything, and it keeps the locals well typed.
LEMMA ReadTyped ==
    ASSUME TypeOK, NEW t \in Thread, NEW l \in Location, NEW r \in Locals, Proceed(t, l, r),
           UNCHANGED <<heap, held, leaked, todo>>
    PROVE  TypeOK'
  BY ProceedTyped DEF TypeOK, ControlOK, heap

-----------------------------------------------------------------------------
(* The type invariant *)

LEMMA InitTyped == Init => TypeOK
  BY NodeAssumption, BlankLocals
  DEF Init, TypeOK, Field, Location, Store

LEMMA CallTyped ==
    ASSUME TypeOK, NEW t \in Thread, NEW o \in S!Op, Call(t, o)
    PROVE  TypeOK'
  BY BlankLocals DEF TypeOK, Call, Goto, Location, heap

\* The sequences the store lists are put together from.
LEMMA Nonuple ==
    ASSUME NEW T, NEW a \in T, NEW b \in T, NEW c \in T, NEW d \in T, NEW e \in T,
           NEW f \in T, NEW g \in T, NEW h \in T, NEW i \in T
    PROVE  <<a, b, c, d, e, f, g, h, i>> \in Seq(T)
  OBVIOUS

LEMMA ShortTuples ==
    ASSUME NEW T
    PROVE  /\ << >> \in Seq(T)
           /\ \A a \in T : <<a>> \in Seq(T)
           /\ \A a, b \in T : <<a, b>> \in Seq(T)
           /\ \A a, b, c \in T : <<a, b, c>> \in Seq(T)
           /\ \A a, b, c, d \in T : <<a, b, c, d>> \in Seq(T)
  OBVIOUS

LEMMA Concatenation ==
    ASSUME NEW T, NEW s1 \in Seq(T), NEW s2 \in Seq(T)
    PROVE  s1 \o s2 \in Seq(T)
  OBVIOUS

LEMMA StoreTyped ==
    ASSUME NEW n \in Ptr, NEW v \in Ptr
    PROVE  \A f \in Field : [f |-> f, n |-> n, v |-> v] \in Store
  BY DEF Store

\* The lists of stores of the updates are well typed.
LEMMA AddStoresTyped ==
    ASSUME NEW n \in Ptr, NEW u \in Ptr, NEW m \in Ptr
    PROVE  AddStores(n, u, m) \in Seq(Store)
  <1>1. /\ {"left", "right", "leftSnapshot", "rightSnapshot"} \subseteq Field
        /\ \A f \in Field : /\ [f |-> f, n |-> u, v |-> m] \in Store
                            /\ [f |-> f, n |-> n, v |-> m] \in Store
    BY StoreTyped DEF Field
  <1>2. CASE value[m] < value[n]
    BY <1>1, <1>2, ShortTuples DEF AddStores
  <1>3. CASE ~(value[m] < value[n])
    BY <1>1, <1>3, ShortTuples DEF AddStores
  <1> QED
    BY <1>2, <1>3

LEMMA RemoveStoresTyped ==
    ASSUME NEW r \in Locals
    PROVE  /\ LeafStores(r) \in Seq(Store) /\ OneChildStores(r) \in Seq(Store)
           /\ PromoteRightStores(r) \in Seq(Store) /\ ApplyRemoveStores(r) \in Seq(Store)
  <1>1. /\ r.node \in Ptr /\ r.parent \in Ptr /\ r.left \in Ptr /\ r.right \in Ptr
        /\ r.leftNode \in Ptr /\ r.rightNode \in Ptr /\ r.succParent \in Ptr
        /\ r.succRight \in Ptr /\ r.succRightSnapshot \in Ptr /\ NULL \in Ptr
    BY DEF Locals
  <1>2. \A n, v \in Ptr : /\ [f |-> "left", n |-> n, v |-> v] \in Store
                          /\ [f |-> "right", n |-> n, v |-> v] \in Store
                          /\ [f |-> "parent", n |-> n, v |-> v] \in Store
                          /\ [f |-> "leftSnapshot", n |-> n, v |-> v] \in Store
                          /\ [f |-> "rightSnapshot", n |-> n, v |-> v] \in Store
    BY StoreTyped DEF Field
  <1>3. \A c \in Ptr : Replace(r, c) \in Store
    BY <1>1, <1>2 DEF Replace
  <1>4. Splice(r) \in Seq(Store)
    BY <1>1, <1>2, ShortTuples DEF Splice
  <1>5. LeafStores(r) \in Seq(Store)
    <2>1. << Replace(r, NULL) >> \in Seq(Store)
      BY <1>1, <1>3, ShortTuples
    <2>2. CASE r.leftChild
      <3>1. << [f |-> "leftSnapshot",  n |-> r.parent,    v |-> r.rightNode],
               [f |-> "rightSnapshot", n |-> r.rightNode, v |-> r.parent] >> \in Seq(Store)
        BY <1>1, <1>2, ShortTuples
      <3> QED
        BY <2>1, <2>2, <3>1, Concatenation DEF LeafStores
    <2>3. CASE ~r.leftChild
      <3>1. << [f |-> "rightSnapshot", n |-> r.parent,    v |-> r.leftNode],
               [f |-> "leftSnapshot",  n |-> r.leftNode,  v |-> r.parent] >> \in Seq(Store)
        BY <1>1, <1>2, ShortTuples
      <3> QED
        BY <2>1, <2>3, <3>1, Concatenation DEF LeafStores
    <2> QED
      BY <2>2, <2>3
  <1>6. OneChildStores(r) \in Seq(Store)
    <2>1. OnlyChild(r) \in Ptr
      BY <1>1 DEF OnlyChild
    <2>2. << Replace(r, OnlyChild(r)), [f |-> "parent", n |-> OnlyChild(r), v |-> r.parent] >>
            \in Seq(Store)
      BY <1>1, <1>2, <1>3, <2>1, ShortTuples
    <2> QED
      BY <1>4, <2>2, Concatenation DEF OneChildStores
  <1>7. PromoteRightStores(r) \in Seq(Store)
    <2>1. << [f |-> "left",   n |-> r.right, v |-> r.left],
             [f |-> "parent", n |-> r.left,  v |-> r.right],
             [f |-> "parent", n |-> r.right, v |-> r.parent],
             Replace(r, r.right) >> \in Seq(Store)
      BY <1>1, <1>2, <1>3, ShortTuples
    <2> QED
      BY <1>4, <2>1, Concatenation DEF PromoteRightStores
  <1>8. ApplyRemoveStores(r) \in Seq(Store)
    <2> DEFINE succ == r.leftNode
               first == << [f |-> "right",         n |-> succ,                v |-> r.right],
                           [f |-> "parent",        n |-> r.right,             v |-> succ],
                           [f |-> "left",          n |-> succ,                v |-> r.left],
                           [f |-> "parent",        n |-> r.left,              v |-> succ],
                           [f |-> "parent",        n |-> succ,                v |-> r.parent],
                           Replace(r, succ),
                           [f |-> "left",          n |-> r.succParent,        v |-> r.succRight],
                           [f |-> "rightSnapshot", n |-> succ,                v |-> r.succRightSnapshot],
                           [f |-> "leftSnapshot",  n |-> r.succRightSnapshot, v |-> succ] >>
               child == IF r.succRight = NULL THEN << >>
                        ELSE << [f |-> "parent", n |-> r.succRight, v |-> r.succParent] >>
               last == << [f |-> "leftSnapshot",  n |-> succ,        v |-> r.rightNode],
                          [f |-> "rightSnapshot", n |-> r.rightNode, v |-> succ] >>
    <2>1. first \in Seq(Store)
      BY <1>1, <1>2, <1>3, Nonuple
    <2>2. child \in Seq(Store)
      <3>1. [f |-> "parent", n |-> r.succRight, v |-> r.succParent] \in Store
        BY <1>1, <1>2
      <3>2. CASE r.succRight = NULL
        BY <3>2, ShortTuples
      <3>3. CASE r.succRight # NULL
        BY <3>1, <3>3, ShortTuples
      <3> QED
        BY <3>2, <3>3
    <2>3. last \in Seq(Store)
      BY <1>1, <1>2, <1>3, ShortTuples
    <2>4. ApplyRemoveStores(r) = first \o child \o last
      BY DEF ApplyRemoveStores
    <2> HIDE DEF first, child, last
    <2> QED
      BY <2>1, <2>2, <2>3, <2>4, Concatenation
  <1> QED
    BY <1>5, <1>6, <1>7, <1>8

LEMMA StepTyped ==
    ASSUME TypeOK, NEW t \in Thread, Step(t)
    PROVE  TypeOK'
  <1> DEFINE r == reg[t]
  <1>reg. /\ r \in Locals
          /\ r.node \in Ptr /\ r.parent \in Ptr /\ r.left \in Ptr /\ r.right \in Ptr
          /\ r.leftNode \in Ptr /\ r.rightNode \in Ptr /\ r.succParent \in Ptr
          /\ r.succRight \in Ptr /\ r.succRightSnapshot \in Ptr
    BY DEF TypeOK, Locals
  <1>kept. leaked[t] \in SUBSET Ptr /\ held[t] \in SUBSET Ptr
    BY DEF TypeOK
  <1>1. CASE Walk(t)
    BY <1>1, <1>reg, Dereference, ReadTyped DEF Walk, Location, Locals
  <1>2. CASE Found(t)
    BY <1>2, <1>kept, ReturnTyped DEF Found, S!Answer, TypeOK, ControlOK, heap
  <1>3. CASE MissSnapshot(t)
    BY <1>3, <1>kept, ReturnTyped, RetryTyped
    DEF MissSnapshot, S!Answer, TypeOK, ControlOK, LocksOK, heap
  <1>4. CASE AddLock(t)
    BY <1>4, <1>reg, TryLockTyped DEF AddLock, Location
  <1>5. CASE AddSnapshot(t)
    <2> DEFINE n == r.node
               k == op[t].key
               u == Snapshot(n, k)
               m == Fresh(k)
    <2>1. u \in Ptr
      BY <1>reg, Dereference
    <2>2. CASE Retry(t) /\ UNCHANGED <<link, alloc, todo>>
      BY <1>5, <2>2, RetryTyped DEF AddSnapshot, TypeOK, ControlOK, LocksOK
    <2>3. CASE /\ \E w \in Node \ alloc : value[w] = k
               /\ Construct(m, n, u)
               /\ todo' = [todo EXCEPT ![t] = AddStores(n, u, m)]
               /\ Proceed(t, "store", r)
               /\ UNCHANGED held
      <3>1. m \in Node
        BY <2>3 DEF Fresh
      <3>2. link' \in [Field -> [Ptr -> Ptr]] /\ alloc' \subseteq Node
        BY <2>1, <2>3, <3>1, <1>reg DEF Construct, TypeOK, Field
      <3>3. todo' \in [Thread -> Seq(Store)]
        BY <2>1, <2>3, <3>1, <1>reg, AddStoresTyped DEF TypeOK
      <3>4. ControlOK'
        BY <2>3, <1>reg, ProceedTyped DEF Location
      <3> QED
        BY <1>5, <2>3, <3>2, <3>3, <3>4 DEF AddSnapshot, TypeOK, ControlOK
    <2> QED
      BY <1>5, <2>2, <2>3 DEF AddSnapshot
  <1>6. CASE ReadParent(t)
    BY <1>6, <1>reg, Dereference, ReadTyped DEF ReadParent, Location, Locals
  <1>7. CASE LockParent(t)
    <2>1. ControlOK'
      BY <1>7, <1>reg, ProceedTyped DEF LockParent, Location
    <2>2. LocksOK'
      BY <1>7, <1>reg DEF LockParent, Acquire, TypeOK, LocksOK
    <2> QED
      BY <1>7, <2>1, <2>2 DEF LockParent, TypeOK, ControlOK, LocksOK, heap
  <1>8. CASE Recheck(t)
    BY <1>8, <1>kept, ReturnTyped, RetryTyped
    DEF Recheck, S!Answer, TypeOK, ControlOK, LocksOK, heap
  <1>9. CASE RemovedMeanwhile(t)
    BY <1>9, <1>kept, ReturnTyped DEF RemovedMeanwhile, S!Answer, TypeOK, ControlOK, heap
  <1>10. CASE LockNode(t)
    <2> DEFINE q == [r EXCEPT !.left = Left(r.node), !.right = Right(r.node),
                              !.leftChild = (Left(r.parent) = r.node)]
    <2>1. Left(r.node) \in Ptr /\ Right(r.node) \in Ptr
      BY <1>reg, Dereference
    <2>2. q \in Locals
      <3>1. [r EXCEPT !.left = Left(r.node), !.right = Right(r.node)] \in Locals
        BY <2>1, <1>reg DEF Locals
      <3>2. ASSUME NEW s \in Locals, NEW b \in BOOLEAN
            PROVE  [s EXCEPT !.leftChild = b] \in Locals
        BY <3>2, Zenon DEF Locals
      <3>3. q = [[r EXCEPT !.left = Left(r.node), !.right = Right(r.node)]
                   EXCEPT !.leftChild = (Left(r.parent) = r.node)]
        OBVIOUS
      <3> QED
        BY <3>1, <3>2, <3>3, Zenon
    <2>3. ControlOK'
      BY <1>10, <2>2, ProceedTyped DEF LockNode, Location
    <2>4. LocksOK'
      BY <1>10, <1>reg DEF LockNode, Acquire, TypeOK, LocksOK
    <2> QED
      BY <1>10, <2>3, <2>4 DEF LockNode, TypeOK, ControlOK, LocksOK, heap
  <1>11. CASE ReadPred(t)
    BY <1>11, <1>reg, Dereference, ReadTyped DEF ReadPred, Location, Locals
  <1>12. CASE ReadSucc(t)
    BY <1>12, <1>reg, Dereference, ReadTyped DEF ReadSucc, Location, Locals
  <1>13. CASE LockChild(t)
    BY <1>13, <1>reg, LockTyped DEF LockChild, OnlyChild, Location
  <1>14. CASE LockSnapshot(t)
    BY <1>14, <1>reg, TryLockTyped DEF LockSnapshot, SnapshotToLock, Location
  <1>15. CASE LockLeft(t) \/ LockRight(t)
    BY <1>15, <1>reg, LockTyped DEF LockLeft, LockRight, Location
  <1>16. CASE LockRightNode(t)
    BY <1>16, <1>reg, TryLockTyped DEF LockRightNode, Location
  <1>17. CASE ReadSuccParent(t)
    BY <1>17, <1>reg, Dereference, ReadTyped DEF ReadSuccParent, Succ, Location, Locals
  <1>18. CASE LockSuccParent(t)
    BY <1>18, <1>reg, TryLockTyped DEF LockSuccParent, Location
  <1>19. CASE RecheckSucc(t)
    <2>1. CASE Retry(t)
      BY <1>19, <2>1, RetryTyped DEF RecheckSucc, TypeOK, ControlOK, LocksOK, heap
    <2>2. CASE Proceed(t, "lockSucc", r) /\ UNCHANGED held
      BY <1>19, <2>2, <1>reg, ReadTyped DEF RecheckSucc, Location
    <2> QED
      BY <1>19, <2>1, <2>2 DEF RecheckSucc
  <1>20. CASE LockSucc(t)
    BY <1>20, <1>reg, TryLockTyped DEF LockSucc, Succ, Location
  <1>21. CASE LockSuccRight(t)
    <2> DEFINE right == Right(Succ(t))
               next == RightSnapshot(Succ(t))
               q == [r EXCEPT !.succRight = right, !.succRightSnapshot = next]
    <2>1. right \in Ptr /\ next \in Ptr
      BY <1>reg, Dereference DEF Succ
    <2>2. q \in Locals
      BY <2>1, <1>reg DEF Locals
    <2>3. ControlOK'
      BY <1>21, <2>2, ProceedTyped DEF LockSuccRight, Location
    <2>4. LocksOK'
      <3>1. CASE right = NULL
        BY <1>21, <3>1 DEF LockSuccRight, TypeOK, LocksOK
      <3>2. CASE right # NULL
        <4>1. held' = [held EXCEPT ![t] = @ \cup {right}] /\ leaked' = leaked
          BY <1>21, <3>2 DEF LockSuccRight, Acquire
        <4> QED
          BY <4>1, <2>1 DEF TypeOK, LocksOK
      <3> QED
        BY <3>1, <3>2
    <2> QED
      BY <1>21, <2>3, <2>4 DEF LockSuccRight, TypeOK, ControlOK, LocksOK, heap
  <1>22. CASE LockSuccRightSnapshot(t)
    BY <1>22, <1>reg, TryLockTyped DEF LockSuccRightSnapshot, Location
  <1>23. CASE UnlinkLeaf(t) \/ UnlinkOneChild(t) \/ PromoteRight(t) \/ ApplyRemove(t)
    BY <1>23, <1>reg, RemoveStoresTyped, MarkTyped
    DEF UnlinkLeaf, UnlinkOneChild, PromoteRight, ApplyRemove
  <1>24. CASE DoStore(t)
    <2>1. todo[t] \in Seq(Store) /\ todo[t] # << >>
      BY <1>24 DEF DoStore, TypeOK
    <2>2. Head(todo[t]) \in Store /\ Tail(todo[t]) \in Seq(Store)
      BY <2>1
    <2>3. link' \in [Field -> [Ptr -> Ptr]]
      BY <1>24, <2>2 DEF DoStore, TypeOK, Store
    <2>4. todo' \in [Thread -> Seq(Store)]
      BY <1>24, <2>2 DEF DoStore, TypeOK
    <2>5. ControlOK' /\ LocksOK'
      <3>1. CASE UNCHANGED <<held, pc, op, reg, result>>
        BY <1>24, <3>1 DEF DoStore, TypeOK, ControlOK, LocksOK
      <3>2. CASE Return(t, IF op[t].type = "add" THEN "absent" ELSE "present", leaked[t])
        BY <1>24, <3>2, <1>kept, ReturnTyped DEF DoStore, S!Answer, TypeOK, LocksOK
      <3> QED
        BY <1>24, <3>1, <3>2 DEF DoStore
    <2> QED
      BY <1>24, <2>3, <2>4, <2>5 DEF DoStore, TypeOK, ControlOK, LocksOK
  <1> QED
    BY <1>1, <1>2, <1>3, <1>4, <1>5, <1>6, <1>7, <1>8, <1>9, <1>10, <1>11, <1>12, <1>13,
       <1>14, <1>15, <1>16, <1>17, <1>18, <1>19, <1>20, <1>21, <1>22, <1>23, <1>24 DEF Step

LEMMA NextTyped == TypeOK /\ [Next]_vars => TypeOK'
  <1> SUFFICES ASSUME TypeOK, [Next]_vars PROVE TypeOK'
    OBVIOUS
  <1>1. CASE UNCHANGED vars
    BY <1>1 DEF TypeOK, vars
  <1>2. CASE Next
    BY <1>2, StepTyped, CallTyped DEF Next
  <1> QED
    BY <1>1, <1>2

\* The type invariant of the tree: every pointer is a node or NULL, whatever
\* the calls and their interleaving (main.cpp:43-55, 107-537).
THEOREM Typing == Spec => []TypeOK
  BY InitTyped, NextTyped, PTL DEF Spec

-----------------------------------------------------------------------------
(* The locking discipline of the tree: what its locks protect. *)


-----------------------------------------------------------------------------
(* What is locked where *)

LEMMA LockedBare == \A r : \A l \in LockFree \cup {"store"} : LockedAt(l, r) = {}
  BY DEF LockedAt, LockFree

LEMMA LockedPair ==
    \A r : LET pair == {r.parent, r.node} IN
       /\ LockedAt("addSnapshot", r) = {r.node}
       /\ LockedAt("recheck", r) = {r.parent}
       /\ LockedAt("lockNode", r) = {r.parent}
       /\ LockedAt("lockLeft", r) = pair
       /\ LockedAt("lockChild", r) = pair
       /\ LockedAt("unlinkLeaf", r) = pair
       /\ LockedAt("lockRight", r) = pair \cup {r.left}
       /\ LockedAt("lockSnapshot", r) = pair \cup {OnlyChild(r)}
       /\ LockedAt("unlinkOneChild", r) = pair \cup {OnlyChild(r), SnapshotToLock(r)}
  BY DEF LockedAt

LEMMA LockedNeighbours ==
    \A r : \A l \in {"readPred", "readSucc"} :
       LockedAt(l, r) = IF NULL \in {r.left, r.right} THEN {r.parent, r.node}
                        ELSE {r.parent, r.node} \cup {r.left, r.right}
  BY DEF LockedAt

LEMMA LockedTwo ==
    \A r : LET both == {r.parent, r.node} \cup {r.left, r.right}
               succ == both \cup {r.rightNode, r.succParent}
           IN
       /\ LockedAt("lockRightNode", r) = both
       /\ LockedAt("promoteRight", r) = both \cup {r.rightNode}
       /\ LockedAt("readSuccParent", r) = both \cup {r.rightNode}
       /\ LockedAt("lockSuccParent", r) = both \cup {r.rightNode}
       /\ LockedAt("recheckSucc", r) = succ
       /\ LockedAt("lockSucc", r) = succ
       /\ LockedAt("lockSuccRight", r) = succ \cup {r.leftNode}
       /\ LockedAt("lockSuccRightSnapshot", r)
            = succ \cup {r.leftNode} \cup ({r.succRight} \ {NULL})
       /\ LockedAt("applyRemove", r) = succ \cup {r.leftNode} \cup ({r.succRight} \ {NULL})
  BY DEF LockedAt
-----------------------------------------------------------------------------
(* The kinds of step *)

\* Only t acts: the others keep their locks, their place and their stores.
Alone(t) ==
    \A u \in Thread \ {t} :
        /\ held'[u] = held[u] /\ leaked'[u] = leaked[u] /\ todo'[u] = todo[u]
        /\ pc'[u] = pc[u] /\ reg'[u] = reg[u]

\* What LockInv says of one thread, but for the exclusion between two.
Disciplined(t) ==
    /\ LockedAt(pc[t], reg[t]) \cup leaked[t] \subseteq held[t]
    /\ pc[t] \in LockFree => held[t] = leaked[t]
    /\ \A i \in DOMAIN todo[t] : todo[t][i].f \in TreeField => todo[t][i].n \in held[t]
    /\ pc[t] # "store" => todo[t] = << >>

\* LockInv survives a step of t alone if t ends up disciplined and took only
\* locks that nobody else had.
LEMMA OneThread ==
    ASSUME LockInv, NEW t \in Thread, Alone(t), Disciplined(t)',
           \A u \in Thread \ {t} : held'[t] \cap held[u] = {}
    PROVE  LockInv'
  <1>1. \A u \in Thread : Disciplined(u)
    BY DEF LockInv, LocksHeld, StoresLocked, Disciplined
  <1>2. \A u \in Thread : Disciplined(u)'
    BY <1>1 DEF Alone, Disciplined
  <1>3. \A u, w \in Thread : u # w => held'[u] \cap held'[w] = {}
    BY DEF Alone, LockInv, LocksHeld
  <1> QED
    BY <1>2, <1>3 DEF LockInv, LocksHeld, StoresLocked, Disciplined

\* What t holds nobody else holds.
LEMMA Exclusion ==
    ASSUME LockInv, NEW t \in Thread, NEW H, H \subseteq held[t]
    PROVE  \A u \in Thread \ {t} : H \cap held[u] = {}
  BY DEF LockInv, LocksHeld

LEMMA ProceedEffect ==
    ASSUME TypeOK, NEW t \in Thread, NEW l, NEW r, Proceed(t, l, r)
    PROVE  /\ pc'[t] = l /\ reg'[t] = r
           /\ \A u \in Thread \ {t} : pc'[u] = pc[u] /\ reg'[u] = reg[u]
  BY DEF TypeOK, Proceed, Goto

LEMMA AcquireEffect ==
    ASSUME TypeOK, NEW t \in Thread, NEW n, Acquire(t, n)
    PROVE  held'[t] = held[t] \cup {n} /\ \A u \in Thread \ {t} : held'[u] = held[u]
  BY DEF TypeOK, Acquire

\* No lock is taken and no store is pending.
LEMMA ProceedDisciplined ==
    ASSUME TypeOK, LockInv, NEW t \in Thread, NEW l, NEW r, Proceed(t, l, r),
           pc[t] # "store", UNCHANGED <<held, leaked, todo>>,
           LockedAt(l, r) \subseteq held[t], l \in LockFree => held[t] = leaked[t]
    PROVE  LockInv'
  <1>1. Alone(t) /\ pc'[t] = l /\ reg'[t] = r
    BY ProceedEffect DEF Alone
  <1>2. leaked[t] \subseteq held[t] /\ todo[t] = << >>
    BY DEF LockInv, LocksHeld
  <1>3. Disciplined(t)'
    BY <1>1, <1>2 DEF Disciplined
  <1> QED
    BY <1>1, <1>3, OneThread, Exclusion

\* t acquires n on the way to l.
LEMMA AcquireDisciplined ==
    ASSUME TypeOK, LockInv, NEW t \in Thread, NEW n, NEW l, NEW r,
           Free(t, n), Acquire(t, n), Proceed(t, l, r), UNCHANGED <<leaked, todo>>,
           pc[t] # "store", l \notin LockFree, LockedAt(l, r) \subseteq held[t] \cup {n}
    PROVE  LockInv'
  <1>1. Alone(t) /\ pc'[t] = l /\ reg'[t] = r /\ held'[t] = held[t] \cup {n}
    BY ProceedEffect, AcquireEffect DEF Alone
  <1>2. leaked[t] \subseteq held[t] /\ todo[t] = << >>
    BY DEF LockInv, LocksHeld
  <1>3. Disciplined(t)'
    BY <1>1, <1>2 DEF Disciplined
  <1>4. \A u \in Thread \ {t} : held'[t] \cap held[u] = {}
    BY <1>1 DEF Free, LockInv, LocksHeld
  <1> QED
    BY <1>1, <1>3, <1>4, OneThread

LEMMA LockDisciplined ==
    ASSUME TypeOK, LockInv, NEW t \in Thread, NEW n, NEW l, Lock(t, n, l),
           pc[t] # "store", l \notin LockFree, LockedAt(l, reg[t]) \subseteq held[t] \cup {n}
    PROVE  LockInv'
  BY AcquireDisciplined DEF Lock

\* Starting over, t keeps what it leaked and nothing else.
LEMMA RetryDisciplined ==
    ASSUME TypeOK, LockInv, NEW t \in Thread, Retry(t), UNCHANGED <<leaked, todo>>,
           pc[t] # "store"
    PROVE  LockInv'
  <1>1. Alone(t) /\ pc'[t] = "walk" /\ held'[t] = leaked[t]
    BY DEF TypeOK, Retry, Goto, Alone
  <1>2. leaked[t] \subseteq held[t] /\ todo[t] = << >>
    BY DEF LockInv, LocksHeld
  <1>3. Disciplined(t)'
    BY <1>1, <1>2, LockedBare DEF Disciplined, LockFree
  <1> QED
    BY <1>1, <1>2, <1>3, OneThread, Exclusion

LEMMA TryLockDisciplined ==
    ASSUME TypeOK, LockInv, NEW t \in Thread, NEW n, NEW stale, NEW l,
           TryLock(t, n, stale, l),
           pc[t] # "store", l \notin LockFree, LockedAt(l, reg[t]) \subseteq held[t] \cup {n}
    PROVE  LockInv'
  BY LockDisciplined, RetryDisciplined DEF TryLock

\* Returning, t keeps the locks in kept, which is what it has leaked by then.
LEMMA ReturnDisciplined ==
    ASSUME TypeOK, LockInv, NEW t \in Thread, NEW a, NEW kept \in SUBSET held[t],
           Return(t, a, kept), leaked'[t] = kept, todo'[t] = << >>,
           \A u \in Thread \ {t} : leaked'[u] = leaked[u] /\ todo'[u] = todo[u]
    PROVE  LockInv'
  <1>1. Alone(t) /\ pc'[t] = "idle" /\ held'[t] = kept
    BY DEF TypeOK, Return, Goto, Alone
  <1>2. Disciplined(t)'
    BY <1>1, LockedBare DEF Disciplined, LockFree
  <1> QED
    BY <1>1, <1>2, OneThread, Exclusion

\* t has all its locks and gets a list of stores to make.
LEMMA PublishDisciplined ==
    ASSUME TypeOK, LockInv, NEW t \in Thread, NEW stores \in Seq(Store), NEW r,
           Proceed(t, "store", r), todo' = [todo EXCEPT ![t] = stores],
           UNCHANGED <<held, leaked>>,
           \A i \in DOMAIN stores : stores[i].f \in TreeField => stores[i].n \in held[t]
    PROVE  LockInv'
  <1>1. todo'[t] = stores /\ \A u \in Thread \ {t} : todo'[u] = todo[u]
    BY DEF TypeOK
  <1>2. Alone(t) /\ pc'[t] = "store"
    BY <1>1, ProceedEffect DEF Alone
  <1>3. leaked[t] \subseteq held[t]
    BY DEF LockInv, LocksHeld
  <1>4. Disciplined(t)'
    BY <1>1, <1>2, <1>3, LockedBare DEF Disciplined, LockFree
  <1> QED
    BY <1>2, <1>4, OneThread, Exclusion
-----------------------------------------------------------------------------
(* The stores of the updates *)

\* Every store to a tree pointer in the list is to a node of H.
Guarded(stores, H) == \A i \in DOMAIN stores : stores[i].f \in TreeField => stores[i].n \in H

GuardedStore(s, H) == s.f \in TreeField => s.n \in H

LEMMA GuardedTuples ==
    ASSUME NEW H
    PROVE  /\ Guarded(<< >>, H)
           /\ \A a : GuardedStore(a, H) => Guarded(<<a>>, H)
           /\ \A a, b : GuardedStore(a, H) /\ GuardedStore(b, H) => Guarded(<<a, b>>, H)
           /\ \A a, b, c : GuardedStore(a, H) /\ GuardedStore(b, H) /\ GuardedStore(c, H)
                => Guarded(<<a, b, c>>, H)
           /\ \A a, b, c, d : /\ GuardedStore(a, H) /\ GuardedStore(b, H)
                              /\ GuardedStore(c, H) /\ GuardedStore(d, H)
                => Guarded(<<a, b, c, d>>, H)
  BY DEF Guarded, GuardedStore

LEMMA GuardedNonuple ==
    ASSUME NEW H, NEW a, NEW b, NEW c, NEW d, NEW e, NEW f, NEW g, NEW h, NEW i,
           GuardedStore(a, H), GuardedStore(b, H), GuardedStore(c, H),
           GuardedStore(d, H), GuardedStore(e, H), GuardedStore(f, H),
           GuardedStore(g, H), GuardedStore(h, H), GuardedStore(i, H)
    PROVE  Guarded(<<a, b, c, d, e, f, g, h, i>>, H)
  BY DEF Guarded, GuardedStore

LEMMA GuardedConcatenation ==
    ASSUME NEW H, NEW s1 \in Seq(Store), NEW s2 \in Seq(Store), Guarded(s1, H), Guarded(s2, H)
    PROVE  Guarded(s1 \o s2, H)
  <1> SUFFICES ASSUME NEW i \in DOMAIN (s1 \o s2)
               PROVE  GuardedStore((s1 \o s2)[i], H)
    BY DEF Guarded, GuardedStore
  <1>1. CASE i \in DOMAIN s1
    BY <1>1 DEF Guarded, GuardedStore
  <1>2. CASE i \notin DOMAIN s1
    <2>1. i - Len(s1) \in DOMAIN s2 /\ (s1 \o s2)[i] = s2[i - Len(s1)]
      BY <1>2
    <2> QED
      BY <2>1 DEF Guarded, GuardedStore
  <1> QED
    BY <1>1, <1>2

LEMMA FieldsGuarded ==
    ASSUME NEW H
    PROVE  \A n, v : /\ n \in H => /\ GuardedStore([f |-> "left", n |-> n, v |-> v], H)
                                   /\ GuardedStore([f |-> "right", n |-> n, v |-> v], H)
                                   /\ GuardedStore([f |-> "parent", n |-> n, v |-> v], H)
                     /\ GuardedStore([f |-> "leftSnapshot", n |-> n, v |-> v], H)
                     /\ GuardedStore([f |-> "rightSnapshot", n |-> n, v |-> v], H)
  BY DEF GuardedStore, TreeField

LEMMA AddStoresGuarded ==
    ASSUME NEW n, NEW u, NEW m, NEW H, n \in H
    PROVE  Guarded(AddStores(n, u, m), H)
  <1>1. CASE value[m] < value[n]
    BY <1>1, FieldsGuarded, GuardedTuples DEF AddStores
  <1>2. CASE ~(value[m] < value[n])
    BY <1>2, FieldsGuarded, GuardedTuples DEF AddStores
  <1> QED
    BY <1>1, <1>2

\* A list put together from two short ones.
LEMMA GuardedTwoParts ==
    ASSUME NEW H, NEW s1 \in Seq(Store), Guarded(s1, H),
           NEW a \in Store, NEW b \in Store, GuardedStore(a, H), GuardedStore(b, H)
    PROVE  Guarded(s1 \o <<a, b>>, H)
  BY ShortTuples, GuardedTuples, GuardedConcatenation

LEMMA LocalsTyped ==
    ASSUME NEW r \in Locals
    PROVE  /\ r.node \in Ptr /\ r.parent \in Ptr /\ r.left \in Ptr /\ r.right \in Ptr
           /\ r.leftNode \in Ptr /\ r.rightNode \in Ptr /\ r.succParent \in Ptr
           /\ r.succRight \in Ptr /\ r.succRightSnapshot \in Ptr /\ NULL \in Ptr
           /\ OnlyChild(r) \in Ptr
  BY DEF Locals, OnlyChild, Ptr

LEMMA FieldsTyped ==
    \A n, v \in Ptr : /\ [f |-> "left", n |-> n, v |-> v] \in Store
                      /\ [f |-> "right", n |-> n, v |-> v] \in Store
                      /\ [f |-> "parent", n |-> n, v |-> v] \in Store
                      /\ [f |-> "leftSnapshot", n |-> n, v |-> v] \in Store
                      /\ [f |-> "rightSnapshot", n |-> n, v |-> v] \in Store
  BY StoreTyped DEF Field

LEMMA ReplaceGuarded ==
    ASSUME NEW r \in Locals, NEW c \in Ptr, NEW H, r.parent \in H
    PROVE  Replace(r, c) \in Store /\ GuardedStore(Replace(r, c), H)
  BY LocalsTyped, FieldsTyped, FieldsGuarded DEF Replace

LEMMA SpliceGuarded ==
    ASSUME NEW r \in Locals, NEW H
    PROVE  Splice(r) \in Seq(Store) /\ Guarded(Splice(r), H)
  BY LocalsTyped, FieldsTyped, FieldsGuarded, ShortTuples, GuardedTuples DEF Splice

LEMMA LeafStoresGuarded ==
    ASSUME NEW r \in Locals, NEW H, r.parent \in H
    PROVE  Guarded(LeafStores(r), H)
  <1>1. << Replace(r, NULL) >> \in Seq(Store) /\ Guarded(<< Replace(r, NULL) >>, H)
    BY LocalsTyped, ReplaceGuarded, ShortTuples, GuardedTuples
  <1>2. CASE r.leftChild
    BY <1>1, <1>2, LocalsTyped, FieldsTyped, FieldsGuarded, GuardedTwoParts DEF LeafStores
  <1>3. CASE ~r.leftChild
    BY <1>1, <1>3, LocalsTyped, FieldsTyped, FieldsGuarded, GuardedTwoParts DEF LeafStores
  <1> QED
    BY <1>2, <1>3

LEMMA OneChildStoresGuarded ==
    ASSUME NEW r \in Locals, NEW H, {r.parent, OnlyChild(r)} \subseteq H
    PROVE  Guarded(OneChildStores(r), H)
  <1> DEFINE first == << Replace(r, OnlyChild(r)),
                         [f |-> "parent", n |-> OnlyChild(r), v |-> r.parent] >>
  <1>1. first \in Seq(Store) /\ Guarded(first, H)
    BY LocalsTyped, FieldsTyped, FieldsGuarded, ReplaceGuarded, ShortTuples, GuardedTuples
  <1>2. OneChildStores(r) = first \o Splice(r)
    BY DEF OneChildStores
  <1> HIDE DEF first
  <1> QED
    BY <1>1, <1>2, SpliceGuarded, GuardedConcatenation

LEMMA PromoteRightStoresGuarded ==
    ASSUME NEW r \in Locals, NEW H, {r.parent, r.left, r.right} \subseteq H
    PROVE  Guarded(PromoteRightStores(r), H)
  <1> DEFINE first == << [f |-> "left",   n |-> r.right, v |-> r.left],
                         [f |-> "parent", n |-> r.left,  v |-> r.right],
                         [f |-> "parent", n |-> r.right, v |-> r.parent],
                         Replace(r, r.right) >>
  <1>1. first \in Seq(Store)
    BY LocalsTyped, FieldsTyped, ReplaceGuarded, ShortTuples
  <1>2. Guarded(first, H)
    BY LocalsTyped, FieldsGuarded, ReplaceGuarded, GuardedTuples
  <1>3. PromoteRightStores(r) = first \o Splice(r)
    BY DEF PromoteRightStores
  <1> HIDE DEF first
  <1> QED
    BY <1>1, <1>2, <1>3, SpliceGuarded, GuardedConcatenation

LEMMA ApplyRemoveStoresGuarded ==
    ASSUME NEW r \in Locals, NEW H, r.succRight # NULL => r.succRight \in H,
           {r.parent, r.left, r.right, r.leftNode, r.succParent} \subseteq H
    PROVE  Guarded(ApplyRemoveStores(r), H)
  <1> DEFINE succ == r.leftNode
             first == << [f |-> "right",         n |-> succ,                v |-> r.right],
                         [f |-> "parent",        n |-> r.right,             v |-> succ],
                         [f |-> "left",          n |-> succ,                v |-> r.left],
                         [f |-> "parent",        n |-> r.left,              v |-> succ],
                         [f |-> "parent",        n |-> succ,                v |-> r.parent],
                         Replace(r, succ),
                         [f |-> "left",          n |-> r.succParent,        v |-> r.succRight],
                         [f |-> "rightSnapshot", n |-> succ,                v |-> r.succRightSnapshot],
                         [f |-> "leftSnapshot",  n |-> r.succRightSnapshot, v |-> succ] >>
             child == IF r.succRight = NULL THEN << >>
                      ELSE << [f |-> "parent", n |-> r.succRight, v |-> r.succParent] >>
             last == << [f |-> "leftSnapshot",  n |-> succ,        v |-> r.rightNode],
                        [f |-> "rightSnapshot", n |-> r.rightNode, v |-> succ] >>
  <1>1. first \in Seq(Store)
    BY LocalsTyped, FieldsTyped, ReplaceGuarded, Nonuple
  <1>2. Guarded(first, H)
    BY LocalsTyped, FieldsGuarded, ReplaceGuarded, GuardedNonuple
  <1>3. child \in Seq(Store) /\ Guarded(child, H)
    <2>1. CASE r.succRight = NULL
      BY <2>1, ShortTuples, GuardedTuples
    <2>2. CASE r.succRight # NULL
      <3>1. [f |-> "parent", n |-> r.succRight, v |-> r.succParent] \in Store
        BY LocalsTyped, FieldsTyped
      <3>2. GuardedStore([f |-> "parent", n |-> r.succRight, v |-> r.succParent], H)
        BY <2>2, FieldsGuarded
      <3> QED
        BY <2>2, <3>1, <3>2, ShortTuples, GuardedTuples
    <2> QED
      BY <2>1, <2>2
  <1>4. last \in Seq(Store) /\ Guarded(last, H)
    BY LocalsTyped, FieldsTyped, FieldsGuarded, ShortTuples, GuardedTuples
  <1>5. ApplyRemoveStores(r) = first \o child \o last
    BY DEF ApplyRemoveStores
  <1> HIDE DEF first, child, last
  <1> QED
    BY <1>1, <1>2, <1>3, <1>4, <1>5, Concatenation, GuardedConcatenation

-----------------------------------------------------------------------------
(* LockInv is inductive *)

LEMMA InitDisciplined == Init => LockInv
  BY LockedBare DEF Init, LockInv, LocksHeld, StoresLocked, LockFree

LEMMA CallDisciplined ==
    ASSUME TypeOK, LockInv, NEW t \in Thread, NEW o, Call(t, o)
    PROVE  LockInv'
  <1>1. Alone(t) /\ pc'[t] = "walk"
    BY DEF TypeOK, Call, Goto, Alone
  <1>2. held[t] = leaked[t] /\ todo[t] = << >>
    BY DEF Call, LockInv, LocksHeld, LockFree
  <1>3. Disciplined(t)'
    BY <1>1, <1>2, LockedBare DEF Disciplined, Call, LockFree
  <1> QED
    BY <1>1, <1>3, OneThread, Exclusion DEF Call

\* The searches, and add.
LEMMA SearchDisciplined ==
    ASSUME TypeOK, LockInv, NEW t \in Thread,
           Walk(t) \/ Found(t) \/ MissSnapshot(t) \/ AddLock(t) \/ AddSnapshot(t)
    PROVE  LockInv'
  <1> DEFINE r == reg[t]
  <1>1. /\ pc[t] \in LockFree => held[t] = leaked[t]
        /\ leaked[t] \subseteq held[t] /\ LockedAt(pc[t], r) \subseteq held[t]
        /\ pc[t] # "store" => todo[t] = << >>
    BY DEF LockInv, LocksHeld
  <1>2. CASE Walk(t)
    BY <1>1, <1>2, LockedBare, ProceedDisciplined DEF Walk, LockFree
  <1>3. CASE Found(t)
    BY <1>1, <1>3, ReturnDisciplined DEF Found
  <1>4. CASE MissSnapshot(t)
    BY <1>1, <1>4, ReturnDisciplined, RetryDisciplined DEF MissSnapshot
  <1>5. CASE AddLock(t)
    BY <1>1, <1>5, LockedPair, TryLockDisciplined DEF AddLock, LockFree
  <1>6. CASE AddSnapshot(t)
    <2> DEFINE k == op[t].key
               u == Snapshot(r.node, k)
               m == Fresh(k)
    <2>1. CASE Retry(t) /\ UNCHANGED todo
      BY <1>6, <2>1, RetryDisciplined DEF AddSnapshot
    <2>2. CASE /\ \E w \in Node \ alloc : value[w] = k
               /\ todo' = [todo EXCEPT ![t] = AddStores(r.node, u, m)]
               /\ Proceed(t, "store", r)
               /\ UNCHANGED held
      <3>1. r.node \in Ptr /\ u \in Ptr /\ m \in Ptr
        BY <2>2, Dereference DEF TypeOK, Locals, Fresh, Ptr
      <3>2. AddStores(r.node, u, m) \in Seq(Store)
        BY <3>1, AddStoresTyped
      <3>3. r.node \in held[t]
        BY <1>1, <1>6, LockedPair DEF AddSnapshot
      <3>4. Guarded(AddStores(r.node, u, m), held[t])
        BY <3>3, AddStoresGuarded
      <3> QED
        BY <1>6, <2>2, <3>2, <3>4, PublishDisciplined DEF AddSnapshot, Guarded
    <2> QED
      BY <1>6, <2>1, <2>2 DEF AddSnapshot
  <1> QED
    BY <1>2, <1>3, <1>4, <1>5, <1>6

\* remove, until it has its node and that node's parent locked.
LEMMA RemoveDisciplined ==
    ASSUME TypeOK, LockInv, NEW t \in Thread,
           \/ ReadParent(t) \/ LockParent(t) \/ Recheck(t) \/ RemovedMeanwhile(t) \/ LockNode(t)
           \/ ReadPred(t) \/ ReadSucc(t)
    PROVE  LockInv'
  <1> DEFINE r == reg[t]
  <1>1. /\ pc[t] \in LockFree => held[t] = leaked[t]
        /\ leaked[t] \subseteq held[t] /\ LockedAt(pc[t], r) \subseteq held[t]
        /\ pc[t] # "store" => todo[t] = << >>
    BY DEF LockInv, LocksHeld
  <1>2. CASE ReadParent(t)
    BY <1>1, <1>2, LockedBare, ProceedDisciplined DEF ReadParent, LockFree
  <1>3. CASE LockParent(t)
    <2> DEFINE l == IF Parent(r.node) # r.parent THEN "recheck" ELSE "lockNode"
    <2>1. LockedAt(l, r) = {r.parent} /\ l \notin LockFree
      BY LockedPair DEF LockFree
    <2>2. Free(t, r.parent) /\ Acquire(t, r.parent) /\ Proceed(t, l, r)
      BY <1>3 DEF LockParent
    <2> HIDE DEF l
    <2> QED
      BY <1>3, <2>1, <2>2, AcquireDisciplined DEF LockParent
  <1>4. CASE Recheck(t)
    <2>1. CASE Return(t, "absent", held[t]) /\ leaked' = [leaked EXCEPT ![t] = held[t]]
      <3>1. leaked'[t] = held[t] /\ \A u \in Thread \ {t} : leaked'[u] = leaked[u]
        BY <2>1 DEF TypeOK
      <3>2. todo' = todo /\ todo[t] = << >>
        BY <1>1, <1>4 DEF Recheck
      <3> QED
        BY <2>1, <3>1, <3>2, ReturnDisciplined
    <2>2. CASE Retry(t) /\ UNCHANGED leaked
      BY <1>4, <2>2, RetryDisciplined DEF Recheck
    <2> QED
      BY <1>4, <2>1, <2>2 DEF Recheck
  <1>5. CASE RemovedMeanwhile(t)
    BY <1>1, <1>5, ReturnDisciplined DEF RemovedMeanwhile
  <1>6. CASE LockNode(t)
    <2> DEFINE n == r.node
               q == [r EXCEPT !.left = Left(n), !.right = Right(n),
                              !.leftChild = (Left(r.parent) = n)]
               l == IF Left(n) # NULL /\ Right(n) # NULL THEN "lockLeft" ELSE "readPred"
    <2>1. Free(t, n) /\ Acquire(t, n) /\ Proceed(t, l, q) /\ UNCHANGED <<leaked, todo>>
      BY <1>6 DEF LockNode
    <2>2. r.parent \in held[t]
      BY <1>1, <1>6, LockedPair DEF LockNode
    <2>3. q.parent = r.parent /\ q.node = n /\ q.left = Left(n) /\ q.right = Right(n)
      BY DEF TypeOK, Locals
    <2>4. LockedAt(l, q) = {q.parent, q.node} /\ l \notin LockFree
      BY <2>3, LockedPair, LockedNeighbours DEF LockFree
    <2>5. pc[t] = "lockNode"
      BY <1>6 DEF LockNode
    <2> HIDE DEF q, l
    <2> QED
      BY <2>1, <2>2, <2>3, <2>4, <2>5, AcquireDisciplined
  <1>7. CASE ReadPred(t)
    <2> DEFINE q == [r EXCEPT !.rightNode = LeftSnapshot(r.node)]
    <2>1. q.parent = r.parent /\ q.node = r.node /\ q.left = r.left /\ q.right = r.right
      BY DEF TypeOK, Locals
    <2>2. LockedAt("readSucc", q) = LockedAt("readPred", r)
      BY <2>1, LockedNeighbours
    <2>3. Proceed(t, "readSucc", q) /\ UNCHANGED <<held, leaked, todo>> /\ pc[t] = "readPred"
      BY <1>7 DEF ReadPred
    <2> HIDE DEF q
    <2> QED
      BY <1>1, <2>2, <2>3, ProceedDisciplined DEF LockFree
  <1>8. CASE ReadSucc(t)
    <2> DEFINE none == r.left = NULL /\ r.right = NULL
               both == r.left # NULL /\ r.right # NULL
               l == IF none THEN "unlinkLeaf" ELSE IF both THEN "lockRightNode" ELSE "lockChild"
               q == [r EXCEPT !.leftNode = RightSnapshot(r.node)]
    <2>1. q.parent = r.parent /\ q.node = r.node /\ q.left = r.left /\ q.right = r.right
      BY DEF TypeOK, Locals
    <2>2. LockedAt(l, q) \subseteq LockedAt("readSucc", r) /\ l \notin LockFree
      <3>1. CASE NULL \in {r.left, r.right}
        <4>1. l \in {"unlinkLeaf", "lockChild"}
          BY <3>1
        <4>2. LockedAt(l, q) = {r.parent, r.node}
          BY <2>1, <4>1, LockedPair
        <4>3. LockedAt("readSucc", r) = {r.parent, r.node}
          BY <3>1, LockedNeighbours
        <4> QED
          BY <4>1, <4>2, <4>3 DEF LockFree
      <3>2. CASE NULL \notin {r.left, r.right}
        <4>1. l = "lockRightNode"
          BY <3>2
        <4>2. LockedAt(l, q) = {r.parent, r.node} \cup {r.left, r.right}
          BY <2>1, <4>1, LockedTwo
        <4>3. LockedAt("readSucc", r) = {r.parent, r.node} \cup {r.left, r.right}
          BY <3>2, LockedNeighbours
        <4> QED
          BY <4>1, <4>2, <4>3 DEF LockFree
      <3> QED
        BY <3>1, <3>2
    <2>3. Proceed(t, l, q) /\ UNCHANGED <<held, leaked, todo>> /\ pc[t] = "readSucc"
      BY <1>8 DEF ReadSucc
    <2> HIDE DEF q, l
    <2> QED
      BY <1>1, <2>2, <2>3, ProceedDisciplined
  <1> QED
    BY <1>2, <1>3, <1>4, <1>5, <1>6, <1>7, <1>8

\* remove, from there until it marks the node.
LEMMA LockingDisciplined ==
    ASSUME TypeOK, LockInv, NEW t \in Thread,
           \/ LockChild(t) \/ LockSnapshot(t)
           \/ LockLeft(t) \/ LockRight(t) \/ LockRightNode(t)
           \/ ReadSuccParent(t) \/ LockSuccParent(t) \/ RecheckSucc(t) \/ LockSucc(t)
           \/ LockSuccRight(t) \/ LockSuccRightSnapshot(t)
    PROVE  LockInv'
  <1> DEFINE r == reg[t]
  <1>1. LockedAt(pc[t], r) \subseteq held[t]
    BY DEF LockInv, LocksHeld
  <1>2. CASE LockChild(t)
    BY <1>1, <1>2, LockedPair, LockDisciplined DEF LockChild, LockFree
  <1>3. CASE LockSnapshot(t)
    BY <1>1, <1>3, LockedPair, TryLockDisciplined DEF LockSnapshot, LockFree
  <1>4. CASE LockLeft(t)
    BY <1>1, <1>4, LockedPair, LockDisciplined DEF LockLeft, LockFree
  <1>5. CASE LockRight(t)
    <2>1. LockedAt("readPred", r) \subseteq LockedAt("lockRight", r) \cup {r.right}
      BY LockedPair, LockedNeighbours
    <2> QED
      BY <1>1, <1>5, <2>1, LockDisciplined DEF LockRight, LockFree
  <1>6. CASE LockRightNode(t)
    <2> DEFINE l == IF Left(r.right) = NULL THEN "promoteRight" ELSE "readSuccParent"
    <2>1. LockedAt(l, r) = LockedAt("lockRightNode", r) \cup {r.rightNode} /\ l \notin LockFree
      BY LockedTwo DEF LockFree
    <2> HIDE DEF l
    <2> QED
      BY <1>1, <1>6, <2>1, TryLockDisciplined DEF LockRightNode, l
  <1>7. CASE ReadSuccParent(t)
    <2> DEFINE q == [r EXCEPT !.succParent = Parent(Succ(t))]
    <2>1. /\ q.parent = r.parent /\ q.node = r.node /\ q.left = r.left /\ q.right = r.right
          /\ q.rightNode = r.rightNode
      BY DEF TypeOK, Locals
    <2>2. LockedAt("lockSuccParent", q) = LockedAt("readSuccParent", r)
      <3>1. ASSUME NEW x
            PROVE  /\ LockedAt("lockSuccParent", x)
                        = {x.parent, x.node} \cup {x.left, x.right} \cup {x.rightNode}
                   /\ LockedAt("readSuccParent", x)
                        = {x.parent, x.node} \cup {x.left, x.right} \cup {x.rightNode}
        BY LockedTwo
      <3> HIDE DEF q, r
      <3> QED
        BY <2>1, <3>1
    <2>3. /\ Proceed(t, "lockSuccParent", q) /\ UNCHANGED <<held, leaked, todo>>
          /\ pc[t] = "readSuccParent"
      BY <1>7 DEF ReadSuccParent
    <2> HIDE DEF q
    <2> QED
      BY <1>1, <2>2, <2>3, ProceedDisciplined DEF LockFree
  <1>8. CASE LockSuccParent(t)
    <2>1. LockedAt("recheckSucc", r) = LockedAt("lockSuccParent", r) \cup {r.succParent}
      BY LockedTwo
    <2> QED
      BY <1>1, <1>8, <2>1, TryLockDisciplined DEF LockSuccParent, LockFree
  <1>9. CASE RecheckSucc(t)
    <2>1. LockedAt("lockSucc", r) = LockedAt("recheckSucc", r)
      BY LockedTwo
    <2> QED
      BY <1>1, <1>9, <2>1, RetryDisciplined, ProceedDisciplined DEF RecheckSucc, LockFree
  <1>10. CASE LockSucc(t)
    <2>1. LockedAt("lockSuccRight", r) = LockedAt("lockSucc", r) \cup {Succ(t)}
      BY LockedTwo DEF Succ
    <2> QED
      BY <1>1, <1>10, <2>1, TryLockDisciplined DEF LockSucc, LockFree
  <1>11. CASE LockSuccRight(t)
    <2> DEFINE right == Right(Succ(t))
               next == RightSnapshot(Succ(t))
               q == [r EXCEPT !.succRight = right, !.succRightSnapshot = next]
               l == IF right \in {NULL, next} THEN "applyRemove" ELSE "lockSuccRightSnapshot"
    <2>1. /\ q.parent = r.parent /\ q.node = r.node /\ q.left = r.left /\ q.right = r.right
          /\ q.rightNode = r.rightNode /\ q.succParent = r.succParent
          /\ q.leftNode = r.leftNode /\ q.succRight = right
      BY DEF TypeOK, Locals
    <2>2. LockedAt(l, q) = LockedAt("lockSuccRight", r) \cup ({right} \ {NULL})
      <3>1. l \in {"applyRemove", "lockSuccRightSnapshot"}
        OBVIOUS
      <3> HIDE DEF l, q, right
      <3>2. CASE l = "applyRemove"
        BY <2>1, <3>2, LockedTwo
      <3>3. CASE l = "lockSuccRightSnapshot"
        BY <2>1, <3>3, LockedTwo
      <3> QED
        BY <3>1, <3>2, <3>3
    <2>3. l \notin LockFree
      BY DEF LockFree
    <2>4. /\ Proceed(t, l, q) /\ UNCHANGED <<leaked, todo>> /\ pc[t] = "lockSuccRight"
          /\ \/ right = NULL /\ UNCHANGED held
             \/ right # NULL /\ Free(t, right) /\ Acquire(t, right)
      BY <1>11 DEF LockSuccRight
    <2> HIDE DEF q, l, right
    <2>5. CASE right = NULL /\ UNCHANGED held
      BY <1>1, <2>2, <2>3, <2>4, <2>5, ProceedDisciplined
    <2>6. CASE right # NULL /\ Free(t, right) /\ Acquire(t, right)
      BY <1>1, <2>2, <2>3, <2>4, <2>6, AcquireDisciplined
    <2> QED
      BY <2>4, <2>5, <2>6
  <1>12. CASE LockSuccRightSnapshot(t)
    <2>1. LockedAt("applyRemove", r) = LockedAt("lockSuccRightSnapshot", r)
      BY LockedTwo
    <2> QED
      BY <1>1, <1>12, <2>1, TryLockDisciplined DEF LockSuccRightSnapshot, LockFree
  <1> QED
    BY <1>2, <1>3, <1>4, <1>5, <1>6, <1>7, <1>8, <1>9, <1>10, <1>11, <1>12

\* remove, when it marks its node and starts to unlink it.
LEMMA UnlinkDisciplined ==
    ASSUME TypeOK, LockInv, NEW t \in Thread,
           UnlinkLeaf(t) \/ UnlinkOneChild(t) \/ PromoteRight(t) \/ ApplyRemove(t)
    PROVE  LockInv' /\ reg[t].node \in held[t]
  <1> DEFINE r == reg[t]
  <1>1. r \in Locals /\ LockedAt(pc[t], r) \subseteq held[t]
    BY DEF TypeOK, LockInv, LocksHeld
  <1>2. ASSUME NEW l, NEW stores \in Seq(Store), Mark(t, l, stores), Guarded(stores, held[t])
        PROVE  LockInv'
    BY <1>2, PublishDisciplined DEF Mark, Guarded
  <1>3. CASE UnlinkLeaf(t)
    <2>1. {r.parent, r.node} \subseteq held[t]
      BY <1>1, <1>3, LockedPair DEF UnlinkLeaf, Mark
    <2> QED
      BY <1>1, <1>2, <1>3, <2>1, RemoveStoresTyped, LeafStoresGuarded DEF UnlinkLeaf
  <1>4. CASE UnlinkOneChild(t)
    <2>1. {r.parent, r.node, OnlyChild(r)} \subseteq held[t]
      BY <1>1, <1>4, LockedPair DEF UnlinkOneChild, Mark
    <2> QED
      BY <1>1, <1>2, <1>4, <2>1, RemoveStoresTyped, OneChildStoresGuarded DEF UnlinkOneChild
  <1>5. CASE PromoteRight(t)
    <2>1. {r.parent, r.node, r.left, r.right} \subseteq held[t]
      BY <1>1, <1>5, LockedTwo DEF PromoteRight, Mark
    <2> QED
      BY <1>1, <1>2, <1>5, <2>1, RemoveStoresTyped, PromoteRightStoresGuarded DEF PromoteRight
  <1>6. CASE ApplyRemove(t)
    <2>1. /\ {r.parent, r.node, r.left, r.right, r.leftNode, r.succParent} \subseteq held[t]
          /\ r.succRight # NULL => r.succRight \in held[t]
      BY <1>1, <1>6, LockedTwo DEF ApplyRemove, Mark
    <2> QED
      BY <1>1, <1>2, <1>6, <2>1, RemoveStoresTyped, ApplyRemoveStoresGuarded DEF ApplyRemove
  <1> QED
    BY <1>3, <1>4, <1>5, <1>6

\* A store takes itself off the list; after the last one nothing is pending.
LEMMA StoreDisciplined ==
    ASSUME TypeOK, LockInv, NEW t \in Thread, DoStore(t)
    PROVE  LockInv'
  <1> DEFINE s == todo[t]
  <1>1. s \in Seq(Store) /\ s # << >> /\ pc[t] = "store"
    BY DEF DoStore, TypeOK
  <1>2. todo'[t] = Tail(s) /\ \A u \in Thread \ {t} : todo'[u] = todo[u]
    BY DEF DoStore, TypeOK
  <1>3. CASE Len(s) > 1 /\ UNCHANGED <<held, pc, op, reg, result>>
    <2>1. Alone(t)
      BY <1>2, <1>3 DEF Alone, DoStore
    <2>2. ASSUME NEW i \in DOMAIN Tail(s)
          PROVE  i + 1 \in DOMAIN s /\ Tail(s)[i] = s[i+1]
      BY <1>1, <2>2
    <2>3. \A i \in DOMAIN s : s[i].f \in TreeField => s[i].n \in held[t]
      BY DEF LockInv, StoresLocked
    <2>4. \A i \in DOMAIN Tail(s) : Tail(s)[i].f \in TreeField => Tail(s)[i].n \in held[t]
      BY <2>2, <2>3
    <2>5. leaked[t] \subseteq held[t]
      BY DEF LockInv, LocksHeld
    <2>6. Disciplined(t)'
      BY <1>1, <1>2, <1>3, <2>4, <2>5, LockedBare DEF Disciplined, LockFree, DoStore
    <2> QED
      BY <1>3, <2>1, <2>6, OneThread, Exclusion
  <1>4. CASE Len(s) = 1 /\ \E a : Return(t, a, leaked[t])
    <2>1. Tail(s) = << >>
      <3>1. Tail(s) \in Seq(Store) /\ Len(Tail(s)) = 0
        BY <1>1, <1>4
      <3> QED
        BY <3>1, EmptySeq
    <2>2. leaked[t] \subseteq held[t] /\ leaked' = leaked
      BY DEF LockInv, LocksHeld, DoStore
    <2> QED
      BY <1>2, <1>4, <2>1, <2>2, ReturnDisciplined
  <1> QED
    BY <1>3, <1>4 DEF DoStore

LEMMA NextDisciplined == TypeOK /\ LockInv /\ [Next]_vars => LockInv'
  <1> SUFFICES ASSUME TypeOK, LockInv, [Next]_vars PROVE LockInv'
    OBVIOUS
  <1>1. CASE UNCHANGED vars
    BY <1>1 DEF vars, LockInv, LocksHeld, StoresLocked
  <1>2. ASSUME NEW t \in Thread, Step(t) PROVE LockInv'
    BY <1>2, SearchDisciplined, RemoveDisciplined, LockingDisciplined, UnlinkDisciplined,
       StoreDisciplined DEF Step
  <1> QED
    BY <1>1, <1>2, CallDisciplined DEF Next

LEMMA Inductive == Spec => [](TypeOK /\ LockInv)
  <1>1. TypeOK /\ LockInv /\ [Next]_vars => (TypeOK /\ LockInv)'
    BY NextTyped, NextDisciplined
  <1> QED
    BY InitTyped, InitDisciplined, <1>1, PTL DEF Spec

\* A mutex has one owner, and every call holds the mutexes that its place in
\* add or remove calls for (main.cpp:136-163, 241-451).
THEOREM Locking == Spec => []LocksHeld
  <1>1. LockInv => LocksHeld
    BY DEF LockInv
  <1> QED
    BY Inductive, <1>1, PTL

\* The tree pointers a thread has still to write are those of nodes it has
\* locked (main.cpp:153-163, 307-316, 394-404, 466-487).
THEOREM Storing == Spec => []StoresLocked
  <1>1. LockInv => StoresLocked
    BY DEF LockInv
  <1> QED
    BY Inductive, <1>1, PTL

-----------------------------------------------------------------------------
(* Who writes the tree pointers and the marks *)

LEMMA ConstructGuarded ==
    ASSUME TypeOK, NEW t \in Thread, AddSnapshot(t)
    PROVE  GuardedWrite
  <1> DEFINE k == op[t].key
             n == reg[t].node
             u == Snapshot(n, k)
             m == Fresh(k)
  <1>1. marked' = marked
    BY DEF AddSnapshot
  <1>2. CASE UNCHANGED link
    BY <1>1, <1>2 DEF GuardedWrite
  <1>3. CASE (\E w \in Node \ alloc : value[w] = k) /\ Construct(m, n, u)
    <2>1. m \in Node \ alloc
      BY <1>3 DEF Fresh
    <2>2. ASSUME NEW o \in alloc, NEW f \in TreeField
          PROVE  link'[f][o] = link[f][o]
      BY <1>3, <2>1, <2>2 DEF Construct, TypeOK, TreeField, Field, Ptr
    <2> QED
      BY <1>1, <2>2 DEF GuardedWrite
  <1> QED
    BY <1>2, <1>3 DEF AddSnapshot

LEMMA MarkGuarded ==
    ASSUME TypeOK, NEW t \in Thread, NEW l, NEW stores, Mark(t, l, stores),
           l # "store", reg[t].node \in held[t]
    PROVE  GuardedWrite
  <1>1. pc'[t] = "store" /\ pc[t] = l /\ link' = link
    BY DEF Mark, Proceed, Goto, TypeOK
  <1>2. \A n \in alloc : marked'[n] # marked[n] => n = reg[t].node
    <2>1. marked' = [marked EXCEPT ![reg[t].node] = TRUE]
      BY DEF Mark
    <2>2. marked \in [Ptr -> BOOLEAN] /\ alloc \subseteq Ptr
      BY DEF TypeOK, Ptr
    <2> QED
      BY <2>1, <2>2
  <1> QED
    BY <1>1, <1>2 DEF GuardedWrite

LEMMA StoreGuarded ==
    ASSUME TypeOK, LockInv, NEW t \in Thread, DoStore(t)
    PROVE  GuardedWrite
  <1> DEFINE s == todo[t]
  <1>1. s \in Seq(Store) /\ s # << >> /\ marked' = marked
    BY DEF DoStore, TypeOK
  <1>2. Head(s) \in Store /\ Head(s) = s[1] /\ 1 \in DOMAIN s /\ Tail(s) # s
    <2>1. Len(Tail(s)) # Len(s)
      BY <1>1
    <2>2. 1 \in DOMAIN s /\ s[1] \in Store
      BY <1>1
    <2>3. Head(s) = s[1]
      BY <1>1
    <2> QED
      BY <2>1, <2>2, <2>3
  <1>3. todo'[t] = Tail(s)
    BY DEF DoStore, TypeOK
  <1>4. link' = [link EXCEPT ![Head(s).f][Head(s).n] = Head(s).v]
    BY DEF DoStore
  <1>5. \A n \in alloc : \A f \in TreeField :
           link'[f][n] # link[f][n] => f = Head(s).f /\ n = Head(s).n
    BY <1>2, <1>4 DEF TypeOK, Store, TreeField, Field, Ptr
  <1>6. Head(s).f \in TreeField => Head(s).n \in held[t]
    BY <1>2 DEF LockInv, StoresLocked
  <1> QED
    BY <1>1, <1>2, <1>3, <1>5, <1>6 DEF GuardedWrite

LEMMA QuietGuarded ==
    ASSUME UNCHANGED <<link, marked>>
    PROVE  GuardedWrite
  BY DEF GuardedWrite

LEMMA StepGuarded ==
    ASSUME TypeOK, LockInv, NEW t \in Thread, Step(t)
    PROVE  GuardedWrite
  <1>1. CASE UNCHANGED heap
    BY <1>1, QuietGuarded DEF heap
  <1>2. CASE AddSnapshot(t)
    BY <1>2, ConstructGuarded
  <1>3. CASE UnlinkLeaf(t) \/ UnlinkOneChild(t) \/ PromoteRight(t) \/ ApplyRemove(t)
    BY <1>3, UnlinkDisciplined, MarkGuarded
    DEF UnlinkLeaf, UnlinkOneChild, PromoteRight, ApplyRemove
  <1>4. CASE DoStore(t)
    BY <1>4, StoreGuarded
  <1>5. CASE Walk(t) \/ Found(t) \/ MissSnapshot(t) \/ AddLock(t) \/ ReadParent(t)
             \/ LockParent(t) \/ Recheck(t) \/ RemovedMeanwhile(t) \/ LockNode(t)
             \/ ReadPred(t) \/ ReadSucc(t)
    BY <1>1, <1>5 DEF Walk, Found, MissSnapshot, AddLock, ReadParent, LockParent, Recheck,
       RemovedMeanwhile, LockNode, ReadPred, ReadSucc, TryLock, Lock
  <1>6. CASE LockChild(t) \/ LockSnapshot(t) \/ LockLeft(t) \/ LockRight(t)
             \/ LockRightNode(t) \/ ReadSuccParent(t) \/ LockSuccParent(t) \/ RecheckSucc(t)
             \/ LockSucc(t) \/ LockSuccRight(t) \/ LockSuccRightSnapshot(t)
    BY <1>1, <1>6 DEF LockChild, LockSnapshot, LockLeft, LockRight, LockRightNode,
       ReadSuccParent, LockSuccParent, RecheckSucc, LockSucc, LockSuccRight,
       LockSuccRightSnapshot, TryLock, Lock
  <1> QED
    BY <1>2, <1>3, <1>4, <1>5, <1>6 DEF Step

\* Readers that hold a node's mutex see its tree pointers and its mark stand
\* still: whoever changes them holds it (main.cpp:139, 245-256, 263-265, 344, 394).
THEOREM Guarding == Spec => GuardedWrites
  <1>1. TypeOK /\ LockInv /\ [Next]_vars => [GuardedWrite]_vars
    <2> SUFFICES ASSUME TypeOK, LockInv, Next PROVE GuardedWrite
      OBVIOUS
    <2>1. ASSUME NEW t \in Thread, NEW o, Call(t, o) PROVE GuardedWrite
      BY <2>1, QuietGuarded DEF Call, heap
    <2> QED
      BY <2>1, StepGuarded DEF Next
  <1> QED
    BY Inductive, <1>1, PTL DEF Spec, GuardedWrites

-----------------------------------------------------------------------------
(* The settled heap *)

\* The two sides of a node, of the tree and in key order.
Side == {"left", "right"}
Opp(e) == IF e = "left" THEN "right" ELSE "left"
SnapshotField(e) == IF e = "left" THEN "leftSnapshot" ELSE "rightSnapshot"

\* x comes before y on the way to side e.
Beside(e, x, y) == IF e = "left" THEN value[x] < value[y] ELSE value[y] < value[x]

\* The last node on side e.
End(e) == IF e = "left" THEN rightSentinel ELSE leftSentinel

\* A heap as it is when no store is pending: the child and the neighbour of each
\* node on each side, its parent, and its bound on each side, the ancestor that
\* the subtree of the node lies next to.
Heap == [child : [Side -> [Ptr -> Ptr]], near : [Side -> [Ptr -> Ptr]],
         parent : [Ptr -> Ptr], bound : [Side -> [Ptr -> Ptr]]]

\* Each live node but the last, which is beside all others, has a live neighbour,
\* which points back, and no live node lies between them.
Ordered(g, live) ==
    \A e \in Side : \A x \in live \ {End(e)} :
        LET y == g.near[e][x] IN
        /\ Beside(e, End(e), x)
        /\ y \in live /\ Beside(e, y, x) /\ g.near[Opp(e)][y] = x
        /\ \A z \in live : ~(Beside(e, y, z) /\ Beside(e, z, x))

\* Children are live, point back, and lie between the bounds of their parent.
Hung(g, live) ==
    \A e \in Side : \A x \in live : g.child[e][x] # NULL =>
        LET c == g.child[e][x] IN
        /\ c \in live /\ g.parent[c] = x
        /\ g.bound[Opp(e)][c] = x /\ g.bound[e][c] = g.bound[e][x]

\* Every live node but the first sentinel hangs below a live one, the other
\* sentinel below the first.
Rooted(g, live) ==
    /\ g.parent[rightSentinel] = NULL /\ g.parent[leftSentinel] = rightSentinel
    /\ \A x \in live \ {rightSentinel} :
          g.parent[x] \in live /\ \E e \in Side : g.child[e][g.parent[x]] = x

Bounded(g, live) ==
    \A e \in Side : \A x \in live :
        g.bound[e][x] # NULL => g.bound[e][x] \in live /\ Beside(e, g.bound[e][x], x)

\* A node without a child on side e has its bound there as neighbour, and
\* between two neighbours exactly one child is missing.
Gapped(g, live) ==
    \A e \in Side : \A x \in live :
        /\ g.child[e][x] = NULL => g.near[e][x] = g.bound[e][x]
        /\ x # End(e) => (g.child[e][x] = NULL) # (g.child[Opp(e)][g.near[e][x]] = NULL)

Shape(g, live) ==
    /\ {leftSentinel, rightSentinel} \subseteq live /\ live \subseteq Node
    /\ \A x, y \in live : x # y => value[x] # value[y]
    /\ Ordered(g, live) /\ Hung(g, live) /\ Rooted(g, live)
    /\ Bounded(g, live) /\ Gapped(g, live)

-----------------------------------------------------------------------------
(* The heap in memory, the stores still to be made, and the settled heap *)

Final(g, f, x) ==
    CASE f = "left"          -> g.child["left"][x]
      [] f = "right"         -> g.child["right"][x]
      [] f = "leftSnapshot"  -> g.near["left"][x]
      [] f = "rightSnapshot" -> g.near["right"][x]
      [] f = "parent"        -> g.parent[x]

\* g is what memory becomes when the pending stores have been made.
Settles(g) ==
    /\ \A t \in Thread : \A w \in PendingStores(t) : w.n \in Live /\ Final(g, w.f, w.n) = w.v
    /\ \A f \in Field : \A x \in Live :
          link[f][x] # Final(g, f, x) =>
              \E t \in Thread : \E w \in PendingStores(t) : w.f = f /\ w.n = x

\* Between two neighbours lies a gap, and the lock that protects it is that of
\* the one whose child is missing there.  H is what a thread has locked.
Owns(g, H, e, y) ==
    /\ y \in Live \ {End(e)}
    /\ \/ g.child[e][y] = NULL /\ y \in H
       \/ g.child[Opp(e)][g.near[e][y]] = NULL /\ g.near[e][y] \in H

\* The node that an add of t is publishing.
Adding(t) == pc[t] = "store" /\ op[t].type = "add"
New(t) == todo[t][Len(todo[t])].v

\* Both snapshots of the neighbours across a gap are written by its owner, or by
\* the add that made the gap.
GapsOwned(g) ==
    \A t \in Thread : \A w \in PendingStores(t) : \A e \in Side :
        w.f = SnapshotField(e) =>
            /\ w.n # End(e)
            /\ Owns(g, held[t], e, w.n) \/ (Adding(t) /\ (w.n \in held[t] \/ Len(todo[t]) = 3))

\* What a pending store overwrites is a node the thread has locked.
OldHeld ==
    \A t \in Thread : \A w \in PendingStores(t) :
        /\ w.f \in {"leftSnapshot", "rightSnapshot"} =>
              w.n \in held[t] \/ link[w.f][w.n] \in held[t] \cup {w.v}
        /\ w.f = "parent" => link["parent"][w.n] \in held[t] \cup {w.v}

\* What child and parent pointers lead to, and what snapshots lead to: a node
\* being added is not yet among the former, before its first store nor the latter.
Shown == {x \in alloc \cup {NULL} : \A u \in Thread : Adding(u) => x # New(u)}
Seen  == {x \in alloc \cup {NULL} :
            \A u \in Thread : Adding(u) /\ Len(todo[u]) = 3 => x # New(u)}

LinksShown ==
    /\ ~marked[NULL]
    /\ \A x \in alloc : \A f \in TreeField : link[f][x] \in Shown
    /\ \A x \in alloc : \A f \in {"leftSnapshot", "rightSnapshot"} : link[f][x] \in Seen
    /\ \A x \in alloc : x # rightSentinel =>
          link["parent"][x] # NULL /\ link["leftSnapshot"][x] # NULL
    /\ \A x \in alloc : x # leftSentinel => link["rightSnapshot"][x] \notin {NULL, rightSentinel}
    /\ \A x \in Node \ alloc :
          ~marked[x] /\ link["left"][x] = NULL /\ link["right"][x] = NULL

LocalsShown(r) ==
    /\ {r.node, r.parent, r.left, r.right, r.succParent, r.succRight} \subseteq Shown
    /\ {r.leftNode, r.rightNode, r.succRightSnapshot} \subseteq Seen

\* The stores of an add of x below n on side e, the neighbour there being a.
AddList(e, n, a, x) ==
    << [f |-> SnapshotField(Opp(e)), n |-> a, v |-> x],
       [f |-> SnapshotField(e), n |-> n, v |-> x],
       [f |-> e, n |-> n, v |-> x] >>

AddLeft(t, e, n, x) ==
    \/ \E a \in Node : todo[t] = AddList(e, n, a, x)
    \/ todo[t] = << [f |-> SnapshotField(e), n |-> n, v |-> x], [f |-> e, n |-> n, v |-> x] >>
    \/ todo[t] = << [f |-> e, n |-> n, v |-> x] >>

\* What holds while t is publishing a node: it is a leaf below a node t has locked.
Publishing(g, t) ==
    LET n == reg[t].node
        x == New(t)
    IN  /\ n \in held[t] /\ n \in Live
        /\ x \in Live \ {leftSentinel, rightSentinel}
        /\ g.parent[x] = n
        /\ g.child["left"][x] = NULL /\ g.child["right"][x] = NULL
        /\ \E e \in Side : AddLeft(t, e, n, x)

-----------------------------------------------------------------------------
(* What an operation knows where it is *)

\* In remove, the places where the node and its parent are locked; those from
\* which on both its children are, its predecessor, the parent of its successor,
\* and the successor.
SuccPlaces       == {"lockSuccRight", "lockSuccRightSnapshot", "applyRemove"}
SuccParentPlaces == {"recheckSucc", "lockSucc"} \cup SuccPlaces
DeepPlaces       == {"readSuccParent", "lockSuccParent"} \cup SuccParentPlaces
PredPlaces       == {"promoteRight"} \cup DeepPlaces
TwoPlaces        == {"lockLeft", "lockRight", "lockRightNode"} \cup PredPlaces
OnePlaces        == {"lockChild", "lockSnapshot", "unlinkOneChild"}
NodePlaces       == {"readPred", "readSucc", "unlinkLeaf"} \cup OnePlaces \cup TwoPlaces
RemovePlaces     == {"lockParent", "recheck", "lockNode"} \cup NodePlaces

Calling(l, o, r) ==
    /\ l # "idle" => o \in S!Op /\ r.node # NULL
    /\ l \in {"miss", "addLock", "addSnapshot"} => o.key # value[r.node]
    /\ l = "miss" => o.type # "add"
    /\ l \in {"addLock", "addSnapshot"} => o.type = "add"
    /\ l \in RemovePlaces =>
          /\ o.type = "remove" /\ o.key = value[r.node]
          /\ r.parent # NULL
    /\ l = "store" => o.type \in {"add", "remove"}

\* The side of n on which key k lies.
SideOf(n, k) == IF k < value[n] THEN "left" ELSE "right"

NearNode(g, l, o, r) ==
    LET n == r.node IN
        /\ l = "addSnapshot" => n \in Live /\ g.child[SideOf(n, o.key)][n] = NULL
        /\ l = "lockNode" => link["parent"][n] = r.parent
        /\ l \in NodePlaces =>
              /\ n \in Live /\ g.parent[n] = r.parent
              /\ g.child["left"][n] = r.left /\ g.child["right"][n] = r.right
              /\ r.leftChild = (g.child["left"][r.parent] = n)
        /\ l = "unlinkLeaf" => r.left = NULL /\ r.right = NULL
        /\ l \in OnePlaces => (r.left = NULL) # (r.right = NULL)
        /\ l \in TwoPlaces => r.left # NULL /\ r.right # NULL

\* m is the neighbour of y on side e, and the lock of the gap is among H.
Neighbour(g, H, e, y, m) == Owns(g, H, e, y) /\ g.near[e][y] = m

NearNeighbours(g, l, r, H) ==
    LET n == r.node IN
        /\ l \in {"readSucc", "unlinkLeaf"} \cup OnePlaces /\ r.left = NULL =>
              Neighbour(g, H, "left", n, r.rightNode)
        /\ l \in {"unlinkLeaf"} \cup OnePlaces /\ r.right = NULL =>
              Neighbour(g, H, "right", n, r.leftNode)
        /\ l = "unlinkOneChild" =>
              Neighbour(g, H, "left", n, r.rightNode) /\ Neighbour(g, H, "right", n, r.leftNode)
        /\ l \in {"readSucc", "unlinkLeaf", "lockRightNode"} \cup OnePlaces =>
              r.rightNode # NULL
        /\ l \in {"unlinkLeaf", "lockRightNode"} \cup OnePlaces \cup PredPlaces =>
              r.leftNode \notin {NULL, rightSentinel}

NearSuccessor(g, l, r, H) ==
    LET n == r.node
        s == r.leftNode
    IN  /\ l = "lockRightNode" /\ g.child["left"][r.right] = NULL => s = r.right
        /\ l \in PredPlaces => Neighbour(g, H, "left", n, r.rightNode)
        /\ l = "promoteRight" => s = r.right /\ g.child["left"][s] = NULL
        /\ l \in DeepPlaces => g.child["left"][r.right] # NULL
        /\ l \in {"lockSuccParent"} \cup SuccParentPlaces => r.succParent # NULL
        /\ l \in {"recheckSucc", "lockSucc"} => link["parent"][s] = r.succParent
        /\ l \in SuccPlaces =>
              Neighbour(g, H, "right", n, s) /\ g.parent[s] = r.succParent
        /\ l \in {"lockSuccRightSnapshot", "applyRemove"} => g.child["right"][s] = r.succRight
        /\ l = "lockSuccRightSnapshot" =>
              r.succRight # NULL /\ r.succRightSnapshot # NULL
        /\ l = "applyRemove" => Neighbour(g, H, "right", s, r.succRightSnapshot)

Knows(g, l, o, r, H) ==
    /\ Calling(l, o, r) /\ NearNode(g, l, o, r)
    /\ NearNeighbours(g, l, r, H) /\ NearSuccessor(g, l, r, H)

\* What holds of memory and the heap it settles to.
HeapInv(g) ==
    /\ g \in Heap /\ Shape(g, Live) /\ Settles(g)
    /\ NoStoreRace /\ GapsOwned(g) /\ OldHeld /\ LinksShown
    /\ \A t \in Thread :
          /\ LocalsShown(reg[t]) /\ held[t] \subseteq Seen \ {NULL}
          /\ Knows(g, pc[t], op[t], reg[t], held[t])
          /\ Adding(t) => Publishing(g, t)

\* The inductive invariant: memory, with the stores still to be made, is that of a
\* heap in order.
Good(g) == TypeOK /\ LockInv /\ HeapInv(g)
InOrder == \E g : Good(g)

-----------------------------------------------------------------------------
(* The two sides, and the order of the keys *)

\* The opposite of a side.
LEMMA Sides ==
    /\ \A e \in Side : Opp(e) \in Side /\ Opp(e) # e /\ Opp(Opp(e)) = e
    /\ \A d, e \in Side : d = e \/ d = Opp(e)
  BY DEF Side, Opp

\* Node values order the nodes on either side.
LEMMA Order ==
    \A e \in Side : \A x, y, z \in Node :
        /\ Beside(e, x, y) <=> Beside(Opp(e), y, x)
        /\ ~(Beside(e, x, y) /\ Beside(e, y, x))
        /\ Beside(e, x, y) /\ Beside(e, y, z) => Beside(e, x, z)
        /\ value[x] # value[y] => Beside(e, x, y) \/ Beside(e, y, x)
        /\ Beside(e, x, y) => x # y /\ value[x] # value[y]
  BY NodeAssumption DEF Side, Opp, Beside

\* The sentinels end the order on either side.
LEMMA Ends ==
    /\ \A e \in Side : End(e) \in {leftSentinel, rightSentinel} /\ End(e) # End(Opp(e))
    /\ \A x : x \in {leftSentinel, rightSentinel} <=> \E e \in Side : x = End(e)
  BY NodeAssumption DEF Side, Opp, End

-----------------------------------------------------------------------------
(* What the shape of the heap says of one node *)

\* The neighbour of x on side e.
LEMMA NeighbourOf ==
    ASSUME NEW g, NEW live, Shape(g, live), NEW e \in Side, NEW x \in live \ {End(e)}
    PROVE  LET y == g.near[e][x] IN
           /\ y \in live \ {End(Opp(e))} /\ y # x /\ Beside(e, y, x) /\ Beside(Opp(e), x, y)
           /\ g.near[Opp(e)][y] = x
           /\ \A z \in live : ~(Beside(e, y, z) /\ Beside(e, z, x))
           /\ \A z \in live : z # x /\ z # y => Beside(e, z, y) \/ Beside(e, x, z)
<1> DEFINE y == g.near[e][x]
<1>1. /\ live \subseteq Node /\ \A u, w \in live : u # w => value[u] # value[w]
      /\ {leftSentinel, rightSentinel} \subseteq live
    BY DEF Shape
<1>2. /\ y \in live /\ Beside(e, y, x) /\ g.near[Opp(e)][y] = x
      /\ \A z \in live : ~(Beside(e, y, z) /\ Beside(e, z, x))
    BY DEF Shape, Ordered
<1>3. y # x /\ Beside(Opp(e), x, y)
    BY <1>1, <1>2, Order
<1>4. y # End(Opp(e))
    <2> SUFFICES ASSUME y = End(Opp(e)) PROVE FALSE
        OBVIOUS
    <2>1. x \in live \ {End(Opp(e))} /\ Opp(e) \in Side
        BY <1>3, Sides
    <2>2. Beside(Opp(e), y, x)
        BY <2>1 DEF Shape, Ordered
    <2> QED
        BY <1>1, <1>2, <1>3, <2>1, <2>2, Order
<1>5. ASSUME NEW z \in live, z # x, z # y PROVE Beside(e, z, y) \/ Beside(e, x, z)
    <2>1. x \in Node /\ y \in Node /\ z \in Node /\ value[z] # value[x] /\ value[z] # value[y]
        BY <1>1, <1>2, <1>5
    <2>2. (Beside(e, z, y) \/ Beside(e, y, z)) /\ (Beside(e, z, x) \/ Beside(e, x, z))
        BY <2>1, Order
    <2> QED
        BY <1>2, <2>2
<1> QED
    BY <1>2, <1>3, <1>4, <1>5

\* The child of x on side e.
LEMMA ChildOf ==
    ASSUME NEW g, NEW live, Shape(g, live), NEW e \in Side, NEW x \in live,
           g.child[e][x] # NULL
    PROVE  LET c == g.child[e][x] IN
           /\ c \in live \ {rightSentinel} /\ c # x /\ g.parent[c] = x
           /\ g.bound[Opp(e)][c] = x /\ g.bound[e][c] = g.bound[e][x]
           /\ Beside(e, c, x)
<1> DEFINE c == g.child[e][x]
<1>1. /\ c \in live /\ g.parent[c] = x
      /\ g.bound[Opp(e)][c] = x /\ g.bound[e][c] = g.bound[e][x]
    BY DEF Shape, Hung
<1>2. live \subseteq Node /\ NULL \notin Node /\ Opp(e) \in Side
    BY NodeAssumption, Sides DEF Shape
<1>3. Beside(Opp(e), x, c)
    <2>1. g.bound[Opp(e)][c] # NULL
        BY <1>1, <1>2
    <2> QED
        BY <1>1, <1>2, <2>1 DEF Shape, Bounded
<1>4. Beside(e, c, x) /\ c # x
    BY <1>1, <1>2, <1>3, Order, Sides
<1>5. c # rightSentinel
    BY <1>1, <1>2 DEF Shape, Rooted
<1> QED
    BY <1>1, <1>4, <1>5

\* The parent of x and the side on which x hangs.
LEMMA ParentOf ==
    ASSUME NEW g, NEW live, Shape(g, live), NEW x \in live \ {rightSentinel}
    PROVE  LET q == g.parent[x] IN
           /\ q \in live \ {x}
           /\ \E f \in Side : g.child[f][q] = x
<1>1. PICK f \in Side : g.child[f][g.parent[x]] = x
    BY DEF Shape, Rooted
<1>2. g.parent[x] \in live
    BY DEF Shape, Rooted
<1>3. x # NULL
    BY NodeAssumption DEF Shape
<1>4. x # g.parent[x]
    BY <1>1, <1>2, <1>3, ChildOf
<1> QED
    BY <1>1, <1>2, <1>4

\* Only the child of a node hangs below it on that side.
LEMMA OneChild ==
    ASSUME NEW g, NEW live, Shape(g, live), NEW d \in Side, NEW e \in Side,
           NEW x \in live, NEW y \in live, g.child[d][x] # NULL, g.child[d][x] = g.child[e][y]
    PROVE  x = y /\ d = e
<1>1. g.parent[g.child[d][x]] = x /\ g.parent[g.child[e][y]] = y
    BY ChildOf
<1>2. x = y
    BY <1>1
<1>3. Beside(d, g.child[d][x], x) /\ Beside(e, g.child[d][x], x) /\ g.child[d][x] \in live
    BY <1>2, ChildOf
<1>4. live \subseteq Node
    BY DEF Shape
<1> QED
    BY <1>2, <1>3, <1>4, Order, Sides

\* A heap that agrees on the live nodes has the same shape.
LEMMA SameShape ==
    ASSUME NEW g, NEW h, NEW live, Shape(g, live),
           \A x \in live : h.parent[x] = g.parent[x],
           \A d \in Side : \A x \in live :
              h.child[d][x] = g.child[d][x] /\ h.near[d][x] = g.near[d][x]
              /\ h.bound[d][x] = g.bound[d][x]
    PROVE  Shape(h, live)
<1>1. /\ {leftSentinel, rightSentinel} \subseteq live /\ live \subseteq Node
      /\ \A x, y \in live : x # y => value[x] # value[y]
    BY DEF Shape
<1>2. Ordered(h, live)
    BY Sides DEF Shape, Ordered
<1>3. Hung(h, live)
    <2> SUFFICES ASSUME NEW e \in Side, NEW x \in live, h.child[e][x] # NULL,
                        NEW c, c = h.child[e][x]
                 PROVE  /\ c \in live /\ h.parent[c] = x
                        /\ h.bound[Opp(e)][c] = x /\ h.bound[e][c] = h.bound[e][x]
        BY DEF Hung
    <2>1. c = g.child[e][x] /\ h.bound[e][x] = g.bound[e][x] /\ Opp(e) \in Side
        BY Sides
    <2>2. /\ c \in live /\ g.parent[c] = x
          /\ g.bound[Opp(e)][c] = x /\ g.bound[e][c] = g.bound[e][x]
        BY <2>1 DEF Shape, Hung
    <2> QED
        BY <2>1, <2>2
<1>4. Rooted(h, live)
    BY <1>1 DEF Shape, Rooted
<1>5. Bounded(h, live)
    BY DEF Shape, Bounded
<1>6. Gapped(h, live)
    <2> SUFFICES ASSUME NEW e \in Side, NEW x \in live
                 PROVE  /\ h.child[e][x] = NULL => h.near[e][x] = h.bound[e][x]
                        /\ x # End(e) => (h.child[e][x] = NULL)
                                            # (h.child[Opp(e)][h.near[e][x]] = NULL)
        BY DEF Gapped
    <2>1. h.child[e][x] = NULL => h.near[e][x] = h.bound[e][x]
        BY DEF Shape, Gapped
    <2>2. x # End(e) => g.near[e][x] \in live
        BY NeighbourOf
    <2> QED
        BY <2>1, <2>2, Sides DEF Shape, Gapped
<1> QED
    BY <1>1, <1>2, <1>3, <1>4, <1>5, <1>6 DEF Shape

-----------------------------------------------------------------------------
(* What an add makes of the heap *)

\* m is hung below n on side e, where n has no child, next to n's neighbour there.
Hanging(g, e, n, m) ==
    LET a == g.near[e][n] IN
    [child |-> [d \in Side |-> [x \in Ptr |->
                  IF x = m THEN NULL ELSE IF d = e /\ x = n THEN m ELSE g.child[d][x]]],
     near |-> [d \in Side |-> [x \in Ptr |->
                  IF x = m THEN IF d = e THEN a ELSE n
                  ELSE IF x = IF d = e THEN n ELSE a THEN m ELSE g.near[d][x]]],
     parent |-> [x \in Ptr |-> IF x = m THEN n ELSE g.parent[x]],
     bound |-> [d \in Side |-> [x \in Ptr |->
                  IF x = m THEN IF d = e THEN g.bound[e][n] ELSE n ELSE g.bound[d][x]]]]

\* A heap in order stays in order when a node is hung in a gap that its value fits.
LEMMA HangingShape ==
    ASSUME NEW g \in Heap, NEW live, Shape(g, live), NEW e \in Side,
           NEW n \in live \ {End(e)}, NEW m \in Node \ live, g.child[e][n] = NULL,
           Beside(e, g.near[e][n], m), Beside(e, m, n)
    PROVE  Hanging(g, e, n, m) \in Heap /\ Shape(Hanging(g, e, n, m), live \cup {m})
<1> DEFINE a == g.near[e][n]
           h == Hanging(g, e, n, m)
           o == Opp(e)
<1>1. /\ live \subseteq Node /\ \A u, w \in live : u # w => value[u] # value[w]
      /\ {leftSentinel, rightSentinel} \subseteq live /\ NULL \notin Node
    BY NodeAssumption DEF Shape
<1>2. /\ a \in live /\ a # End(o) /\ a # n /\ Beside(e, a, n) /\ g.near[o][a] = n
      /\ \A z \in live : z # n /\ z # a => Beside(e, z, a) \/ Beside(e, n, z)
    BY NeighbourOf
<1>3. /\ h \in Heap
      /\ \A d \in Side : \A x \in Ptr :
            /\ h.child[d][x] = IF x = m THEN NULL ELSE IF d = e /\ x = n THEN m ELSE g.child[d][x]
            /\ h.near[d][x] = IF x = m THEN IF d = e THEN a ELSE n
                              ELSE IF x = IF d = e THEN n ELSE a THEN m ELSE g.near[d][x]
            /\ h.bound[d][x] = IF x = m THEN IF d = e THEN g.bound[e][n] ELSE n ELSE g.bound[d][x]
      /\ \A x \in Ptr : h.parent[x] = IF x = m THEN n ELSE g.parent[x]
    BY <1>1, <1>2 DEF Hanging, Heap
<1> HIDE DEF h
<1>4. o \in Side /\ o # e /\ Opp(o) = e /\ Opp(e) = o /\ \A d \in Side : d = e \/ d = o
    BY Sides
<1> HIDE DEF o
<1>5. m # n /\ m # a /\ m # leftSentinel /\ m # rightSentinel /\ m # NULL
    BY <1>1, <1>2
<1>6. /\ a \in Node /\ n \in Node /\ Beside(o, m, a) /\ Beside(o, n, m)
      /\ \A z \in live : z # n /\ z # a =>
            /\ value[z] # value[m]
            /\ (Beside(e, z, a) /\ Beside(e, z, m)) \/ (Beside(e, n, z) /\ Beside(e, m, z))
    BY <1>1, <1>2, <1>4, Order
<1>7. \A x \in live \cup {m} : \A z \in live \cup {m} : x # z => value[x] # value[z]
    <2>1. \A z \in live : value[z] # value[m]
        BY <1>1, <1>2, <1>6, Order
    <2> QED
        BY <1>1, <2>1
<1>8. Ordered(h, live \cup {m})
    <2>1. \A z \in live \cup {m} : ~(Beside(e, a, z) /\ Beside(e, z, m))
                                  /\ ~(Beside(e, m, z) /\ Beside(e, z, n))
        BY <1>1, <1>2, <1>6, Order
    <2>2. \A z \in live \cup {m} : ~(Beside(o, m, z) /\ Beside(o, z, a))
                                  /\ ~(Beside(o, n, z) /\ Beside(o, z, m))
        BY <1>1, <1>4, <1>6, <2>1, Order
    <2>3. /\ h.near[e][m] = a /\ h.near[o][a] = m /\ h.near[o][m] = n /\ h.near[e][n] = m
          /\ \A d \in Side : \A x \in live :
                (d = e => x # n) /\ (d = o => x # a) => h.near[d][x] = g.near[d][x]
        BY <1>1, <1>2, <1>3, <1>4, <1>5
    <2>4. Beside(e, End(e), m) /\ Beside(o, End(o), m)
        <3>1. Beside(e, End(e), n) /\ Beside(o, End(o), a)
            BY <1>2, <1>4 DEF Shape, Ordered
        <3>2. End(e) \in live /\ End(o) \in live
            BY <1>1, <1>4, Ends
        <3>3. End(e) # n /\ End(o) # a
            BY <1>2
        <3>4. End(e) = a \/ Beside(e, End(e), a)
            BY <1>1, <1>2, <1>6, <3>1, <3>2, <3>3, Order
        <3>5. End(o) = n \/ Beside(e, n, End(o))
            BY <1>1, <1>2, <1>4, <1>6, <3>1, <3>2, <3>3, Order
        <3> QED
            BY <1>1, <1>4, <1>6, <3>2, <3>4, <3>5, Order
    <2> SUFFICES ASSUME NEW d \in Side, NEW x \in (live \cup {m}) \ {End(d)}
                 PROVE  LET y == h.near[d][x] IN
                        /\ Beside(d, End(d), x)
                        /\ y \in live \cup {m} /\ Beside(d, y, x) /\ h.near[Opp(d)][y] = x
                        /\ \A z \in live \cup {m} : ~(Beside(d, y, z) /\ Beside(d, z, x))
        BY DEF Ordered
    <2>5. CASE x = m
        BY <1>2, <1>4, <1>6, <2>1, <2>2, <2>3, <2>4, <2>5
    <2>6. CASE d = e /\ x = n
        <3>1. Beside(e, End(e), n)
            BY <2>6 DEF Shape, Ordered
        <3> QED
            BY <1>2, <1>4, <2>1, <2>3, <2>6, <3>1
    <2>7. CASE d = o /\ x = a
        <3>1. Beside(o, End(o), a)
            BY <1>2, <1>4, <2>7 DEF Shape, Ordered
        <3> QED
            BY <1>2, <1>4, <1>6, <2>2, <2>3, <2>7, <3>1
    <2>8. CASE x # m /\ ~(d = e /\ x = n) /\ ~(d = o /\ x = a)
        <3>1. x \in live \ {End(d)} /\ h.near[d][x] = g.near[d][x]
            BY <1>4, <2>3, <2>8
        <3>2. /\ Beside(d, End(d), x) /\ g.near[d][x] \in live
              /\ Beside(d, g.near[d][x], x) /\ g.near[Opp(d)][g.near[d][x]] = x
              /\ \A z \in live : ~(Beside(d, g.near[d][x], z) /\ Beside(d, z, x))
            BY <3>1 DEF Shape, Ordered
        <3>3. /\ d = e => g.near[d][x] # a
              /\ d = o => g.near[d][x] # n
            BY <1>2, <1>4, <2>8, <3>2
        <3>4. h.near[Opp(d)][g.near[d][x]] = x
            BY <1>4, <2>3, <3>2, <3>3
        <3>5. ~(Beside(d, g.near[d][x], m) /\ Beside(d, m, x))
            <4> SUFFICES ASSUME Beside(d, g.near[d][x], m), Beside(d, m, x) PROVE FALSE
                OBVIOUS
            <4>1. CASE d = e
                <5>1. ~Beside(e, n, x) /\ x # a
                    BY <1>1, <1>4, <1>6, <2>8, <3>1, <3>2, <4>1, Order
                <5> QED
                    BY <1>1, <1>2, <1>6, <2>8, <3>1, <3>2, <4>1, <5>1, Order
            <4>2. CASE d = o
                <5>1. x # n
                    BY <1>1, <1>4, <1>6, <2>8, <3>1, <3>2, <4>2, Order
                <5> QED
                    BY <1>1, <1>2, <1>4, <1>6, <2>8, <3>1, <3>2, <4>2, <5>1, Order
            <4> QED
                BY <1>4, <4>1, <4>2
        <3> QED
            BY <3>1, <3>2, <3>4, <3>5
    <2> QED
        BY <1>4, <2>5, <2>6, <2>7, <2>8
<1>9. Hung(h, live \cup {m})
    <2> SUFFICES ASSUME NEW d \in Side, NEW x \in live \cup {m}, h.child[d][x] # NULL
                 PROVE  LET c == h.child[d][x] IN
                        /\ c \in live \cup {m} /\ h.parent[c] = x
                        /\ h.bound[Opp(d)][c] = x /\ h.bound[d][c] = h.bound[d][x]
        BY DEF Hung
    <2>1. x # m /\ x \in live
        BY <1>1, <1>3
    <2>2. CASE d = e /\ x = n
        BY <1>1, <1>3, <1>4, <1>5, <2>2 DEF o
    <2>3. CASE ~(d = e /\ x = n)
        <3>1. h.child[d][x] = g.child[d][x]
            BY <1>1, <1>3, <2>1, <2>3
        <3> QED
            BY <1>1, <1>3, <2>1, <3>1, ChildOf, Sides
    <2> QED
        BY <2>2, <2>3
<1>10. Rooted(h, live \cup {m})
    <2>1. h.parent[rightSentinel] = NULL /\ h.parent[leftSentinel] = rightSentinel
        BY <1>1, <1>3, <1>5 DEF Shape, Rooted
    <2>2. h.parent[m] = n /\ h.child[e][n] = m
        BY <1>1, <1>3, <1>5
    <2>3. ASSUME NEW x \in live \ {rightSentinel}
          PROVE  h.parent[x] \in live /\ \E d \in Side : h.child[d][h.parent[x]] = x
        <3>1. h.parent[x] = g.parent[x] /\ x # NULL /\ g.parent[x] \in live
            BY <1>1, <1>3, ParentOf
        <3>2. PICK d \in Side : g.child[d][g.parent[x]] = x
            BY ParentOf
        <3> QED
            BY <1>1, <1>3, <3>1, <3>2
    <2> QED
        BY <2>1, <2>2, <2>3 DEF Rooted
<1>11. Bounded(h, live \cup {m})
    <2> SUFFICES ASSUME NEW d \in Side, NEW x \in live \cup {m}, h.bound[d][x] # NULL
                 PROVE  h.bound[d][x] \in live \cup {m} /\ Beside(d, h.bound[d][x], x)
        BY DEF Bounded
    <2>1. CASE x = m
        <3>1. CASE d = e
            BY <1>1, <1>2, <1>3, <2>1, <3>1 DEF Shape, Gapped
        <3>2. CASE d = o
            BY <1>1, <1>3, <1>4, <1>6, <2>1, <3>2
        <3> QED
            BY <1>4, <3>1, <3>2
    <2>2. CASE x # m
        BY <1>1, <1>3, <2>2 DEF Shape, Bounded
    <2> QED
        BY <2>1, <2>2
<1>12. Gapped(h, live \cup {m})
    <2> SUFFICES ASSUME NEW d \in Side, NEW x \in live \cup {m}
                 PROVE  /\ h.child[d][x] = NULL => h.near[d][x] = h.bound[d][x]
                        /\ x # End(d) => (h.child[d][x] = NULL)
                                            # (h.child[Opp(d)][h.near[d][x]] = NULL)
        BY DEF Gapped
    <2>0. g.near[e][n] = g.bound[e][n] /\ g.child[o][a] # NULL
        BY <1>4 DEF Shape, Gapped, o
    <2>1. CASE x = m
        BY <1>1, <1>2, <1>3, <1>4, <1>5, <2>0, <2>1
    <2>2. CASE x # m
        <3>1. x \in live /\ (x # End(d) => g.near[d][x] \in live)
            BY <2>2, NeighbourOf
        <3>2. CASE x = IF d = e THEN n ELSE a
            <4>1. CASE d = e
                BY <1>1, <1>2, <1>3, <1>4, <1>5, <2>0, <2>2, <3>2, <4>1
            <4>2. CASE d # e
                BY <1>1, <1>2, <1>3, <1>4, <1>5, <2>0, <2>2, <3>2, <4>2
            <4> QED
                BY <4>1, <4>2
        <3>3. CASE x # IF d = e THEN n ELSE a
            <4>1. h.near[d][x] = g.near[d][x] /\ h.child[d][x] = g.child[d][x]
                  /\ h.bound[d][x] = g.bound[d][x]
                BY <1>1, <1>3, <1>4, <2>2, <3>1, <3>3
            <4>2. x # End(d) => h.child[Opp(d)][g.near[d][x]] = g.child[Opp(d)][g.near[d][x]]
                <5> SUFFICES ASSUME x # End(d), Opp(d) = e, g.near[d][x] = n PROVE FALSE
                    <6>1. x # End(d) => g.near[d][x] \in Ptr /\ g.near[d][x] # m /\ Opp(d) \in Side
                        BY <1>1, <1>5, <3>1, Sides
                    <6> QED
                        BY <1>3, <6>1
                <5>1. g.near[e][n] = x
                    BY <2>2, NeighbourOf
                <5> QED
                    BY <1>4, <3>3, <5>1
            <4>3. /\ g.child[d][x] = NULL => g.near[d][x] = g.bound[d][x]
                  /\ x # End(d) => (g.child[d][x] = NULL) # (g.child[Opp(d)][g.near[d][x]] = NULL)
                BY <3>1 DEF Shape, Gapped
            <4> QED
                BY <4>1, <4>2, <4>3
        <3> QED
            BY <3>2, <3>3
    <2> QED
        BY <2>1, <2>2
<1>13. {leftSentinel, rightSentinel} \subseteq live \cup {m} /\ live \cup {m} \subseteq Node
    BY <1>1
<1>14. Shape(h, live \cup {m})
    BY <1>7, <1>8, <1>9, <1>10, <1>11, <1>12, <1>13 DEF Shape
<1> QED
    BY <1>3, <1>14 DEF h

-----------------------------------------------------------------------------
(* What the removal of a node with at most one child makes of the heap *)

\* n, which has no child on side e, leaves the tree and the order: its other
\* child, or NULL, takes its place, on side f of its parent.
Unlinked(g, n, e, f) ==
    LET c == g.child[Opp(e)][n]
        q == g.parent[n]
    IN  [child |-> [d \in Side |-> [x \in Ptr |-> IF d = f /\ x = q THEN c ELSE g.child[d][x]]],
         near |-> [d \in Side |-> [x \in Ptr |->
                     IF x = g.near[Opp(d)][n] THEN g.near[d][n] ELSE g.near[d][x]]],
         parent |-> [x \in Ptr |-> IF x = c THEN q ELSE g.parent[x]],
         bound |-> [d \in Side |-> [x \in Ptr |->
                      IF g.bound[d][x] = n THEN g.bound[d][n] ELSE g.bound[d][x]]]]

\* A heap in order without a node that has no child on one side is in order.
LEMMA UnlinkedShape ==
    ASSUME NEW g \in Heap, NEW live, Shape(g, live), NEW e \in Side, NEW f \in Side,
           NEW n \in live \ {leftSentinel, rightSentinel},
           g.child[e][n] = NULL, g.child[f][g.parent[n]] = n
    PROVE  Unlinked(g, n, e, f) \in Heap /\ Shape(Unlinked(g, n, e, f), live \ {n})
<1> DEFINE h == Unlinked(g, n, e, f)
           o == Opp(e)
           c == g.child[Opp(e)][n]
           q == g.parent[n]
           rest == live \ {n}
<1>1. /\ live \subseteq Node /\ \A u, w \in live : u # w => value[u] # value[w]
      /\ {leftSentinel, rightSentinel} \subseteq live /\ NULL \notin Node
    BY NodeAssumption DEF Shape
<1>2. \A d \in Side : n # End(d)
    BY Ends
<1>3. \A d \in Side : /\ Opp(d) \in Side /\ Opp(d) # d /\ Opp(Opp(d)) = d
                      /\ d = e \/ d = o
    BY Sides
<1>4. ASSUME NEW d \in Side
      PROVE  /\ g.near[d][n] \in rest /\ g.near[d][n] # End(Opp(d))
             /\ Beside(d, g.near[d][n], n) /\ Beside(d, n, g.near[Opp(d)][n])
             /\ g.near[Opp(d)][g.near[d][n]] = n
             /\ \A z \in rest : ~(Beside(d, g.near[d][n], z) /\ Beside(d, z, g.near[Opp(d)][n]))
    <2>1. /\ g.near[d][n] \in rest /\ g.near[d][n] # End(Opp(d))
          /\ Beside(d, g.near[d][n], n) /\ g.near[Opp(d)][g.near[d][n]] = n
          /\ \A z \in live : ~(Beside(d, g.near[d][n], z) /\ Beside(d, z, n))
        BY <1>2, NeighbourOf
    <2>2. /\ Beside(Opp(Opp(d)), n, g.near[Opp(d)][n]) /\ g.near[Opp(d)][n] \in live
          /\ \A z \in live : ~(Beside(Opp(d), g.near[Opp(d)][n], z) /\ Beside(Opp(d), z, n))
        BY <1>2, <1>3, NeighbourOf
    <2>3. ASSUME NEW z \in rest, Beside(d, g.near[d][n], z), Beside(d, z, g.near[Opp(d)][n])
          PROVE  FALSE
        <3>1. Beside(d, z, n) \/ Beside(d, n, z)
            BY <1>1, Order
        <3>2. Beside(d, n, z)
            BY <2>1, <2>3, <3>1
        <3>3. Beside(Opp(d), z, n) /\ Beside(Opp(d), g.near[Opp(d)][n], z)
            BY <1>1, <1>3, <2>2, <2>3, <3>2, Order
        <3> QED
            BY <2>2, <3>3
    <2> QED
        BY <1>3, <2>1, <2>2, <2>3
<1>5. q \in rest /\ n # NULL /\ n # rightSentinel
    BY <1>1, ParentOf
<1>6. c # NULL => /\ c \in rest \ {rightSentinel} /\ g.parent[c] = n
                  /\ g.bound[e][c] = n /\ g.bound[o][c] = g.bound[o][n]
    BY <1>3, ChildOf
<1>7. \A d \in Side : g.bound[d][n] # n /\ (g.bound[d][n] # NULL => Beside(d, g.bound[d][n], n)
                                                                   /\ g.bound[d][n] \in live)
    BY <1>1, <1>5, Order DEF Shape, Bounded
<1>8. g.bound[Opp(f)][n] = q /\ g.bound[f][n] = g.bound[f][q]
    BY <1>5, ChildOf
<1>9. c = NULL => \A d \in Side : g.near[d][n] = g.bound[d][n]
    BY <1>3 DEF Shape, Gapped
<1>10. /\ h \in Heap
       /\ \A d \in Side : \A x \in Ptr :
             /\ h.child[d][x] = IF d = f /\ x = q THEN c ELSE g.child[d][x]
             /\ h.near[d][x] = IF x = g.near[Opp(d)][n] THEN g.near[d][n] ELSE g.near[d][x]
             /\ h.bound[d][x] = IF g.bound[d][x] = n THEN g.bound[d][n] ELSE g.bound[d][x]
       /\ \A x \in Ptr : h.parent[x] = IF x = c THEN q ELSE g.parent[x]
    BY <1>1, <1>3 DEF Unlinked, Heap
<1> HIDE DEF h, c, q, o
<1>11. /\ {leftSentinel, rightSentinel} \subseteq rest /\ rest \subseteq Node /\ rest \subseteq Ptr
       /\ \A x, y \in rest : x # y => value[x] # value[y]
    BY <1>1
<1>12. Ordered(h, rest)
    <2> SUFFICES ASSUME NEW d \in Side, NEW x \in rest \ {End(d)}
                 PROVE  LET y == h.near[d][x] IN
                        /\ Beside(d, End(d), x)
                        /\ y \in rest /\ Beside(d, y, x) /\ h.near[Opp(d)][y] = x
                        /\ \A z \in rest : ~(Beside(d, y, z) /\ Beside(d, z, x))
        BY DEF Ordered
    <2>1. /\ Beside(d, End(d), x) /\ g.near[d][x] \in live
          /\ Beside(d, g.near[d][x], x) /\ g.near[Opp(d)][g.near[d][x]] = x
          /\ \A z \in live : ~(Beside(d, g.near[d][x], z) /\ Beside(d, z, x))
        BY DEF Shape, Ordered
    <2>2. CASE x = g.near[Opp(d)][n]
        <3>1. h.near[d][x] = g.near[d][n] /\ h.near[Opp(d)][g.near[d][n]] = x
            BY <1>3, <1>4, <1>10, <1>11, <2>2
        <3>2. Beside(d, g.near[d][n], x)
            BY <1>1, <1>3, <1>4, <2>2, Order
        <3> QED
            BY <1>4, <2>1, <2>2, <3>1, <3>2
    <2>3. CASE x # g.near[Opp(d)][n]
        <3>1. h.near[d][x] = g.near[d][x] /\ g.near[d][x] \in rest
            BY <1>10, <1>11, <2>1, <2>3
        <3>2. g.near[d][x] # g.near[d][n]
            BY <1>4, <2>1
        <3>3. h.near[Opp(d)][g.near[d][x]] = x
            BY <1>3, <1>10, <1>11, <2>1, <3>1, <3>2
        <3> QED
            BY <2>1, <3>1, <3>3
    <2> QED
        BY <2>2, <2>3
<1>13. Hung(h, rest)
    <2> SUFFICES ASSUME NEW d \in Side, NEW x \in rest, h.child[d][x] # NULL
                 PROVE  LET y == h.child[d][x] IN
                        /\ y \in rest /\ h.parent[y] = x
                        /\ h.bound[Opp(d)][y] = x /\ h.bound[d][y] = h.bound[d][x]
        BY DEF Hung
    <2>1. CASE d = f /\ x = q
        <3>1. h.child[d][x] = c /\ c # NULL /\ c \in rest
            BY <1>6, <1>10, <1>11, <2>1
        <3>2. \A b \in Side : h.bound[b][c] = g.bound[b][n]
            BY <1>3, <1>6, <1>7, <1>10, <1>11, <3>1
        <3>3. h.bound[f][q] = g.bound[f][q]
            BY <1>5, <1>7, <1>8, <1>10, <1>11
        <3> QED
            BY <1>3, <1>8, <1>10, <1>11, <2>1, <3>1, <3>2, <3>3
    <2>2. CASE ~(d = f /\ x = q)
        <3>1. h.child[d][x] = g.child[d][x] /\ x \in live /\ x # n
            BY <1>10, <1>11, <2>2
        <3>2. /\ g.child[d][x] \in live /\ g.parent[g.child[d][x]] = x
              /\ g.bound[Opp(d)][g.child[d][x]] = x
              /\ g.bound[d][g.child[d][x]] = g.bound[d][x]
            BY <3>1, ChildOf
        <3>3. g.child[d][x] # n
            BY <1>5, <2>2, <3>1, OneChild DEF q
        <3>4. g.child[d][x] # c
            BY <1>6, <3>1, <3>2
        <3> QED
            BY <1>3, <1>10, <1>11, <3>1, <3>2, <3>3, <3>4
    <2> QED
        BY <2>1, <2>2
<1>14. Rooted(h, rest)
    <2>1. h.parent[rightSentinel] = NULL /\ h.parent[leftSentinel] = rightSentinel
        BY <1>1, <1>5, <1>6, <1>10, <1>11 DEF Shape, Rooted
    <2>2. ASSUME NEW x \in rest \ {rightSentinel}
          PROVE  h.parent[x] \in rest /\ \E d \in Side : h.child[d][h.parent[x]] = x
        <3>1. CASE x = c
            BY <1>5, <1>10, <1>11, <3>1
        <3>2. CASE x # c
            <4>1. g.parent[x] \in live /\ h.parent[x] = g.parent[x]
                BY <1>10, <1>11, <3>2, ParentOf
            <4>2. PICK d \in Side : g.child[d][g.parent[x]] = x
                BY ParentOf
            <4>3. g.parent[x] # n
                BY <1>1, <1>3, <3>2, <4>2 DEF c, o
            <4>4. ~(d = f /\ g.parent[x] = q)
                BY <4>2 DEF q
            <4> QED
                BY <1>10, <1>11, <4>1, <4>2, <4>3, <4>4
        <3> QED
            BY <3>1, <3>2
    <2> QED
        BY <2>1, <2>2 DEF Rooted
<1>15. Bounded(h, rest)
    <2> SUFFICES ASSUME NEW d \in Side, NEW x \in rest, h.bound[d][x] # NULL
                 PROVE  h.bound[d][x] \in rest /\ Beside(d, h.bound[d][x], x)
        BY DEF Bounded
    <2>1. g.bound[d][x] # NULL => g.bound[d][x] \in live /\ Beside(d, g.bound[d][x], x)
        BY DEF Shape, Bounded
    <2>2. CASE g.bound[d][x] = n
        BY <1>1, <1>5, <1>7, <1>10, <1>11, <2>1, <2>2, Order
    <2>3. CASE g.bound[d][x] # n
        BY <1>10, <1>11, <2>1, <2>3
    <2> QED
        BY <2>2, <2>3
<1>16. Gapped(h, rest)
    <2>1. ASSUME NEW d \in Side
          PROVE  (h.child[d][g.near[Opp(d)][n]] = NULL) # (h.child[Opp(d)][g.near[d][n]] = NULL)
        <3>1. /\ (g.child[d][g.near[Opp(d)][n]] = NULL) # (g.child[Opp(d)][n] = NULL)
              /\ (g.child[d][n] = NULL) # (g.child[Opp(d)][g.near[d][n]] = NULL)
            <4>1. g.near[Opp(d)][n] \in live \ {End(d)} /\ g.near[d][g.near[Opp(d)][n]] = n
                BY <1>3, <1>4
            <4> QED
                BY <1>2, <4>1 DEF Shape, Gapped
        <3>2. /\ h.child[d][g.near[Opp(d)][n]] =
                   IF d = f /\ g.near[Opp(d)][n] = q THEN c ELSE g.child[d][g.near[Opp(d)][n]]
              /\ h.child[Opp(d)][g.near[d][n]] =
                   IF Opp(d) = f /\ g.near[d][n] = q THEN c ELSE g.child[Opp(d)][g.near[d][n]]
            BY <1>3, <1>4, <1>10, <1>11
        <3>3. g.child[e][n] = NULL /\ g.child[o][n] = c /\ g.child[f][q] = n
            BY DEF c, o, q
        <3>4. CASE c # NULL
            <4>1. CASE d = e
                BY <1>3, <1>5, <3>1, <3>2, <3>3, <3>4, <4>1 DEF o
            <4>2. CASE d = o
                BY <1>3, <1>5, <3>1, <3>2, <3>3, <3>4, <4>2 DEF o
            <4> QED
                BY <1>3, <4>1, <4>2
        <3>5. CASE c = NULL
            <4>1. g.near[Opp(f)][n] = q
                BY <1>3, <1>8, <1>9, <3>5
            <4>2. g.child[d][n] = NULL /\ g.child[Opp(d)][n] = NULL
                BY <1>3, <3>3, <3>5 DEF o
            <4>3. g.near[d][n] # g.near[Opp(d)][n]
                BY <1>1, <1>3, <1>4, Order
            <4> QED
                BY <1>3, <3>1, <3>2, <3>5, <4>1, <4>2, <4>3, Sides
        <3> QED
            BY <3>4, <3>5
    <2> SUFFICES ASSUME NEW d \in Side, NEW x \in rest
                 PROVE  /\ h.child[d][x] = NULL => h.near[d][x] = h.bound[d][x]
                        /\ x # End(d) => (h.child[d][x] = NULL)
                                            # (h.child[Opp(d)][h.near[d][x]] = NULL)
        BY DEF Gapped
    <2>2. g.child[d][x] = NULL => g.near[d][x] = g.bound[d][x]
        BY DEF Shape, Gapped
    <2>3. x # End(d) => (g.child[d][x] = NULL) # (g.child[Opp(d)][g.near[d][x]] = NULL)
        BY DEF Shape, Gapped
    <2>4. x # End(d) => g.near[d][x] \in live /\ g.near[Opp(d)][g.near[d][x]] = x
        BY NeighbourOf
    <2>5. x = End(d) => g.bound[d][x] # n /\ x # g.near[Opp(d)][n]
        <3>1. Beside(d, End(d), n)
            BY <1>2 DEF Shape, Ordered
        <3>2. x = End(d) => g.bound[d][x] # n
            BY <1>1, <1>5, <3>1, Order DEF Shape, Bounded
        <3> QED
            BY <1>3, <1>4, <3>2
    <2>6. CASE x = g.near[Opp(d)][n]
        <3>1. h.near[d][x] = g.near[d][n] /\ g.near[d][x] = n
            BY <1>3, <1>4, <1>10, <1>11, <2>6
        <3>2. ASSUME h.child[d][x] = NULL PROVE h.near[d][x] = h.bound[d][x]
            <4>1. CASE d = f /\ x = q
                <5>1. c = NULL
                    BY <1>10, <1>11, <3>2, <4>1
                <5>2. h.bound[f][q] = g.bound[f][n]
                    BY <1>5, <1>7, <1>8, <1>10, <1>11
                <5> QED
                    BY <1>9, <3>1, <4>1, <5>1, <5>2
            <4>2. CASE ~(d = f /\ x = q)
                <5>1. g.child[d][x] = NULL /\ g.bound[d][x] = n
                    BY <1>10, <1>11, <2>2, <3>1, <3>2, <4>2
                <5>2. g.child[Opp(d)][n] # NULL
                    BY <2>3, <2>5, <2>6, <3>1, <5>1
                <5>3. d = e
                    BY <1>3, <5>2 DEF o
                <5>4. g.near[d][n] = g.bound[d][n]
                    BY <5>3 DEF Shape, Gapped
                <5> QED
                    BY <1>10, <1>11, <3>1, <5>1, <5>4
            <4> QED
                BY <4>1, <4>2
        <3> QED
            BY <2>1, <2>6, <3>1, <3>2
    <2>7. CASE x # g.near[Opp(d)][n]
        <3>1. h.near[d][x] = g.near[d][x] /\ (x # End(d) => g.near[d][x] \in rest)
            BY <1>10, <1>11, <2>4, <2>7
        <3>2. c = NULL => ~(d = f /\ x = q)
            BY <1>8, <1>9, <1>3, <2>7
        <3>3. x # End(d) /\ c = NULL => ~(Opp(d) = f /\ g.near[d][x] = q)
            <4> SUFFICES ASSUME x # End(d), c = NULL, Opp(d) = f, g.near[d][x] = q PROVE FALSE
                OBVIOUS
            <4>1. g.near[d][n] = q
                BY <1>3, <1>8, <1>9
            <4> QED
                BY <1>4, <2>4, <4>1
        <3>4. (h.child[d][x] = NULL) <=> (g.child[d][x] = NULL)
            BY <1>5, <1>10, <1>11, <3>2 DEF q
        <3>5. x # End(d) => ((h.child[Opp(d)][g.near[d][x]] = NULL)
                               <=> (g.child[Opp(d)][g.near[d][x]] = NULL))
            BY <1>3, <1>5, <1>10, <1>11, <3>1, <3>3 DEF q
        <3>6. g.child[d][x] = NULL => g.bound[d][x] # n
            BY <2>2, <2>4, <2>5, <3>1
        <3> QED
            BY <1>10, <1>11, <2>2, <2>3, <3>1, <3>4, <3>5, <3>6
    <2> QED
        BY <2>6, <2>7
<1>17. Shape(h, rest)
    BY <1>11, <1>12, <1>13, <1>14, <1>15, <1>16 DEF Shape
<1> QED
    BY <1>10, <1>17 DEF h

-----------------------------------------------------------------------------
(* What becomes of the heap when another node takes the place of a node *)

Renamed(g, n, s) ==
    LET new(y) == IF y = n THEN s ELSE y
        old(x) == IF x = s THEN n ELSE x
    IN  [child |-> [d \in Side |-> [x \in Ptr |-> new(g.child[d][old(x)])]],
         near |-> [d \in Side |-> [x \in Ptr |-> new(g.near[d][old(x)])]],
         parent |-> [x \in Ptr |-> new(g.parent[old(x)])],
         bound |-> [d \in Side |-> [x \in Ptr |-> new(g.bound[d][old(x)])]]]

\* A heap in order stays so when a node is taken for another with no node between.
LEMMA RenamedShape ==
    ASSUME NEW g \in Heap, NEW live, Shape(g, live),
           NEW n \in live \ {leftSentinel, rightSentinel}, NEW s \in Node \ live,
           \A d \in Side : Beside(d, g.near[d][n], s)
    PROVE  Renamed(g, n, s) \in Heap /\ Shape(Renamed(g, n, s), (live \ {n}) \cup {s})
<1> DEFINE new(y) == IF y = n THEN s ELSE y
           old(x) == IF x = s THEN n ELSE x
           h == Renamed(g, n, s)
           rest == (live \ {n}) \cup {s}
<1>1. /\ live \subseteq Node /\ \A u, w \in live : u # w => value[u] # value[w]
      /\ {leftSentinel, rightSentinel} \subseteq live /\ NULL \notin Node
    BY NodeAssumption DEF Shape
<1>2. \A d \in Side : n # End(d) /\ s # End(d) /\ End(d) \in live
    BY <1>1, Ends
<1>3. /\ h \in Heap
      /\ \A d \in Side : \A x \in Ptr :
            /\ h.child[d][x] = new(g.child[d][old(x)])
            /\ h.near[d][x] = new(g.near[d][old(x)])
            /\ h.bound[d][x] = new(g.bound[d][old(x)])
      /\ \A x \in Ptr : h.parent[x] = new(g.parent[old(x)])
    BY <1>1 DEF Renamed, Heap
<1> HIDE DEF h
<1>4. \A z \in live \ {n} : /\ value[z] # value[s]
                            /\ \A d \in Side : /\ Beside(d, z, n) <=> Beside(d, z, s)
                                               /\ Beside(d, n, z) <=> Beside(d, s, z)
    <2> SUFFICES ASSUME NEW z \in live \ {n}
                 PROVE  /\ value[z] # value[s]
                        /\ \A d \in Side : /\ Beside(d, z, n) <=> Beside(d, z, s)
                                           /\ Beside(d, n, z) <=> Beside(d, s, z)
        OBVIOUS
    <2>1. ASSUME NEW d \in Side, Beside(d, z, n) PROVE Beside(d, z, s)
        <3>1. /\ g.near[d][n] \in live
              /\ z = g.near[d][n] \/ Beside(d, z, g.near[d][n])
            <4>1. /\ g.near[d][n] \in live
                  /\ z # g.near[d][n] => Beside(d, z, g.near[d][n]) \/ Beside(d, n, z)
                BY <1>2, NeighbourOf
            <4> QED
                BY <1>1, <2>1, <4>1, Order
        <3>2. Beside(d, g.near[d][n], s)
            OBVIOUS
        <3> QED
            BY <1>1, <3>1, <3>2, Order
    <2>2. \A d \in Side : Beside(d, z, n) \/ Beside(Opp(d), z, n)
        BY <1>1, Order
    <2>3. \A d \in Side : Opp(d) \in Side
        BY Sides
    <2>4. PICK b \in Side : Beside(b, z, s)
        BY <2>1, <2>2, <2>3 DEF Side
    <2>5. value[z] # value[s]
        BY <1>1, <2>4, Order
    <2> QED
        BY <1>1, <2>1, <2>2, <2>3, <2>5, Order
<1>5. /\ \A x \in rest : old(x) \in live /\ new(old(x)) = x /\ old(x) # s /\ x # n /\ x \in Ptr
      /\ \A y \in live : new(y) \in rest /\ old(new(y)) = y /\ new(y) \in Ptr
      /\ \A x \in rest : \A d \in Side : x # End(d) <=> old(x) # End(d)
      /\ \A d \in Side : old(End(d)) = End(d) /\ new(End(d)) = End(d)
    BY <1>1, <1>2
<1>6. \A d \in Side : \A y, z \in live : Beside(d, y, z) => Beside(d, new(y), new(z))
    BY <1>1, <1>4, Order
<1>7. /\ {leftSentinel, rightSentinel} \subseteq rest /\ rest \subseteq Node
      /\ \A x, y \in rest : x # y => value[x] # value[y]
    BY <1>1, <1>4
<1> HIDE DEF rest
<1>8. Ordered(h, rest)
    <2> SUFFICES ASSUME NEW d \in Side, NEW x \in rest \ {End(d)}
                 PROVE  LET y == h.near[d][x] IN
                        /\ Beside(d, End(d), x)
                        /\ y \in rest /\ Beside(d, y, x) /\ h.near[Opp(d)][y] = x
                        /\ \A z \in rest : ~(Beside(d, y, z) /\ Beside(d, z, x))
        BY DEF Ordered
    <2>0. old(x) \in live \ {End(d)}
        BY <1>5
    <2>1. /\ Beside(d, End(d), old(x)) /\ g.near[d][old(x)] \in live
          /\ Beside(d, g.near[d][old(x)], old(x)) /\ g.near[Opp(d)][g.near[d][old(x)]] = old(x)
          /\ \A z \in live : ~(Beside(d, g.near[d][old(x)], z) /\ Beside(d, z, old(x)))
        BY <2>0 DEF Shape, Ordered
    <2>2. h.near[d][x] = new(g.near[d][old(x)]) /\ h.near[d][x] \in rest
        BY <1>3, <1>5, <2>1
    <2>3. Beside(d, End(d), x) /\ Beside(d, h.near[d][x], x)
        BY <1>2, <1>5, <1>6, <2>0, <2>1, <2>2
    <2>4. h.near[Opp(d)][h.near[d][x]] = x
        BY <1>3, <1>5, <2>1, <2>2, Sides
    <2>5. ASSUME NEW z \in rest, Beside(d, h.near[d][x], z), Beside(d, z, x) PROVE FALSE
        <3>1. /\ old(z) \in live
              /\ value[old(z)] # value[g.near[d][old(x)]] /\ value[old(z)] # value[old(x)]
            <4>1. z # x /\ z # h.near[d][x]
                BY <1>7, <2>2, <2>5, Order
            <4>2. old(z) # old(x) /\ old(z) # g.near[d][old(x)]
                BY <1>5, <2>1, <2>2, <4>1
            <4> QED
                BY <1>1, <1>5, <2>1, <4>2
        <3>2. Beside(d, old(z), g.near[d][old(x)]) \/ Beside(d, old(x), old(z))
            BY <1>1, <2>0, <2>1, <3>1, Order
        <3>3. Beside(d, z, h.near[d][x]) \/ Beside(d, x, z)
            BY <1>5, <1>6, <2>0, <2>1, <2>2, <3>1, <3>2
        <3> QED
            BY <1>7, <2>2, <2>5, <3>3, Order
    <2> QED
        BY <2>2, <2>3, <2>4, <2>5
<1>9. Hung(h, rest)
    <2> SUFFICES ASSUME NEW d \in Side, NEW x \in rest, h.child[d][x] # NULL
                 PROVE  LET y == h.child[d][x] IN
                        /\ y \in rest /\ h.parent[y] = x
                        /\ h.bound[Opp(d)][y] = x /\ h.bound[d][y] = h.bound[d][x]
        BY DEF Hung
    <2>1. h.child[d][x] = new(g.child[d][old(x)]) /\ old(x) \in live /\ g.child[d][old(x)] # NULL
        BY <1>1, <1>3, <1>5
    <2>2. /\ g.child[d][old(x)] \in live /\ g.parent[g.child[d][old(x)]] = old(x)
          /\ g.bound[Opp(d)][g.child[d][old(x)]] = old(x)
          /\ g.bound[d][g.child[d][old(x)]] = g.bound[d][old(x)]
        BY <2>1, ChildOf
    <2>3. h.child[d][x] \in rest /\ old(h.child[d][x]) = g.child[d][old(x)]
        BY <1>5, <2>1, <2>2
    <2> QED
        BY <1>3, <1>5, <2>1, <2>2, <2>3, Sides
<1>10. Rooted(h, rest)
    <2>1. h.parent[rightSentinel] = NULL /\ h.parent[leftSentinel] = rightSentinel
        BY <1>1, <1>3 DEF Shape, Rooted
    <2>2. ASSUME NEW x \in rest \ {rightSentinel}
          PROVE  h.parent[x] \in rest /\ \E d \in Side : h.child[d][h.parent[x]] = x
        <3>1. old(x) \in live \ {rightSentinel}
            BY <1>5
        <3>2. g.parent[old(x)] \in live
            BY <3>1, ParentOf
        <3>3. PICK d \in Side : g.child[d][g.parent[old(x)]] = old(x)
            BY <3>1, ParentOf
        <3>4. h.parent[x] = new(g.parent[old(x)])
            BY <1>3, <1>5
        <3> QED
            BY <1>3, <1>5, <3>2, <3>3, <3>4
    <2> QED
        BY <2>1, <2>2 DEF Rooted
<1>11. Bounded(h, rest)
    <2> SUFFICES ASSUME NEW d \in Side, NEW x \in rest, h.bound[d][x] # NULL
                 PROVE  h.bound[d][x] \in rest /\ Beside(d, h.bound[d][x], x)
        BY DEF Bounded
    <2>1. h.bound[d][x] = new(g.bound[d][old(x)]) /\ old(x) \in live
        BY <1>3, <1>5
    <2>2. g.bound[d][old(x)] \in live /\ Beside(d, g.bound[d][old(x)], old(x))
        BY <1>1, <2>1 DEF Shape, Bounded
    <2> QED
        BY <1>5, <1>6, <2>1, <2>2
<1>12. Gapped(h, rest)
    <2> SUFFICES ASSUME NEW d \in Side, NEW x \in rest
                 PROVE  /\ h.child[d][x] = NULL => h.near[d][x] = h.bound[d][x]
                        /\ x # End(d) => (h.child[d][x] = NULL)
                                            # (h.child[Opp(d)][h.near[d][x]] = NULL)
        BY DEF Gapped
    <2>1. old(x) \in live /\ (x # End(d) => old(x) # End(d))
        BY <1>5
    <2>2. /\ g.child[d][old(x)] = NULL => g.near[d][old(x)] = g.bound[d][old(x)]
          /\ old(x) # End(d) => (g.child[d][old(x)] = NULL)
                                   # (g.child[Opp(d)][g.near[d][old(x)]] = NULL)
        BY <2>1 DEF Shape, Gapped
    <2>3. /\ h.child[d][x] = NULL <=> g.child[d][old(x)] = NULL
          /\ h.near[d][x] = new(g.near[d][old(x)])
          /\ h.bound[d][x] = new(g.bound[d][old(x)])
        BY <1>1, <1>3, <1>5
    <2>4. x # End(d) => (h.child[Opp(d)][h.near[d][x]] = NULL
                            <=> g.child[Opp(d)][g.near[d][old(x)]] = NULL)
        <3> SUFFICES ASSUME x # End(d)
                     PROVE  h.child[Opp(d)][h.near[d][x]] = NULL
                               <=> g.child[Opp(d)][g.near[d][old(x)]] = NULL
            OBVIOUS
        <3>1. g.near[d][old(x)] \in live
            BY <2>1, NeighbourOf
        <3> QED
            BY <1>1, <1>3, <1>5, <2>3, <3>1, Sides
    <2> QED
        BY <2>1, <2>2, <2>3, <2>4
<1>13. Shape(h, rest)
    BY <1>7, <1>8, <1>9, <1>10, <1>11, <1>12 DEF Shape
<1> QED
    BY <1>3, <1>13 DEF h, rest

-----------------------------------------------------------------------------
(* The removal of a node with two children *)

\* Nothing lies beside the last node on its side.
LEMMA EndBare ==
    ASSUME NEW g, NEW live, Shape(g, live), NEW e \in Side
    PROVE  g.child[e][End(e)] = NULL /\ g.near[e][End(e)] = NULL
<1>1. live \subseteq Node /\ End(e) \in live
    BY Ends DEF Shape
<1>2. ASSUME NEW y \in live, Beside(e, y, End(e)) PROVE FALSE
    <2>1. Beside(e, End(e), y) \/ y = End(e)
        BY <1>2 DEF Shape, Ordered
    <2> QED
        BY <1>1, <1>2, <2>1, Order
<1>3. g.child[e][End(e)] = NULL
    BY <1>1, <1>2, ChildOf
<1>4. g.bound[e][End(e)] = NULL
    BY <1>1, <1>2 DEF Shape, Bounded
<1> QED
    BY <1>1, <1>3, <1>4 DEF Shape, Gapped

\* What is beside a live node points back at it.
LEMMA NearBack ==
    ASSUME NEW g, NEW live, Shape(g, live), NEW e \in Side, NEW y \in live,
           g.near[e][y] \in live
    PROVE  y # End(e) /\ g.near[e][y] # End(Opp(e)) /\ g.near[Opp(e)][g.near[e][y]] = y
<1>1. y # End(e)
    BY EndBare, NodeAssumption DEF Shape
<1> QED
    BY <1>1, NeighbourOf

\* The successor of a node with a right child: it has no left child, and it is
\* that child or the left child of its parent.
LEMMA Successor ==
    ASSUME NEW g, NEW live, Shape(g, live), NEW n \in live,
           NEW s, s = g.near["right"][n], NEW r, r = g.child["right"][n], r # NULL,
           NEW p, p = g.parent[s]
    PROVE  /\ n # leftSentinel
           /\ s \in live \ {rightSentinel, n} /\ r \in live \ {n}
           /\ g.child["left"][s] = NULL /\ g.near["left"][s] = n
           /\ g.bound["left"][s] = n /\ g.bound["left"][r] = n
           /\ s = r => p = n
           /\ s # r => /\ p \in live \ {n, s} /\ g.child["left"][p] = s
                       /\ g.bound["left"][p] = n /\ g.child["left"][r] # NULL
                       /\ g.bound["right"][s] = p
<1>1. /\ "left" \in Side /\ "right" \in Side /\ Opp("left") = "right" /\ Opp("right") = "left"
      /\ End("right") = leftSentinel /\ End("left") = rightSentinel
    BY DEF Side, Opp, End
<1>2. live \subseteq Node /\ NULL \notin Node /\ n # leftSentinel
    BY <1>1, EndBare, NodeAssumption DEF Shape
<1>3. s \in live \ {rightSentinel, n} /\ g.near["left"][s] = n
    BY <1>1, <1>2, NeighbourOf
<1>4. g.child["left"][s] = NULL
    BY <1>1, <1>2 DEF Shape, Gapped
<1>5. g.bound["left"][s] = n
    BY <1>1, <1>3, <1>4 DEF Shape, Gapped
<1>6. /\ r \in live \ {n} /\ g.parent[r] = n /\ g.bound["left"][r] = n
    BY <1>1, ChildOf
<1>7. g.child["left"][r] = NULL => s = r
    <2> SUFFICES ASSUME g.child["left"][r] = NULL PROVE s = r
        OBVIOUS
    <2>1. g.near["left"][r] = n
        BY <1>1, <1>6 DEF Shape, Gapped
    <2> QED
        BY <1>1, <1>6, <2>1, NearBack
<1>8. p \in live \ {s} /\ \E f \in Side : g.child[f][p] = s
    BY <1>3, ParentOf
<1>9. ASSUME NEW q \in live, NEW f \in Side, g.child[f][q] = s
      PROVE  g.bound[Opp(f)][s] = q /\ g.bound[f][s] = g.bound[f][q] /\ Beside(f, s, q)
    <2>1. g.child[f][q] # NULL
        BY <1>2, <1>3, <1>9
    <2> QED
        BY <1>9, <2>1, ChildOf
<1>10. ASSUME s # r
       PROVE  /\ p # n /\ g.child["left"][p] = s /\ g.bound["left"][p] = n
              /\ g.bound["right"][s] = p
    <2>1. g.child["right"][p] = s => p = n
        <3>1. ASSUME NEW q \in live, g.child["right"][q] = s PROVE q = n
            BY <1>1, <1>5, <1>9, <3>1
        <3> QED
            BY <1>8, <3>1
    <2>2. g.child["left"][p] = s
        BY <1>8, <1>10, <2>1 DEF Side
    <2>3. g.bound["right"][s] = p /\ g.bound["left"][p] = n /\ Beside("left", s, p)
        <3>1. ASSUME NEW q \in live, g.child["left"][q] = s
              PROVE  g.bound["right"][s] = q /\ g.bound["left"][q] = n /\ Beside("left", s, q)
            BY <1>1, <1>5, <1>9, <3>1
        <3> QED
            BY <1>8, <2>2, <3>1
    <2>4. p # n
        <3>1. Beside("right", s, n)
            BY <1>1, <1>2, NeighbourOf
        <3> QED
            BY <1>1, <1>2, <1>3, <2>3, <3>1, Order
    <2> QED
        BY <2>2, <2>3, <2>4
<1> QED
    BY <1>2, <1>3, <1>4, <1>5, <1>6, <1>7, <1>8, <1>10

\* The heap after n, with two children, has been replaced by its successor, which
\* hung on side e of its parent.
Replaced(g, n, e) == Renamed(Unlinked(g, g.near["right"][n], "left", e), n, g.near["right"][n])

\* h has the shape of g without n; s is the successor of n, and r its right child.
ReplacedBy(h, g, live, n, s, r) ==
    /\ h \in Heap /\ Shape(h, live \ {n})
    /\ \A d \in Side : \A x \in live \ {n} :
          /\ h.child[d][x] =
               IF x = s THEN IF d = "right" /\ s = r THEN g.child[d][s] ELSE g.child[d][n]
               ELSE IF d = "left" /\ s # r /\ x = g.parent[s] THEN g.child["right"][s]
               ELSE IF g.child[d][x] = n THEN s ELSE g.child[d][x]
          /\ h.near[d][x] =
               IF d = "left" /\ x = s THEN g.near["left"][n]
               ELSE IF g.near[d][x] = n THEN s ELSE g.near[d][x]
    /\ \A x \in live \ {n} :
          h.parent[x] = IF x = s THEN g.parent[n]
                        ELSE IF x = g.child["right"][s] /\ s # r THEN g.parent[s]
                        ELSE IF g.parent[x] \in {n, s} THEN s ELSE g.parent[x]

\* Without a node with two children, its successor or predecessor in its place.
LEMMA ReplacedShape ==
    ASSUME NEW g \in Heap, NEW live, Shape(g, live), NEW n \in live \ {leftSentinel, rightSentinel},
           g.child["left"][n] # NULL, g.child["right"][n] # NULL
    PROVE  LET s == g.near["right"][n]
               r == g.child["right"][n]
               e == IF s = r THEN "right" ELSE "left"
           IN  ReplacedBy(Replaced(g, n, e), g, live, n, s, r)
<1> DEFINE s == g.near["right"][n]
           r == g.child["right"][n]
           c == g.child["right"][s]
           p == g.parent[s]
           e == IF s = r THEN "right" ELSE "left"
           k == Unlinked(g, s, "left", e)
           h == Replaced(g, n, e)
<1>1. /\ "left" \in Side /\ "right" \in Side /\ Opp("left") = "right" /\ Opp("right") = "left"
      /\ e \in Side /\ \A d \in Side : d = "left" \/ d = "right"
    BY DEF Side, Opp
<1>2. /\ live \subseteq Node /\ NULL \notin Node /\ n # NULL /\ n \in Ptr
      /\ {leftSentinel, rightSentinel} \subseteq live
    BY NodeAssumption DEF Shape
<1>3. /\ s \in live \ {rightSentinel, n} /\ r \in live \ {n}
      /\ g.child["left"][s] = NULL /\ g.near["left"][s] = n
      /\ s = r => p = n
      /\ s # r => p \in live \ {n, s} /\ g.child["left"][p] = s
    BY Successor
<1>4. s # leftSentinel
    <2>1. g.parent[leftSentinel] = rightSentinel
        BY DEF Shape, Rooted
    <2>2. g.child["left"][rightSentinel] = NULL
        BY <1>1, EndBare DEF End
    <2> QED
        BY <1>2, <1>3, <2>1, <2>2
<1>5. g.child[e][g.parent[s]] = s
    BY <1>3
<1>6. k \in Heap /\ Shape(k, live \ {s})
    BY <1>1, <1>3, <1>4, <1>5, UnlinkedShape
<1>7. /\ \A d \in Side : \A x \in Ptr :
            /\ k.child[d][x] = IF d = e /\ x = p THEN c ELSE g.child[d][x]
            /\ k.near[d][x] = IF x = g.near[Opp(d)][s] THEN g.near[d][s] ELSE g.near[d][x]
      /\ \A x \in Ptr : k.parent[x] = IF x = c THEN p ELSE g.parent[x]
    BY <1>1 DEF Unlinked
<1>8. \A x \in Node : x # NULL
    BY NodeAssumption
<1> DEFINE a == g.near["left"][n]
           t2 == g.near["right"][s]
<1>9. /\ a \in live /\ a # n /\ Beside("left", a, n) /\ n \in live /\ n # s
      /\ t2 \in live /\ t2 # s /\ Beside("right", t2, s) /\ Beside("right", s, n)
    <2>1. n # End("left") /\ n # End("right") /\ s # End("right")
        BY <1>1, <1>4 DEF End
    <2> QED
        BY <1>1, <1>3, <2>1, NeighbourOf
<1>10. c # NULL => c \in live /\ Beside("right", c, s) /\ g.parent[c] = s
    BY <1>1, <1>3, ChildOf
<1>11. \A d \in Side : g.child[d][n] # n
    BY <1>1, <1>8, <1>2, ChildOf
<1>12. g.parent[n] # n
    BY <1>1, ParentOf
<1>13. \A x \in live : g.parent[x] = s => x = c
    <2> SUFFICES ASSUME NEW x \in live, g.parent[x] = s PROVE x = c
        OBVIOUS
    <2>1. x # rightSentinel
        BY <1>2, <1>3, <1>8 DEF Shape, Rooted
    <2>2. \E d \in Side : g.child[d][s] = x
        BY <2>1, ParentOf
    <2> QED
        BY <1>1, <1>2, <1>3, <1>8, <2>2
<1> HIDE DEF k, e, c, p, r, a, t2, s
<1>14. /\ a # s /\ Beside("left", a, s) /\ t2 # n /\ t2 # a
       /\ c # n
    BY <1>1, <1>2, <1>3, <1>8, <1>9, <1>10, Order
<1>15. /\ g.near["left"][n] = a /\ g.near["right"][s] = t2 /\ g.near["left"][s] = n
       /\ g.near["right"][n] = s /\ g.child["right"][s] = c /\ g.near["left"][t2] = s
       /\ g.parent[s] = p /\ g.child["right"][n] = r
    <2>1. g.near["left"][g.near["right"][s]] = s
        BY <1>1, <1>3, <1>4, <1>9, NearBack DEF t2
    <2> QED
        BY <1>3, <2>1 DEF a, t2, s, c, p, r
<1>16. k.near["left"][n] = a /\ k.near["right"][n] = t2
    BY <1>1, <1>2, <1>7, <1>14, <1>15
<1>17. h \in Heap /\ Shape(h, live \ {n})
    <2>1. s \in Node \ (live \ {s}) /\ n \in (live \ {s}) \ {leftSentinel, rightSentinel}
        BY <1>2, <1>3
    <2>2. \A d \in Side : Beside(d, k.near[d][n], s)
        BY <1>1, <1>9, <1>14, <1>16
    <2>3. h = Renamed(k, n, s)
        BY DEF k, s, Replaced
    <2>4. h \in Heap /\ Shape(h, ((live \ {s}) \ {n}) \cup {s})
        BY <1>6, <2>1, <2>2, <2>3, RenamedShape
    <2>5. ((live \ {s}) \ {n}) \cup {s} = live \ {n}
        BY <1>3
    <2> QED
        BY <2>4, <2>5
<1>18. /\ \A d \in Side : \A x \in Ptr \ {n, s} :
             /\ h.child[d][x] = IF k.child[d][x] = n THEN s ELSE k.child[d][x]
             /\ h.near[d][x] = IF k.near[d][x] = n THEN s ELSE k.near[d][x]
       /\ \A d \in Side :
             /\ h.child[d][s] = IF k.child[d][n] = n THEN s ELSE k.child[d][n]
             /\ h.near[d][s] = IF k.near[d][n] = n THEN s ELSE k.near[d][n]
       /\ \A x \in Ptr \ {n, s} : h.parent[x] = IF k.parent[x] = n THEN s ELSE k.parent[x]
       /\ h.parent[s] = IF k.parent[n] = n THEN s ELSE k.parent[n]
    <2>1. s \in Ptr /\ s # n
        BY <1>2, <1>3
    <2>2. h = Renamed(k, n, s)
        BY DEF k, s, Replaced
    <2> QED
        BY <2>1, <2>2 DEF Renamed
<1>19. e = IF s = r THEN "right" ELSE "left"
    BY DEF e
<1> HIDE DEF h
<1>20. ASSUME NEW d \in Side
       PROVE  /\ h.child[d][s] = IF d = "right" /\ s = r THEN c ELSE g.child[d][n]
              /\ h.near[d][s] = IF d = "left" THEN a ELSE t2
    <2>1. k.child[d][n] = IF d = "right" /\ s = r THEN c ELSE g.child[d][n]
        BY <1>2, <1>3, <1>7, <1>15, <1>19
    <2> QED
        BY <1>1, <1>9, <1>11, <1>14, <1>16, <1>18, <2>1
<1>21. ASSUME NEW d \in Side, NEW x \in live \ {n, s}
       PROVE  h.child[d][x] = IF d = "left" /\ s # r /\ x = p THEN c
                              ELSE IF g.child[d][x] = n THEN s ELSE g.child[d][x]
    <2>1. k.child[d][x] = IF d = "left" /\ s # r /\ x = p THEN c ELSE g.child[d][x]
        BY <1>2, <1>3, <1>7, <1>15, <1>19
    <2> QED
        BY <1>2, <1>14, <1>18, <2>1
<1>22. ASSUME NEW d \in Side, NEW x \in live \ {n, s}
       PROVE  h.near[d][x] = IF g.near[d][x] = n THEN s ELSE g.near[d][x]
    <2>1. k.near[d][x] = IF d = "left" /\ x = t2 THEN n ELSE g.near[d][x]
        BY <1>1, <1>2, <1>7, <1>15
    <2> QED
        BY <1>1, <1>2, <1>15, <1>18, <2>1
<1>23. h.parent[s] = g.parent[n]
    BY <1>2, <1>7, <1>12, <1>14, <1>18
<1>24. ASSUME NEW x \in live \ {n, s}
       PROVE  h.parent[x] = IF x = c /\ s # r THEN p
                            ELSE IF g.parent[x] \in {n, s} THEN s ELSE g.parent[x]
    <2>1. k.parent[x] = IF x = c THEN p ELSE g.parent[x]
        BY <1>2, <1>7
    <2>2. h.parent[x] = IF k.parent[x] = n THEN s ELSE k.parent[x]
        BY <1>2, <1>18
    <2>3. x = c => g.parent[x] = s
        BY <1>2, <1>8, <1>10
    <2> QED
        BY <1>3, <1>13, <1>15, <2>1, <2>2, <2>3
<1>25. g.child["left"][s] = NULL /\ g.near["left"][s] = n /\ s \in live \ {n}
    BY <1>3
<1> QED
    <2>1. \A d \in Side : \A x \in live \ {n} :
             /\ h.child[d][x] =
                  IF x = s THEN IF d = "right" /\ s = r THEN g.child[d][s] ELSE g.child[d][n]
                  ELSE IF d = "left" /\ s # r /\ x = p THEN c
                  ELSE IF g.child[d][x] = n THEN s ELSE g.child[d][x]
             /\ h.near[d][x] =
                  IF d = "left" /\ x = s THEN a
                  ELSE IF g.near[d][x] = n THEN s ELSE g.near[d][x]
        BY <1>1, <1>14, <1>15, <1>20, <1>21, <1>22
    <2>2. \A x \in live \ {n} :
             h.parent[x] = IF x = s THEN g.parent[n]
                           ELSE IF x = c /\ s # r THEN p
                           ELSE IF g.parent[x] \in {n, s} THEN s ELSE g.parent[x]
        BY <1>23, <1>24
    <2> QED
        BY <1>17, <2>1, <2>2 DEF ReplacedBy, h, e, s, r, c, p, a, t2

-----------------------------------------------------------------------------
(* What the invariant says of one thread *)

\* The pointer fields, and what they are when no store is pending.
LEMMA Fields ==
    /\ \A g, x : \A e \in Side : /\ Final(g, e, x) = g.child[e][x]
                                 /\ Final(g, SnapshotField(e), x) = g.near[e][x]
    /\ \A g, x : Final(g, "parent", x) = g.parent[x]
    /\ \A e \in Side : e \in TreeField /\ e # "parent" /\ e \in Field
                       /\ SnapshotField(e) \notin TreeField /\ SnapshotField(e) \in Field
    /\ "parent" \in TreeField /\ "parent" \in Field
    /\ \A f \in Field : f \in Side \/ f = "parent" \/ \E e \in Side : f = SnapshotField(e)
    /\ \A d, e \in Side : SnapshotField(d) = SnapshotField(e) => d = e
    /\ \A f \in TreeField : f \in Side \/ f = "parent"
  BY DEF Side, Field, TreeField, SnapshotField, Final

\* What the pointers of live nodes lead to.
LEMMA LiveFacts ==
    ASSUME NEW g, Good(g)
    PROVE  /\ Shape(g, Live) /\ Live \subseteq alloc /\ alloc \subseteq Node /\ NULL \notin Node
           /\ {leftSentinel, rightSentinel} \subseteq Live
           /\ \A x \in alloc : x \in Live <=> ~marked[x]
           /\ \A d \in Side : \A x \in Live : g.child[d][x] \in Live \cup {NULL}
           /\ \A d \in Side : \A x \in Live \ {End(d)} : g.near[d][x] \in Live
<1>1. Shape(g, Live) /\ alloc \subseteq Node
    BY DEF Good, HeapInv, TypeOK
<1>2. \A d \in Side : \A x \in Live : g.child[d][x] \in Live \cup {NULL}
    BY <1>1, ChildOf
<1>3. \A d \in Side : \A x \in Live \ {End(d)} : g.near[d][x] \in Live
    BY <1>1, NeighbourOf
<1> QED
    BY <1>1, <1>2, <1>3, NodeAssumption DEF Shape, Live

\* A pending store is one that makes memory what the heap is to be.
LEMMA Pending ==
    ASSUME NEW g, Good(g), NEW t \in Thread, NEW w \in PendingStores(t)
    PROVE  /\ w \in Store /\ todo[t] # << >> /\ pc[t] = "store"
           /\ w.n \in Live /\ Final(g, w.f, w.n) = w.v
           /\ w.f \in TreeField => w.n \in held[t]
<1>1. PICK i \in DOMAIN todo[t] : w = todo[t][i]
    BY DEF PendingStores
<1>2. todo[t] \in Seq(Store)
    BY DEF Good, TypeOK
<1> QED
    BY <1>1, <1>2 DEF Good, HeapInv, Settles, LockInv, StoresLocked

\* A thread with nothing to do has no pending store.
LEMMA NonePending ==
    ASSUME NEW t \in Thread, todo[t] = << >>
    PROVE  PendingStores(t) = {}
  BY DEF PendingStores

\* The node that an add publishes is a leaf that only its own locks surround.
LEMMA NewNode ==
    ASSUME NEW g, Good(g), NEW u \in Thread, Adding(u)
    PROVE  LET x == New(u) IN
           /\ x \in Live \ {leftSentinel, rightSentinel} /\ x # NULL
           /\ g.child["left"][x] = NULL /\ g.child["right"][x] = NULL
           /\ \A d \in Side : g.child[d][x] = NULL
           /\ g.parent[x] \in held[u] /\ g.parent[x] \in Live
           /\ \A w \in PendingStores(u) : w.v = x /\ w.f # "parent"
<1>1. Publishing(g, u)
    BY DEF Good, HeapInv
<1>2. \A d \in Side : d = "left" \/ d = "right"
    BY DEF Side
<1>3. New(u) # NULL
    BY <1>1, LiveFacts DEF Publishing
<1>4. \A w \in PendingStores(u) : w.v = New(u) /\ w.f # "parent"
    <2>1. PICK e \in Side : AddLeft(u, e, reg[u].node, New(u))
        BY <1>1 DEF Publishing
    <2>2. SnapshotField(e) # "parent" /\ SnapshotField(Opp(e)) # "parent" /\ e # "parent"
        BY DEF Side, SnapshotField, Opp
    <2>3. \A i \in DOMAIN todo[u] : todo[u][i].v = New(u) /\ todo[u][i].f # "parent"
        <3>1. CASE \E a \in Node : todo[u] = AddList(e, reg[u].node, a, New(u))
            BY <2>2, <3>1 DEF AddList
        <3>2. CASE ~\E a \in Node : todo[u] = AddList(e, reg[u].node, a, New(u))
            BY <2>1, <2>2, <3>2 DEF AddLeft
        <3> QED
            BY <3>1, <3>2
    <2> QED
        BY <2>3 DEF PendingStores
<1> QED
    BY <1>1, <1>2, <1>3, <1>4 DEF Publishing

\* A gap has one owner, seen from either side.
LEMMA OneOwner ==
    ASSUME NEW g, Good(g), NEW t \in Thread, NEW u \in Thread, NEW e \in Side, NEW y,
           Owns(g, held[t], e, y), Owns(g, held[u], e, y)
    PROVE  t = u
<1>1. y \in Live /\ y # End(e)
    BY DEF Owns
<1>2. (g.child[e][y] = NULL) # (g.child[Opp(e)][g.near[e][y]] = NULL)
    BY <1>1, LiveFacts DEF Shape, Gapped
<1> QED
    BY <1>2 DEF Owns, Good, LockInv, LocksHeld

\* A gap seen from the other side has the same owner.
LEMMA OwnsBack ==
    ASSUME NEW g, Good(g), NEW t \in Thread, NEW e \in Side, NEW y, Owns(g, held[t], e, y)
    PROVE  /\ Owns(g, held[t], Opp(e), g.near[e][y]) /\ g.near[e][y] \in Live
           /\ g.near[Opp(e)][g.near[e][y]] = y
<1>1. y \in Live /\ y # End(e) /\ Shape(g, Live)
    BY LiveFacts DEF Owns
<1>2. /\ g.near[e][y] \in Live \ {End(Opp(e))}
      /\ g.near[Opp(e)][g.near[e][y]] = y
    BY <1>1, NeighbourOf
<1> QED
    BY <1>1, <1>2, Sides DEF Owns

-----------------------------------------------------------------------------
(* What a thread without pending stores reads under its locks *)

\* The tree pointers of a locked node are the settled ones.
LEMMA TreeAgrees ==
    ASSUME NEW g, Good(g), NEW t \in Thread, todo[t] = << >>,
           NEW x \in Live, Free(t, x)
    PROVE  /\ \A d \in Side : link[d][x] = g.child[d][x]
           /\ link["parent"][x] = g.parent[x]
<1>1. ASSUME NEW f \in TreeField PROVE link[f][x] = Final(g, f, x)
    <2> SUFFICES ASSUME link[f][x] # Final(g, f, x) PROVE FALSE
        OBVIOUS
    <2>1. f \in Field
        BY DEF TreeField, Field
    <2>2. PICK u \in Thread : \E w \in PendingStores(u) : w.f = f /\ w.n = x
        BY <2>1 DEF Good, HeapInv, Settles
    <2>3. u # t
        BY <2>2, NonePending
    <2>4. x \in held[u]
        BY <2>2, Pending
    <2> QED
        BY <2>3, <2>4 DEF Free
<1> QED
    BY <1>1, Fields

\* So is the snapshot across a gap it owns, unless the other end is a node just added.
LEMMA SnapshotAgrees ==
    ASSUME NEW g, Good(g), NEW t \in Thread, todo[t] = << >>, NEW e \in Side, NEW y,
           Owns(g, held[t], e, y), y \in held[t] \/ g.near[e][y] \in Shown
    PROVE  link[SnapshotField(e)][y] = g.near[e][y]
<1> SUFFICES ASSUME link[SnapshotField(e)][y] # g.near[e][y] PROVE FALSE
    OBVIOUS
<1>1. y \in Live /\ y # End(e)
    BY DEF Owns
<1>2. PICK u \in Thread : \E w \in PendingStores(u) : w.f = SnapshotField(e) /\ w.n = y
    BY <1>1, Fields DEF Good, HeapInv, Settles
<1>3. PICK w \in PendingStores(u) : w.f = SnapshotField(e) /\ w.n = y
    BY <1>2
<1>4. u # t
    BY <1>2, NonePending
<1>5. Adding(u) /\ (y \in held[u] \/ Len(todo[u]) = 3)
    <2>1. Owns(g, held[u], e, y) \/ (Adding(u) /\ (y \in held[u] \/ Len(todo[u]) = 3))
        BY <1>3 DEF Good, HeapInv, GapsOwned
    <2> QED
        BY <1>4, <2>1, OneOwner
<1>6. g.near[e][y] = New(u)
    BY <1>3, <1>5, Pending, NewNode, Fields
<1>7. g.child[e][y] # NULL
    <2>1. g.child[Opp(e)][New(u)] = NULL
        BY <1>5, NewNode, Sides
    <2> QED
        BY <1>1, <1>6, <2>1, LiveFacts DEF Shape, Gapped
<1>8. New(u) \in held[t]
    BY <1>6, <1>7 DEF Owns
<1>9. held[t] \subseteq Seen
    BY DEF Good, HeapInv
<1>10. y \notin held[t]
    <2>1. Len(todo[u]) # 3
        BY <1>5, <1>8, <1>9 DEF Seen
    <2>2. y \in held[u]
        BY <1>5, <2>1
    <2> QED
        BY <1>4, <2>2 DEF Good, LockInv, LocksHeld
<1> QED
    BY <1>5, <1>6, <1>10 DEF Shown

\* A snapshot read from y that leads to z, neither held by another thread, is settled.
LEMMA ReadBack ==
    ASSUME NEW g, Good(g), NEW t \in Thread, todo[t] = << >>, NEW e \in Side,
           NEW y \in Live, NEW z, Free(t, y), Free(t, z), link[SnapshotField(e)][y] = z
    PROVE  g.near[e][y] = z
<1> SUFFICES ASSUME link[SnapshotField(e)][y] # g.near[e][y] PROVE FALSE
    OBVIOUS
<1>1. PICK u \in Thread : \E w \in PendingStores(u) : w.f = SnapshotField(e) /\ w.n = y
    BY Fields DEF Good, HeapInv, Settles
<1>2. PICK w \in PendingStores(u) : w.f = SnapshotField(e) /\ w.n = y
    BY <1>1
<1>3. u # t
    BY <1>1, NonePending
<1>4. w.v = g.near[e][y]
    BY <1>2, Pending, Fields
<1>5. y \in held[u] \/ z \in held[u] \cup {w.v}
    <2>1. SnapshotField(e) \in {"leftSnapshot", "rightSnapshot"}
        BY DEF SnapshotField
    <2> QED
        BY <1>2, <2>1 DEF Good, HeapInv, OldHeld
<1> QED
    BY <1>3, <1>4, <1>5 DEF Free

\* y and n are neighbours, and one of them lacks the child between them.
LEMMA Across ==
    ASSUME NEW g, NEW live, Shape(g, live), NEW e \in Side, NEW n \in live, NEW y \in live,
           g.near[e][y] = n
    PROVE  /\ y # End(e) /\ n # End(Opp(e)) /\ g.near[Opp(e)][n] = y
           /\ (g.child[Opp(e)][n] = NULL) # (g.child[e][y] = NULL)
<1>1. y # End(e) /\ n # End(Opp(e)) /\ g.near[Opp(e)][n] = y
    BY NearBack
<1> QED
    BY <1>1 DEF Shape, Gapped

-----------------------------------------------------------------------------
(* Steps that change neither the heap nor the stores to be made *)

\* Only t moves.
Others(t) ==
    \A u \in Thread \ {t} : /\ pc'[u] = pc[u] /\ op'[u] = op[u] /\ reg'[u] = reg[u]
                            /\ held'[u] = held[u]

\* What a thread knows depends on what is live and, where it has not locked the
\* node, on the parent pointer.
LEMMA KnowsKept ==
    ASSUME NEW g, NEW l, NEW o, NEW r, NEW H, Knows(g, l, o, r, H), Live' = Live, link' = link
    PROVE  Knows(g, l, o, r, H)'
<1>1. \A e, y, m : Neighbour(g, H, e, y, m)' <=> Neighbour(g, H, e, y, m)
    BY DEF Neighbour, Owns
<1> QED
    BY <1>1 DEF Knows, Calling, NearNode, NearNeighbours, NearSuccessor

\* A step that changes only what one thread knows and has locked keeps the invariant.
LEMMA Quiet ==
    ASSUME NEW g, Good(g), NEW t \in Thread, Others(t), UNCHANGED <<heap, todo>>,
           pc[t] # "store", NEW l \in Location \ {"store"}, NEW r, NEW H,
           pc'[t] = l, reg'[t] = r, held'[t] = H, LocalsShown(r), H \subseteq Seen \ {NULL},
           Knows(g, l, op'[t], r, H)
    PROVE  HeapInv(g)'
<1>0. link' = link /\ marked' = marked /\ alloc' = alloc /\ todo' = todo /\ Live' = Live
    BY DEF heap, Live
<1>1. PendingStores(t) = {}
    BY NonePending DEF Good, LockInv
<1>2. \A u \in Thread : /\ PendingStores(u)' = PendingStores(u) /\ New(u)' = New(u)
                        /\ Adding(u)' <=> Adding(u)
    BY <1>0 DEF PendingStores, New, Adding, Others
<1>3. Shown' = Shown /\ Seen' = Seen
    BY <1>0, <1>2 DEF Shown, Seen
<1>4. (g \in Heap /\ Shape(g, Live) /\ Settles(g))'
    BY <1>0, <1>2 DEF Good, HeapInv, Settles
<1>5. NoStoreRace'
    BY <1>2 DEF Good, HeapInv, NoStoreRace
<1>6. \A u \in Thread \ {t} : held'[u] = held[u]
    BY DEF Others
<1>7. GapsOwned(g)'
    BY <1>0, <1>1, <1>2, <1>6 DEF Good, HeapInv, GapsOwned, Owns
<1>8. OldHeld'
    BY <1>0, <1>1, <1>2, <1>6 DEF Good, HeapInv, OldHeld
<1>9. LinksShown'
    BY <1>0, <1>3 DEF Good, HeapInv, LinksShown
<1>10. ASSUME NEW u \in Thread
       PROVE  (/\ LocalsShown(reg[u]) /\ held[u] \subseteq Seen \ {NULL}
               /\ Knows(g, pc[u], op[u], reg[u], held[u])
               /\ Adding(u) => Publishing(g, u))'
    <2>1. CASE u = t
        <3>1. LocalsShown(r)' /\ held'[t] \subseteq Seen' \ {NULL}
            BY <1>3 DEF LocalsShown
        <3>2. Knows(g, pc[t], op[t], reg[t], held[t])'
            <4>1. PICK k : k = op'[t]
                OBVIOUS
            <4>2. Knows(g, l, k, r, H)'
                BY <1>0, <4>1, KnowsKept
            <4> QED
                BY <4>1, <4>2
        <3> QED
            BY <2>1, <3>1, <3>2 DEF Adding
    <2>2. CASE u # t
        <3>1. pc'[u] = pc[u] /\ op'[u] = op[u] /\ reg'[u] = reg[u] /\ held'[u] = held[u]
            BY <2>2 DEF Others
        <3>2. (LocalsShown(reg[u]) /\ held[u] \subseteq Seen \ {NULL})'
            BY <1>3, <3>1 DEF Good, HeapInv, LocalsShown
        <3>3. Knows(g, pc[u], op[u], reg[u], held[u])'
            <4>1. Knows(g, pc[u], op[u], reg[u], held[u])
                BY DEF Good, HeapInv
            <4>2. PICK l0, o0, r0, H0 : l0 = pc[u] /\ o0 = op[u] /\ r0 = reg[u] /\ H0 = held[u]
                OBVIOUS
            <4>3. Knows(g, l0, o0, r0, H0)'
                BY <1>0, <4>1, <4>2, KnowsKept
            <4> QED
                BY <3>1, <4>2, <4>3
        <3>4. (Adding(u) => Publishing(g, u))'
            BY <1>0, <1>2, <3>1 DEF Good, HeapInv, Publishing, AddLeft
        <3> QED
            BY <3>2, <3>3, <3>4
    <2> QED
        BY <2>1, <2>2
<1> QED
    BY <1>4, <1>5, <1>7, <1>8, <1>9, <1>10 DEF HeapInv

-----------------------------------------------------------------------------
(* The kinds of quiet step *)

\* What the invariant says of one thread, in the form used below.
LEMMA KnownHere ==
    ASSUME NEW g, Good(g), NEW t \in Thread
    PROVE  /\ LocalsShown(reg[t]) /\ held[t] \subseteq Seen \ {NULL} /\ leaked[t] \subseteq held[t]
           /\ Knows(g, pc[t], op[t], reg[t], held[t])
           /\ LockedAt(pc[t], reg[t]) \subseteq held[t]
           /\ reg[t] \in Locals /\ pc[t] \in Location
           /\ pc[t] # "store" => todo[t] = << >>
           /\ Shown \subseteq Seen /\ Seen \subseteq alloc \cup {NULL} /\ NULL \in Shown
           /\ LinksShown /\ leftSentinel \in Shown /\ rightSentinel \in Shown
<1>1. {leftSentinel, rightSentinel} \subseteq alloc /\ NULL \notin alloc
    BY LiveFacts
<1>2. \A u \in Thread : Adding(u) => New(u) \notin {leftSentinel, rightSentinel, NULL}
    BY NewNode
<1>3. leftSentinel \in Shown /\ rightSentinel \in Shown /\ NULL \in Shown
    BY <1>1, <1>2 DEF Shown
<1>4. Shown \subseteq Seen /\ Seen \subseteq alloc \cup {NULL}
    BY DEF Shown, Seen
<1> QED
    BY <1>3, <1>4 DEF Good, HeapInv, TypeOK, LockInv, LocksHeld

\* With more locks a thread knows what it knew.
LEMMA OwnsMore ==
    ASSUME NEW g, NEW H, NEW J, H \subseteq J
    PROVE  /\ \A e, y : Owns(g, H, e, y) => Owns(g, J, e, y)
           /\ \A e, y, m : Neighbour(g, H, e, y, m) => Neighbour(g, J, e, y, m)
  BY DEF Owns, Neighbour

\* The thread goes on to another place, with other local variables.
LEMMA Advance ==
    ASSUME NEW g, Good(g), NEW t \in Thread, NEW l \in Location \ {"store"}, NEW r,
           Proceed(t, l, r), UNCHANGED <<heap, held, todo>>, pc[t] # "store",
           LocalsShown(r), Knows(g, l, op[t], r, held[t])
    PROVE  HeapInv(g)'
<1>1. pc'[t] = l /\ reg'[t] = r /\ op' = op /\ Others(t)
    BY ProceedEffect DEF Good, Proceed, Others
<1>2. PICK H : H = held[t]
    OBVIOUS
<1>3. H \subseteq Seen \ {NULL}
    BY <1>2, KnownHere
<1> QED
    BY <1>1, <1>2, <1>3, Quiet

\* The same, with one more lock.
LEMMA AdvanceLocking ==
    ASSUME NEW g, Good(g), NEW t \in Thread, NEW l \in Location \ {"store"}, NEW r, NEW n,
           Proceed(t, l, r), Acquire(t, n), UNCHANGED <<heap, todo>>, pc[t] # "store",
           n \in Seen \ {NULL}, LocalsShown(r), Knows(g, l, op[t], r, held[t] \cup {n})
    PROVE  HeapInv(g)'
<1>1. /\ pc'[t] = l /\ reg'[t] = r /\ op' = op /\ held'[t] = held[t] \cup {n}
      /\ Others(t)
    BY ZenonT(60), ProceedEffect, AcquireEffect DEF Good, Proceed, Others
<1>2. PICK H : H = held[t] \cup {n}
    OBVIOUS
<1>3. H \subseteq Seen \ {NULL}
    BY <1>2, KnownHere
<1> QED
    BY <1>1, <1>2, <1>3, Quiet

\* Between calls nothing is known, and at the start of a search only the call.
LEMMA KnowsNothing ==
    ASSUME NEW g, NEW o, NEW r, NEW H
    PROVE  /\ Knows(g, "idle", o, r, H)
           /\ o \in S!Op /\ r.node # NULL => Knows(g, "walk", o, r, H)
  BY DEF Knows, Calling, NearNode, NearNeighbours, NearSuccessor, RemovePlaces, NodePlaces,
         TwoPlaces, OnePlaces, PredPlaces, DeepPlaces, SuccParentPlaces, SuccPlaces

\* The locals a call starts with point to nodes that everyone may see.
LEMMA BlankShown ==
    ASSUME NEW g, Good(g), NEW t \in Thread
    PROVE  LocalsShown(Blank) /\ LocalsShown(AtRoot) /\ AtRoot.node # NULL
<1>1. leftSentinel \in Shown /\ NULL \in Shown /\ NULL \in Seen /\ leftSentinel # NULL
    BY KnownHere, NodeAssumption
<1> QED
    BY <1>1 DEF LocalsShown, Blank, AtRoot

\* An attempt that starts over keeps the invariant.
LEMMA StartsOver ==
    ASSUME NEW g, Good(g), NEW t \in Thread, Retry(t), UNCHANGED <<heap, todo>>,
           pc[t] \notin {"store", "idle"}
    PROVE  HeapInv(g)'
<1>1. /\ pc'[t] = "walk" /\ reg'[t] = AtRoot /\ op' = op /\ held'[t] = leaked[t]
      /\ Others(t)
    BY DEF Retry, Good, TypeOK, Goto, Others
<1>2. PICK H : H = leaked[t]
    OBVIOUS
<1>3. H \subseteq Seen \ {NULL}
    BY <1>2, KnownHere
<1>4. op[t] \in S!Op
    BY KnownHere DEF Knows, Calling
<1> QED
    BY <1>1, <1>2, <1>3, <1>4, Quiet, KnowsNothing, BlankShown DEF Location

\* So does a call that returns.
LEMMA Returns ==
    ASSUME NEW g, Good(g), NEW t \in Thread, NEW a, NEW kept \in SUBSET held[t],
           Return(t, a, kept), UNCHANGED <<heap, todo>>, pc[t] # "store"
    PROVE  HeapInv(g)'
<1>1. /\ pc'[t] = "idle" /\ reg'[t] = Blank /\ held'[t] = kept
      /\ Others(t)
    BY DEF Return, Good, TypeOK, Goto, Others
<1>2. kept \subseteq Seen \ {NULL}
    BY KnownHere
<1> QED
    BY <1>1, <1>2, Quiet, KnowsNothing, BlankShown DEF Location

\* So does a lock followed by a test that may fail.
LEMMA Trying ==
    ASSUME NEW g, Good(g), NEW t \in Thread, NEW n, NEW stale, NEW l \in Location \ {"store"},
           TryLock(t, n, stale, l), pc[t] \notin {"store", "idle"}, n \in Seen \ {NULL},
           ~stale /\ Free(t, n) => Knows(g, l, op[t], reg[t], held[t] \cup {n})
    PROVE  HeapInv(g)'
<1>1. CASE ~stale /\ Lock(t, n, l)
    <2>1. PICK r : r = reg[t]
        OBVIOUS
    <2> QED
        BY <1>1, <2>1, AdvanceLocking, KnownHere DEF Lock
<1>2. CASE stale /\ Free(t, n) /\ Retry(t) /\ UNCHANGED <<heap, leaked, todo>>
    BY <1>2, StartsOver
<1> QED
    BY <1>1, <1>2 DEF TryLock

-----------------------------------------------------------------------------
(* The search *)

\* What a pointer of a shown node leads to.
LEMMA ReadShown ==
    ASSUME NEW g, Good(g), NEW n \in Seen \ {NULL}
    PROVE  /\ link["left"][n] \in Shown /\ link["right"][n] \in Shown
           /\ link["parent"][n] \in Shown
           /\ link["leftSnapshot"][n] \in Seen /\ link["rightSnapshot"][n] \in Seen
           /\ n # rightSentinel => link["parent"][n] # NULL /\ link["leftSnapshot"][n] # NULL
           /\ n # leftSentinel => link["rightSnapshot"][n] \notin {NULL, rightSentinel}
           /\ n \in alloc
<1>1. n \in alloc /\ LinksShown
    BY DEF Good, HeapInv, Seen
<1> QED
    BY <1>1 DEF LinksShown, TreeField

\* A call begins (main.cpp:107-113).
LEMMA CallHeap ==
    ASSUME NEW g, Good(g), NEW t \in Thread, NEW o \in S!Op, Call(t, o)
    PROVE  HeapInv(g)'
<1>1. /\ pc'[t] = "walk" /\ reg'[t] = AtRoot /\ op'[t] = o /\ held'[t] = held[t]
      /\ Others(t) /\ UNCHANGED <<heap, todo>> /\ pc[t] # "store"
    BY DEF Call, Good, TypeOK, Goto, Others
<1>2. PICK H : H = held[t]
    OBVIOUS
<1>3. H \subseteq Seen \ {NULL}
    BY <1>2, KnownHere
<1> QED
    BY <1>1, <1>2, <1>3, Quiet, KnowsNothing, BlankShown DEF Location

\* The search, and the tests up to the lock of the parent (main.cpp:114-142, 228-262, 523-535).
LEMMA SearchHeap ==
    ASSUME NEW g, Good(g), NEW t \in Thread,
           Walk(t) \/ Found(t) \/ MissSnapshot(t) \/ AddLock(t) \/ ReadParent(t) \/ LockParent(t)
           \/ Recheck(t) \/ RemovedMeanwhile(t)
    PROVE  HeapInv(g)'
<1> DEFINE r == reg[t]
           n == r.node
<1>1. /\ LocalsShown(r) /\ leaked[t] \subseteq held[t] /\ r \in Locals /\ Shown \subseteq Seen
      /\ Knows(g, pc[t], op[t], r, held[t]) /\ n \in Shown
    BY KnownHere DEF LocalsShown
<1>2. pc[t] # "idle" => op[t] \in S!Op /\ n # NULL
    BY <1>1 DEF Knows, Calling
<1>3. CASE Walk(t)
    <2>1. n \in Seen \ {NULL} /\ op[t] \in S!Op /\ op[t].key # value[n]
        BY <1>1, <1>2, <1>3 DEF Walk
    <2>2. Child(n, op[t].key) \in Shown
        BY <2>1, ReadShown DEF Child, Left, Right
    <2>3. CASE Child(n, op[t].key) # NULL
        <3>1. PICK r1 : r1 = [r EXCEPT !.node = Child(n, op[t].key)]
            OBVIOUS
        <3>2. r1.node = Child(n, op[t].key)
            BY <1>1, <3>1 DEF Locals
        <3>3. LocalsShown(r1)
            BY <1>1, <2>2, <3>1 DEF LocalsShown, Locals
        <3>4. Proceed(t, "walk", r1) /\ UNCHANGED <<heap, held, todo>> /\ pc[t] # "store"
            BY <1>3, <2>3, <3>1 DEF Walk
        <3> QED
            BY <2>1, <2>3, <3>2, <3>3, <3>4, KnowsNothing, Advance DEF Location
    <2>4. CASE Child(n, op[t].key) = NULL
        <3>1. PICK r1, l : r1 = r /\ l = IF op[t].type = "add" THEN "addLock" ELSE "miss"
            OBVIOUS
        <3>2. Proceed(t, l, r1) /\ UNCHANGED <<heap, held, todo>> /\ pc[t] # "store"
            BY <1>3, <2>4, <3>1 DEF Walk
        <3>3. Knows(g, l, op[t], r1, held[t])
            BY <2>1, <3>1 DEF Knows, Calling, NearNode, NearNeighbours, NearSuccessor,
               RemovePlaces, NodePlaces, TwoPlaces, OnePlaces, PredPlaces, DeepPlaces,
               SuccParentPlaces, SuccPlaces
        <3> QED
            BY <1>1, <3>1, <3>2, <3>3, Advance DEF Location
    <2> QED
        BY <2>3, <2>4
<1>4. CASE Found(t)
    BY <1>1, <1>4, Returns DEF Found
<1>5. CASE MissSnapshot(t)
    BY <1>1, <1>5, Returns, StartsOver DEF MissSnapshot
<1>6. CASE AddLock(t)
    <2>1. n \in Seen \ {NULL} /\ n \in alloc /\ op[t].type = "add" /\ op[t].key # value[n]
        BY <1>1, <1>2, <1>6, ReadShown DEF AddLock, Knows, Calling
    <2>2. ASSUME ~(marked[n] \/ Child(n, op[t].key) # NULL), Free(t, n)
          PROVE  Knows(g, "addSnapshot", op[t], r, held[t] \cup {n})
        <3>1. n \in Live /\ todo[t] = << >>
            BY <1>6, <2>1, <2>2, KnownHere DEF Live, AddLock
        <3>2. g.child[SideOf(n, op[t].key)][n] = NULL
            BY <2>2, <3>1, TreeAgrees DEF SideOf, Child, Left, Right, Side
        <3> QED
            BY <1>2, <1>6, <2>1, <3>1, <3>2 DEF AddLock, Knows, Calling, NearNode, NearNeighbours,
               NearSuccessor, RemovePlaces, NodePlaces, TwoPlaces, OnePlaces, PredPlaces,
               DeepPlaces, SuccParentPlaces, SuccPlaces
    <2> QED
        BY <1>6, <2>1, <2>2, Trying DEF AddLock, Location
<1>7. CASE ReadParent(t)
    <2>1. /\ n \in Seen \ {NULL} /\ op[t] \in S!Op /\ op[t].key = value[n]
          /\ op[t].type = "remove"
        BY <1>1, <1>2, <1>7 DEF ReadParent
    <2>2. n # rightSentinel
        BY <2>1, NodeAssumption DEF S!Op
    <2>3. Parent(n) \in Shown \ {NULL}
        BY <2>1, <2>2, ReadShown DEF Parent
    <2>4. PICK r1 : r1 = [r EXCEPT !.parent = Parent(n)]
        OBVIOUS
    <2>5. r1.node = n /\ r1.parent = Parent(n) /\ LocalsShown(r1)
        BY <1>1, <2>3, <2>4 DEF LocalsShown, Locals
    <2>6. Knows(g, "lockParent", op[t], r1, held[t])
        BY <2>1, <2>3, <2>5 DEF Knows, Calling, NearNode, NearNeighbours, NearSuccessor,
               RemovePlaces, NodePlaces, TwoPlaces, OnePlaces, PredPlaces, DeepPlaces,
               SuccParentPlaces, SuccPlaces
    <2>7. Proceed(t, "lockParent", r1) /\ UNCHANGED <<heap, held, todo>> /\ pc[t] # "store"
        BY <1>7, <2>4 DEF ReadParent
    <2> QED
        BY <2>5, <2>6, <2>7, Advance DEF Location
<1>8. CASE LockParent(t)
    <2>1. PICK r1, l, x : /\ r1 = r /\ x = r.parent
                          /\ l = IF Parent(n) # r.parent THEN "recheck" ELSE "lockNode"
        OBVIOUS
    <2>2. Calling("lockParent", op[t], r)
        BY <1>1, <1>8 DEF LockParent, Knows
    <2>3. x \in Seen \ {NULL}
        BY <1>1, <2>1, <2>2 DEF Calling, RemovePlaces, LocalsShown
    <2>4. Calling(l, op[t], r1)
        BY <2>1, <2>2 DEF Calling, RemovePlaces
    <2>5. Knows(g, l, op[t], r1, held[t] \cup {x})
        BY <2>1, <2>4 DEF Knows, NearNode, NearNeighbours, NearSuccessor, Parent,
               NodePlaces, TwoPlaces, OnePlaces, PredPlaces, DeepPlaces, SuccParentPlaces, SuccPlaces
    <2>6. /\ Proceed(t, l, r1) /\ Acquire(t, x) /\ UNCHANGED <<heap, todo>> /\ pc[t] # "store"
        BY <1>8, <2>1 DEF LockParent
    <2> QED
        BY <1>1, <2>1, <2>3, <2>5, <2>6, AdvanceLocking DEF Location
<1>9. CASE Recheck(t)
    BY <1>1, <1>9, Returns, StartsOver DEF Recheck
<1>10. CASE RemovedMeanwhile(t)
    BY <1>1, <1>10, Returns DEF RemovedMeanwhile
<1> QED
    BY <1>3, <1>4, <1>5, <1>6, <1>7, <1>8, <1>9, <1>10

-----------------------------------------------------------------------------
(* What remove knows at each place once it has locked the node *)

Base(g, o, r) ==
    LET n == r.node IN
    /\ o \in S!Op /\ o.type = "remove" /\ o.key = value[n]
    /\ n # NULL /\ r.parent # NULL /\ n \in Live /\ g.parent[n] = r.parent
    /\ g.child["left"][n] = r.left /\ g.child["right"][n] = r.right
    /\ r.leftChild = (g.child["left"][r.parent] = n)

EndsKnown(g, r, H) ==
    /\ r.left = NULL => Neighbour(g, H, "left", r.node, r.rightNode)
    /\ r.right = NULL => Neighbour(g, H, "right", r.node, r.leftNode)
    /\ r.rightNode # NULL /\ r.leftNode \notin {NULL, rightSentinel}

PredKnown(g, r, H) ==
    /\ r.left # NULL /\ r.right # NULL /\ r.leftNode \notin {NULL, rightSentinel}
    /\ Neighbour(g, H, "left", r.node, r.rightNode)

DeepKnown(g, r, H) == PredKnown(g, r, H) /\ g.child["left"][r.right] # NULL

SuccKnown(g, r, H) ==
    /\ DeepKnown(g, r, H) /\ r.succParent # NULL
    /\ Neighbour(g, H, "right", r.node, r.leftNode) /\ g.parent[r.leftNode] = r.succParent

\* What remove knows, place by place.
LEMMA Places ==
    ASSUME NEW g, NEW o, NEW r, NEW H
    PROVE  LET knows(l) == Knows(g, l, o, r, H)
               one == (r.left = NULL) # (r.right = NULL)
               s == r.leftNode
           IN
      /\ knows("readPred") <=> Base(g, o, r)
      /\ knows("readSucc") <=>
            /\ Base(g, o, r) /\ r.rightNode # NULL
            /\ r.left = NULL => Neighbour(g, H, "left", r.node, r.rightNode)
      /\ knows("unlinkLeaf") <=>
            Base(g, o, r) /\ r.left = NULL /\ r.right = NULL /\ EndsKnown(g, r, H)
      /\ knows("lockChild") <=> Base(g, o, r) /\ one /\ EndsKnown(g, r, H)
      /\ knows("lockSnapshot") <=> Base(g, o, r) /\ one /\ EndsKnown(g, r, H)
      /\ knows("unlinkOneChild") <=>
            /\ Base(g, o, r) /\ one /\ EndsKnown(g, r, H)
            /\ Neighbour(g, H, "left", r.node, r.rightNode)
            /\ Neighbour(g, H, "right", r.node, s)
      /\ knows("lockLeft") <=> Base(g, o, r) /\ r.left # NULL /\ r.right # NULL
      /\ knows("lockRight") <=> Base(g, o, r) /\ r.left # NULL /\ r.right # NULL
      /\ knows("lockRightNode") <=>
            /\ Base(g, o, r) /\ r.left # NULL /\ r.right # NULL
            /\ r.rightNode # NULL /\ s \notin {NULL, rightSentinel}
            /\ g.child["left"][r.right] = NULL => s = r.right
      /\ knows("promoteRight") <=>
            Base(g, o, r) /\ PredKnown(g, r, H) /\ s = r.right /\ g.child["left"][s] = NULL
      /\ knows("readSuccParent") <=> Base(g, o, r) /\ DeepKnown(g, r, H)
      /\ knows("lockSuccParent") <=> Base(g, o, r) /\ DeepKnown(g, r, H) /\ r.succParent # NULL
      /\ knows("recheckSucc") <=> /\ Base(g, o, r) /\ DeepKnown(g, r, H) /\ r.succParent # NULL
                                  /\ link["parent"][s] = r.succParent
      /\ knows("lockSucc") <=> /\ Base(g, o, r) /\ DeepKnown(g, r, H) /\ r.succParent # NULL
                               /\ link["parent"][s] = r.succParent
      /\ knows("lockSuccRight") <=> Base(g, o, r) /\ SuccKnown(g, r, H)
      /\ knows("lockSuccRightSnapshot") <=>
            /\ Base(g, o, r) /\ SuccKnown(g, r, H) /\ g.child["right"][s] = r.succRight
            /\ r.succRight # NULL /\ r.succRightSnapshot # NULL
      /\ knows("applyRemove") <=>
            /\ Base(g, o, r) /\ SuccKnown(g, r, H) /\ g.child["right"][s] = r.succRight
            /\ Neighbour(g, H, "right", s, r.succRightSnapshot)
  BY DEF Knows, Calling, NearNode, NearNeighbours, NearSuccessor, RemovePlaces, NodePlaces,
         TwoPlaces, OnePlaces, PredPlaces, DeepPlaces, SuccParentPlaces, SuccPlaces,
         Base, EndsKnown, PredKnown, DeepKnown, SuccKnown

\* The node to be removed is no sentinel.
LEMMA BaseFacts ==
    ASSUME NEW g, Good(g), NEW o, NEW r, Base(g, o, r)
    PROVE  /\ r.node \in Live \ {leftSentinel, rightSentinel}
           /\ r.node # End("left") /\ r.node # End("right")
           /\ r.parent \in Live
<1>1. r.node \in Live /\ value[r.node] \in Key
    BY DEF Base, S!Op
<1>2. r.node \notin {leftSentinel, rightSentinel}
    BY <1>1, NodeAssumption
<1> QED
    BY <1>1, <1>2, LiveFacts, ParentOf DEF End, Base

\* No other thread has what a thread has locked.
LEMMA HeldFree ==
    ASSUME NEW g, Good(g), NEW t \in Thread, NEW x \in held[t]
    PROVE  Free(t, x) /\ x \in Seen \ {NULL}
  BY KnownHere DEF Good, LockInv, LocksHeld, Free

\* The record r1 is r with other values read from memory.
LEMMA LockNodeHeap ==
    ASSUME NEW g, Good(g), NEW t \in Thread, LockNode(t)
    PROVE  HeapInv(g)'
<1> DEFINE r == reg[t]
           n == r.node
<1>1. /\ LocalsShown(r) /\ r \in Locals /\ Shown \subseteq Seen /\ todo[t] = << >>
      /\ Knows(g, "lockNode", op[t], r, held[t]) /\ n \in Shown /\ r.parent \in held[t]
    BY KnownHere, LockedPair DEF LocalsShown, LockNode
<1>2. /\ op[t] \in S!Op /\ n # NULL /\ r.parent # NULL /\ op[t].type = "remove"
      /\ op[t].key = value[n] /\ link["parent"][n] = r.parent
    BY <1>1 DEF Knows, Calling, NearNode, RemovePlaces
<1>3. n \in Seen \ {NULL} /\ n \in Live /\ Free(t, n)
    BY <1>1, <1>2, ReadShown DEF Live, LockNode
<1>4. /\ link["left"][n] = g.child["left"][n] /\ link["right"][n] = g.child["right"][n]
      /\ g.parent[n] = r.parent
    BY <1>1, <1>2, <1>3, TreeAgrees DEF Side
<1>5. n \notin {leftSentinel, rightSentinel}
    BY <1>2, NodeAssumption DEF S!Op
<1>6. r.parent \in Live /\ link["left"][r.parent] = g.child["left"][r.parent]
    <2>1. r.parent \in Live
        BY <1>3, <1>4, <1>5, LiveFacts, ParentOf
    <2> QED
        BY <1>1, <2>1, HeldFree, TreeAgrees DEF Side
<1>7. PICK r1, l, x :
         /\ r1 = [r EXCEPT !.left = Left(n), !.right = Right(n), !.leftChild = (Left(r.parent) = n)]
         /\ l = (IF Left(n) # NULL /\ Right(n) # NULL THEN "lockLeft" ELSE "readPred")
         /\ x = n
    OBVIOUS
<1>8. /\ r1.node = n /\ r1.parent = r.parent /\ r1.left = link["left"][n]
      /\ r1.right = link["right"][n] /\ r1.leftChild = (link["left"][r.parent] = n)
      /\ LocalsShown(r1)
    <2>1. Left(n) \in Shown /\ Right(n) \in Shown
        BY <1>3, ReadShown DEF Left, Right
    <2> QED
        BY <1>1, <1>7, <2>1 DEF LocalsShown, Locals, Left, Right
<1>9. Base(g, op[t], r1)
    BY <1>2, <1>3, <1>4, <1>6, <1>8 DEF Base
<1>10. Knows(g, l, op[t], r1, held[t] \cup {x})
    <2>1. CASE Left(n) # NULL /\ Right(n) # NULL
        <3>1. l = "lockLeft" /\ r1.left # NULL /\ r1.right # NULL
            BY <1>7, <1>8, <2>1 DEF Left, Right
        <3> QED
            BY <1>9, <3>1, Places
    <2>2. CASE ~(Left(n) # NULL /\ Right(n) # NULL)
        BY <1>7, <1>9, <2>2, Places
    <2> QED
        BY <2>1, <2>2
<1>11. Proceed(t, l, r1) /\ Acquire(t, x) /\ UNCHANGED <<heap, todo>> /\ pc[t] # "store"
    BY <1>7 DEF LockNode
<1> QED
    BY <1>3, <1>7, <1>8, <1>10, <1>11, AdvanceLocking DEF Location

\* What holds where remove has locked the node.
LEMMA NodeHeld ==
    ASSUME NEW g, Good(g), NEW t \in Thread, pc[t] \in NodePlaces
    PROVE  LET r == reg[t]
               n == r.node
           IN
           /\ Base(g, op[t], r) /\ n \in held[t] /\ r.parent \in held[t]
           /\ n \in Live \ {leftSentinel, rightSentinel} /\ n # NULL /\ n \in Seen
           /\ n # End("left") /\ n # End("right")
           /\ todo[t] = << >> /\ r \in Locals /\ LocalsShown(r) /\ Shown \subseteq Seen
           /\ Shape(g, Live) /\ Knows(g, pc[t], op[t], r, held[t])
           /\ r.leftNode \in Seen /\ r.rightNode \in Seen /\ r.left \in Shown /\ r.right \in Shown
<1> DEFINE r == reg[t]
           n == r.node
<1>1. /\ Knows(g, pc[t], op[t], r, held[t]) /\ r \in Locals /\ LocalsShown(r)
      /\ Shown \subseteq Seen /\ LockedAt(pc[t], r) \subseteq held[t] /\ pc[t] # "store" /\ todo[t] = << >>
    BY KnownHere DEF NodePlaces, TwoPlaces, OnePlaces, PredPlaces, DeepPlaces,
       SuccParentPlaces, SuccPlaces
<1>2. n \in held[t] /\ r.parent \in held[t]
    BY <1>1, LockedPair, LockedNeighbours, LockedTwo DEF NodePlaces, TwoPlaces, OnePlaces,
       PredPlaces, DeepPlaces, SuccParentPlaces, SuccPlaces
<1>3. Base(g, op[t], r)
    <2>1. pc[t] \in RemovePlaces
        BY DEF RemovePlaces
    <2>2. pc[t] # "idle"
        BY DEF NodePlaces, TwoPlaces, OnePlaces, PredPlaces, DeepPlaces, SuccParentPlaces, SuccPlaces
    <2> QED
        BY <1>1, <2>1, <2>2 DEF Base, Knows, Calling, NearNode
<1>4. n \in Live \ {leftSentinel, rightSentinel} /\ n # End("left") /\ n # End("right")
    BY <1>3, BaseFacts
<1>5. n # NULL /\ n \in Seen /\ Shape(g, Live)
    BY <1>2, KnownHere, LiveFacts
<1> QED
    BY <1>1, <1>2, <1>3, <1>4, <1>5 DEF LocalsShown

\* A side on which the node has no child: the neighbour read there.
LEMMA BareSide ==
    ASSUME NEW g, Good(g), NEW t \in Thread, pc[t] \in NodePlaces, NEW e \in Side,
           g.child[e][reg[t].node] = NULL
    PROVE  Neighbour(g, held[t], e, reg[t].node, link[SnapshotField(e)][reg[t].node])
<1> DEFINE n == reg[t].node
<1>1. n \in held[t] /\ n \in Live /\ n # End(e) /\ todo[t] = << >>
    BY NodeHeld DEF Side
<1>2. Owns(g, held[t], e, n)
    BY <1>1 DEF Owns
<1> QED
    BY <1>1, <1>2, SnapshotAgrees DEF Neighbour

\* The predecessor is read (main.cpp:267-326).
LEMMA ReadPredHeap ==
    ASSUME NEW g, Good(g), NEW t \in Thread, ReadPred(t)
    PROVE  HeapInv(g)'
<1> DEFINE r == reg[t]
           n == r.node
<1>1. pc[t] = "readPred" /\ pc[t] \in NodePlaces
    BY DEF ReadPred, NodePlaces
<1>2. /\ Base(g, op[t], r) /\ n \in Seen \ {NULL} /\ n # rightSentinel /\ n # leftSentinel
      /\ r \in Locals /\ LocalsShown(r)
    BY <1>1, NodeHeld
<1>3. LeftSnapshot(n) \in Seen \ {NULL}
    BY <1>2, ReadShown DEF LeftSnapshot
<1>4. PICK r1 : r1 = [r EXCEPT !.rightNode = LeftSnapshot(n)]
    OBVIOUS
<1>5. /\ r1.node = n /\ r1.parent = r.parent /\ r1.left = r.left /\ r1.right = r.right
      /\ r1.leftChild = r.leftChild /\ r1.rightNode = LeftSnapshot(n) /\ LocalsShown(r1)
    BY <1>2, <1>3, <1>4 DEF LocalsShown, Locals
<1>6. Base(g, op[t], r1)
    BY <1>2, <1>5 DEF Base
<1>7. r1.left = NULL => Neighbour(g, held[t], "left", n, r1.rightNode)
    BY <1>1, <1>5, <1>6, BareSide DEF Base, Side, SnapshotField, LeftSnapshot
<1>8. Knows(g, "readSucc", op[t], r1, held[t])
    BY <1>3, <1>5, <1>6, <1>7, Places
<1>9. Proceed(t, "readSucc", r1) /\ UNCHANGED <<heap, held, todo>> /\ pc[t] # "store"
    BY <1>4 DEF ReadPred
<1> QED
    BY <1>5, <1>8, <1>9, Advance DEF Location

\* The successor is read (main.cpp:266-327).
LEMMA ReadSuccHeap ==
    ASSUME NEW g, Good(g), NEW t \in Thread, ReadSucc(t)
    PROVE  HeapInv(g)'
<1> DEFINE r == reg[t]
           n == r.node
           none == r.left = NULL /\ r.right = NULL
           both == r.left # NULL /\ r.right # NULL
<1>1. pc[t] = "readSucc" /\ pc[t] \in NodePlaces
    BY DEF ReadSucc, NodePlaces
<1>2. /\ Base(g, op[t], r) /\ n \in Seen \ {NULL} /\ n # rightSentinel /\ n # leftSentinel
      /\ r \in Locals /\ LocalsShown(r) /\ n \in held[t] /\ n \in Live /\ n # End("right")
      /\ todo[t] = << >>
    BY <1>1, NodeHeld
<1>3. RightSnapshot(n) \in Seen \ {NULL, rightSentinel}
    BY <1>2, ReadShown DEF RightSnapshot
<1>4. PICK r1, l : /\ r1 = [r EXCEPT !.leftNode = RightSnapshot(n)]
                   /\ l = IF none THEN "unlinkLeaf" ELSE IF both THEN "lockRightNode" ELSE "lockChild"
    OBVIOUS
<1>5. /\ r1.node = n /\ r1.parent = r.parent /\ r1.left = r.left /\ r1.right = r.right
      /\ r1.leftChild = r.leftChild /\ r1.rightNode = r.rightNode
      /\ r1.leftNode = RightSnapshot(n) /\ LocalsShown(r1)
    BY <1>2, <1>3, <1>4 DEF LocalsShown, Locals
<1>6. Base(g, op[t], r1)
    BY <1>2, <1>5 DEF Base
<1>7. r1.right = NULL => Neighbour(g, held[t], "right", n, r1.leftNode)
    BY <1>1, <1>5, <1>6, BareSide DEF Base, Side, SnapshotField, RightSnapshot
<1>8. r1.rightNode # NULL /\ (r1.left = NULL => Neighbour(g, held[t], "left", n, r1.rightNode))
    BY <1>1, <1>5, NodeHeld, Places
<1>9. both /\ g.child["left"][r.right] = NULL => r1.leftNode = r.right
    <2> SUFFICES ASSUME both, g.child["left"][r.right] = NULL PROVE r1.leftNode = r.right
        OBVIOUS
    <2>1. r.right \in held[t]
        BY <1>1, KnownHere, LockedNeighbours
    <2>2. g.near["right"][n] = r.right
        <3>1. g.child["right"][n] = r.right /\ r.right # NULL /\ Shape(g, Live)
            BY <1>2, LiveFacts DEF Base
        <3>2. LET m == g.child["right"][n] IN
              g.child["left"][m] = NULL => g.near["right"][n] = m
            <4> HIDE DEF n
            <4> QED
                BY <1>2, <3>1, Successor
        <3> QED
            BY <3>1, <3>2
    <2>3. Owns(g, held[t], "right", n)
        BY <1>2, <2>1, <2>2 DEF Owns, Opp
    <2> QED
        BY <1>2, <1>5, <2>2, <2>3, SnapshotAgrees DEF Side, SnapshotField, RightSnapshot
<1>10. Knows(g, l, op[t], r1, held[t])
    <2>1. CASE none
        <3>1. l = "unlinkLeaf" /\ r1.left = NULL /\ r1.right = NULL
            BY <1>4, <1>5, <2>1
        <3> QED
            BY <1>3, <1>5, <1>6, <1>7, <1>8, <3>1, Places DEF EndsKnown
    <2>2. CASE both
        <3>1. l = "lockRightNode" /\ r1.left # NULL /\ r1.right # NULL
            BY <1>4, <1>5, <2>2
        <3> QED
            BY <1>3, <1>5, <1>6, <1>8, <1>9, <2>2, <3>1, Places
    <2>3. CASE ~none /\ ~both
        <3>1. l = "lockChild" /\ (r1.left = NULL) # (r1.right = NULL)
            BY <1>4, <1>5, <2>3
        <3> QED
            BY <1>3, <1>5, <1>6, <1>7, <1>8, <3>1, Places DEF EndsKnown
    <2> QED
        BY <2>1, <2>2, <2>3
<1>11. Proceed(t, l, r1) /\ UNCHANGED <<heap, held, todo>> /\ pc[t] # "store"
    BY <1>4 DEF ReadSucc
<1> QED
    BY <1>4, <1>5, <1>10, <1>11, Advance DEF Location

\* With more locks remove knows what it knew.
LEMMA KnownMore ==
    ASSUME NEW g, NEW r, NEW H, NEW J, H \subseteq J
    PROVE  /\ EndsKnown(g, r, H) => EndsKnown(g, r, J)
           /\ PredKnown(g, r, H) => PredKnown(g, r, J)
           /\ DeepKnown(g, r, H) => DeepKnown(g, r, J)
           /\ SuccKnown(g, r, H) => SuccKnown(g, r, J)
  BY OwnsMore DEF EndsKnown, PredKnown, DeepKnown, SuccKnown

\* A lock that no test follows.
LEMMA LockingStep ==
    ASSUME NEW g, Good(g), NEW t \in Thread, NEW n, NEW l \in Location \ {"store"},
           Lock(t, n, l), pc[t] # "store", n \in Seen \ {NULL},
           Knows(g, l, op[t], reg[t], held[t] \cup {n})
    PROVE  HeapInv(g)'
<1>1. PICK r : r = reg[t]
    OBVIOUS
<1> QED
    BY <1>1, AdvanceLocking, KnownHere DEF Lock

\* A node that t finds unmarked once it has its lock, and that points back at n
\* on side e, is the neighbour of n on the other side.
LEMMA Gap ==
    ASSUME NEW g, Good(g), NEW t \in Thread, todo[t] = << >>, NEW e \in Side,
           NEW n \in Live, n \in held[t], NEW m \in Seen \ {NULL}, ~marked[m], Free(t, m),
           link[SnapshotField(e)][m] = n
    PROVE  /\ m \in Live
           /\ Neighbour(g, held[t] \cup {m}, Opp(e), n, m)
<1>1. m \in Live
    BY KnownHere DEF Live
<1>2. g.near[e][m] = n
    BY <1>1, HeldFree, ReadBack
<1>3. /\ n # End(Opp(e)) /\ g.near[Opp(e)][n] = m
      /\ g.child[Opp(e)][n] = NULL \/ g.child[e][m] = NULL
    BY <1>1, <1>2, LiveFacts, Across
<1> QED
    BY <1>1, <1>3, Sides DEF Neighbour, Owns

\* A child of the node is locked (main.cpp:287, 323-325).
LEMMA LockChildHeap ==
    ASSUME NEW g, Good(g), NEW t \in Thread, LockChild(t) \/ LockLeft(t) \/ LockRight(t)
    PROVE  HeapInv(g)'
<1> DEFINE r == reg[t]
<1>1. pc[t] \in {"lockChild", "lockLeft", "lockRight"} /\ pc[t] \in NodePlaces /\ pc[t] # "store"
    BY DEF LockChild, LockLeft, LockRight, NodePlaces, OnePlaces, TwoPlaces
<1>2. Shown \subseteq Seen /\ r.left \in Shown /\ r.right \in Shown /\ Knows(g, pc[t], op[t], r, held[t])
    BY <1>1, NodeHeld
<1>3. CASE LockChild(t)
    <2>1. Base(g, op[t], r) /\ (r.left = NULL) # (r.right = NULL) /\ EndsKnown(g, r, held[t])
        BY <1>2, <1>3, Places DEF LockChild
    <2>2. OnlyChild(r) \in Seen \ {NULL}
        BY <1>2, <2>1 DEF OnlyChild
    <2>3. Knows(g, "lockSnapshot", op[t], r, held[t] \cup {OnlyChild(r)})
        <3>1. EndsKnown(g, r, held[t] \cup {OnlyChild(r)})
            BY <2>1, KnownMore
        <3> QED
            BY <2>1, <3>1, Places
    <2> QED
        BY <1>1, <1>3, <2>2, <2>3, LockingStep DEF LockChild, Location
<1>4. CASE LockLeft(t)
    <2>1. Base(g, op[t], r) /\ r.left # NULL /\ r.right # NULL
        BY <1>2, <1>4, Places DEF LockLeft
    <2>2. Knows(g, "lockRight", op[t], r, held[t] \cup {r.left})
        BY <2>1, Places
    <2> QED
        BY <1>1, <1>2, <1>4, <2>1, <2>2, LockingStep DEF LockLeft, Location
<1>5. CASE LockRight(t)
    <2>1. Base(g, op[t], r) /\ r.left # NULL /\ r.right # NULL
        BY <1>2, <1>5, Places DEF LockRight
    <2>2. Knows(g, "readPred", op[t], r, held[t] \cup {r.right})
        BY <2>1, Places
    <2> QED
        BY <1>1, <1>2, <1>5, <2>1, <2>2, LockingStep DEF LockRight, Location
<1> QED
    BY <1>3, <1>4, <1>5

\* The neighbour on the side of the only child is locked, and points back (main.cpp:288-306).
LEMMA LockSnapshotHeap ==
    ASSUME NEW g, Good(g), NEW t \in Thread, LockSnapshot(t)
    PROVE  HeapInv(g)'
<1> DEFINE r == reg[t]
           n == r.node
           m == SnapshotToLock(r)
           back == IF r.left = NULL THEN LeftSnapshot(m) ELSE RightSnapshot(m)
<1>1. pc[t] = "lockSnapshot" /\ pc[t] \in NodePlaces
    BY DEF LockSnapshot, NodePlaces, OnePlaces
<1>2. /\ r.leftNode \in Seen /\ r.rightNode \in Seen /\ Knows(g, "lockSnapshot", op[t], r, held[t])
      /\ n \in Live /\ n \in held[t] /\ todo[t] = << >>
    BY <1>1, NodeHeld
<1>3. Base(g, op[t], r) /\ (r.left = NULL) # (r.right = NULL) /\ EndsKnown(g, r, held[t])
    BY <1>2, Places
<1>4. m \in Seen \ {NULL}
    BY <1>2, <1>3 DEF SnapshotToLock, EndsKnown
<1>5. ASSUME ~(back # n \/ marked[m]), Free(t, m)
      PROVE  Knows(g, "unlinkOneChild", op[t], r, held[t] \cup {m})
    <2>1. EndsKnown(g, r, held[t] \cup {m})
        BY <1>3, KnownMore
    <2>2. CASE r.left = NULL
        <3>1. m = r.leftNode /\ link[SnapshotField("left")][m] = n
            BY <1>5, <2>2 DEF SnapshotToLock, SnapshotField, LeftSnapshot
        <3>2. Neighbour(g, held[t] \cup {m}, "right", n, m)
            BY <1>2, <1>4, <1>5, <3>1, Gap DEF Side, Opp
        <3>3. Neighbour(g, held[t] \cup {m}, "left", n, r.rightNode)
            BY <2>1, <2>2 DEF EndsKnown
        <3> QED
            BY <1>3, <2>1, <3>1, <3>2, <3>3, Places
    <2>3. CASE r.left # NULL
        <3>1. m = r.rightNode /\ link[SnapshotField("right")][m] = n /\ r.right = NULL
            BY <1>3, <1>5, <2>3 DEF SnapshotToLock, SnapshotField, RightSnapshot
        <3>2. Neighbour(g, held[t] \cup {m}, "left", n, m)
            BY <1>2, <1>4, <1>5, <3>1, Gap DEF Side, Opp
        <3>3. Neighbour(g, held[t] \cup {m}, "right", n, r.leftNode)
            BY <2>1, <3>1 DEF EndsKnown
        <3> QED
            BY <1>3, <2>1, <3>1, <3>2, <3>3, Places
    <2> QED
        BY <2>2, <2>3
<1>6. TryLock(t, m, back # n \/ marked[m], "unlinkOneChild")
    BY DEF LockSnapshot
<1> QED
    BY <1>1, <1>4, <1>5, <1>6, Trying DEF Location

\* The predecessor is locked, and points back (main.cpp:329-344).
LEMMA LockRightNodeHeap ==
    ASSUME NEW g, Good(g), NEW t \in Thread, LockRightNode(t)
    PROVE  HeapInv(g)'
<1> DEFINE r == reg[t]
           n == r.node
           m == r.rightNode
           l == IF Left(r.right) = NULL THEN "promoteRight" ELSE "readSuccParent"
<1>1. pc[t] = "lockRightNode" /\ pc[t] \in NodePlaces
    BY DEF LockRightNode, NodePlaces, TwoPlaces
<1>2. /\ m \in Seen /\ Knows(g, "lockRightNode", op[t], r, held[t])
      /\ n \in Live /\ n \in held[t] /\ todo[t] = << >>
    BY <1>1, NodeHeld
<1>3. /\ Base(g, op[t], r) /\ r.left # NULL /\ r.right # NULL /\ m # NULL
      /\ r.leftNode \notin {NULL, rightSentinel}
      /\ g.child["left"][r.right] = NULL => r.leftNode = r.right
    BY <1>2, Places
<1>4. r.right \in held[t] /\ r.right \in Live
    <2>1. r.right \in held[t]
        BY <1>1, KnownHere, LockedTwo
    <2> QED
        BY <1>2, <1>3, <2>1, LiveFacts DEF Base, Side
<1>5. Left(r.right) = g.child["left"][r.right]
    BY <1>2, <1>4, HeldFree, TreeAgrees DEF Left, Side
<1>6. ASSUME ~(RightSnapshot(m) # n \/ marked[m]), Free(t, m)
      PROVE  Knows(g, l, op[t], r, held[t] \cup {m})
    <2>1. Neighbour(g, held[t] \cup {m}, "left", n, m)
        BY <1>2, <1>3, <1>6, Gap DEF Side, Opp, SnapshotField, RightSnapshot
    <2>2. PredKnown(g, r, held[t] \cup {m})
        BY <1>3, <2>1 DEF PredKnown
    <2>3. CASE Left(r.right) = NULL
        <3>1. l = "promoteRight" /\ r.leftNode = r.right /\ g.child["left"][r.leftNode] = NULL
            BY <1>3, <1>5, <2>3
        <3>2. Knows(g, "promoteRight", op[t], r, held[t] \cup {m})
            BY <1>3, <2>2, <3>1, Places
        <3> QED
            BY <3>1, <3>2
    <2>4. CASE Left(r.right) # NULL
        BY <1>3, <1>5, <2>2, <2>4, Places DEF DeepKnown
    <2> QED
        BY <2>3, <2>4
<1>7. TryLock(t, m, RightSnapshot(m) # n \/ marked[m], l)
    BY DEF LockRightNode
<1>8. l \in Location \ {"store"}
    BY DEF Location
<1> QED
    BY <1>1, <1>2, <1>3, <1>6, <1>7, <1>8, Trying

\* The parent of the successor is read (main.cpp:357-358).
LEMMA ReadSuccParentHeap ==
    ASSUME NEW g, Good(g), NEW t \in Thread, ReadSuccParent(t)
    PROVE  HeapInv(g)'
<1> DEFINE r == reg[t]
           s == r.leftNode
<1>1. pc[t] = "readSuccParent" /\ pc[t] \in NodePlaces
    BY DEF ReadSuccParent, NodePlaces, TwoPlaces, PredPlaces, DeepPlaces
<1>2. /\ s \in Seen /\ Knows(g, "readSuccParent", op[t], r, held[t]) /\ LocalsShown(r)
      /\ r \in Locals
    BY <1>1, NodeHeld
<1>3. Base(g, op[t], r) /\ DeepKnown(g, r, held[t])
    BY <1>2, Places
<1>4. Parent(s) \in Shown \ {NULL}
    BY <1>2, <1>3, ReadShown DEF Parent, DeepKnown, PredKnown
<1>5. PICK r1 : r1 = [r EXCEPT !.succParent = Parent(s)]
    OBVIOUS
<1>6. /\ r1.node = r.node /\ r1.parent = r.parent /\ r1.left = r.left /\ r1.right = r.right
      /\ r1.leftChild = r.leftChild /\ r1.rightNode = r.rightNode
      /\ r1.leftNode = s /\ LocalsShown(r1) /\ r1.succParent # NULL
    BY <1>2, <1>4, <1>5 DEF LocalsShown, Locals
<1>7. Base(g, op[t], r1) /\ DeepKnown(g, r1, held[t])
    BY <1>3, <1>6 DEF Base, DeepKnown, PredKnown
<1>8. Knows(g, "lockSuccParent", op[t], r1, held[t])
    BY <1>6, <1>7, Places
<1>9. Proceed(t, "lockSuccParent", r1) /\ UNCHANGED <<heap, held, todo>> /\ pc[t] # "store"
    BY <1>5 DEF ReadSuccParent, Succ
<1> QED
    BY <1>6, <1>8, <1>9, Advance DEF Location

\* It is locked and is still the parent (main.cpp:360-375).
LEMMA LockSuccParentHeap ==
    ASSUME NEW g, Good(g), NEW t \in Thread, LockSuccParent(t) \/ RecheckSucc(t)
    PROVE  HeapInv(g)'
<1> DEFINE r == reg[t]
           s == r.leftNode
<1>1. pc[t] \in {"lockSuccParent", "recheckSucc"} /\ pc[t] \in NodePlaces
    BY DEF LockSuccParent, RecheckSucc, NodePlaces, TwoPlaces, PredPlaces, DeepPlaces, SuccParentPlaces
<1>2. Knows(g, pc[t], op[t], r, held[t]) /\ LocalsShown(r) /\ Shown \subseteq Seen
    BY <1>1, NodeHeld
<1>3. Base(g, op[t], r) /\ DeepKnown(g, r, held[t]) /\ r.succParent # NULL
    BY <1>1, <1>2, Places
<1>4. CASE LockSuccParent(t)
    <2>1. r.succParent \in Seen
        BY <1>2 DEF LocalsShown
    <2>2. ASSUME ~(Parent(s) # r.succParent)
          PROVE  Knows(g, "recheckSucc", op[t], r, held[t] \cup {r.succParent})
        <3>1. DeepKnown(g, r, held[t] \cup {r.succParent})
            BY <1>3, KnownMore
        <3> QED
            BY <1>3, <2>2, <3>1, Places DEF Parent
    <2>3. TryLock(t, r.succParent, Parent(s) # r.succParent, "recheckSucc")
        BY <1>4 DEF LockSuccParent, Succ
    <2>4. pc[t] \notin {"store", "idle"} /\ r.succParent \in Seen \ {NULL}
        BY <1>1, <1>2, <1>3, <2>1
    <2> QED
        BY <2>2, <2>3, <2>4, Trying DEF Location
<1>5. CASE RecheckSucc(t)
    <2>1. PICK r1 : r1 = r
        OBVIOUS
    <2>2. pc[t] = "recheckSucc"
        BY <1>5 DEF RecheckSucc
    <2>3. link["parent"][s] = r.succParent
        BY <1>2, <2>2, Places
    <2>4. Knows(g, "lockSucc", op[t], r1, held[t])
        BY <1>3, <2>1, <2>3, Places
    <2> QED
        BY <1>2, <1>5, <2>1, <2>4, Advance, StartsOver DEF RecheckSucc, Location
<1> QED
    BY <1>4, <1>5

\* The successor is locked and is still the successor (main.cpp:377-393).
LEMMA LockSuccHeap ==
    ASSUME NEW g, Good(g), NEW t \in Thread, LockSucc(t)
    PROVE  HeapInv(g)'
<1> DEFINE r == reg[t]
           n == r.node
           s == r.leftNode
<1>1. pc[t] = "lockSucc" /\ pc[t] \in NodePlaces
    BY DEF LockSucc, NodePlaces, TwoPlaces, PredPlaces, DeepPlaces, SuccParentPlaces
<1>2. /\ Knows(g, "lockSucc", op[t], r, held[t]) /\ s \in Seen
      /\ n \in Live /\ n \in held[t] /\ todo[t] = << >>
    BY <1>1, NodeHeld
<1>3. /\ Base(g, op[t], r) /\ DeepKnown(g, r, held[t]) /\ r.succParent # NULL
      /\ link["parent"][s] = r.succParent
    BY <1>2, Places
<1>4. s \in Seen \ {NULL}
    BY <1>2, <1>3 DEF DeepKnown, PredKnown
<1>5. ASSUME ~(LeftSnapshot(s) # n \/ marked[s]), Free(t, s)
      PROVE  Knows(g, "lockSuccRight", op[t], r, held[t] \cup {s})
    <2>1. Neighbour(g, held[t] \cup {s}, "right", n, s) /\ s \in Live
        BY <1>2, <1>4, <1>5, Gap DEF Side, Opp, SnapshotField, LeftSnapshot
    <2>2. g.parent[s] = r.succParent
        BY <1>2, <1>3, <1>5, <2>1, TreeAgrees
    <2>3. SuccKnown(g, r, held[t] \cup {s})
        BY <1>3, <2>1, <2>2, KnownMore DEF SuccKnown
    <2> QED
        BY <1>3, <2>3, Places
<1>6. TryLock(t, s, LeftSnapshot(s) # n \/ marked[s], "lockSuccRight")
    BY DEF LockSucc, Succ
<1> QED
    BY <1>1, <1>4, <1>5, <1>6, Trying DEF Location

\* The right child of the successor is read and locked (main.cpp:394-399).
LEMMA LockSuccRightHeap ==
    ASSUME NEW g, Good(g), NEW t \in Thread, LockSuccRight(t)
    PROVE  HeapInv(g)'
<1> DEFINE r == reg[t]
           n == r.node
           s == r.leftNode
           right == Right(s)
           next == RightSnapshot(s)
<1>1. pc[t] = "lockSuccRight" /\ pc[t] \in NodePlaces
    BY DEF LockSuccRight, NodePlaces, TwoPlaces, PredPlaces, DeepPlaces, SuccParentPlaces, SuccPlaces
<1>2. /\ Knows(g, "lockSuccRight", op[t], r, held[t]) /\ LocalsShown(r) /\ r \in Locals
      /\ n \in Live /\ n \in held[t] /\ todo[t] = << >> /\ n # leftSentinel
    BY <1>1, NodeHeld
<1>3. s \in held[t]
    BY <1>1, KnownHere, LockedTwo
<1>4. Base(g, op[t], r) /\ SuccKnown(g, r, held[t])
    BY <1>2, Places
<1>5. g.near["right"][n] = s /\ s \in Live /\ s # rightSentinel /\ s # leftSentinel
    <2>1. g.near["right"][n] = s /\ g.child["right"][n] # NULL
        BY <1>4 DEF SuccKnown, DeepKnown, PredKnown, Neighbour, Base
    <2>2. s \in Live /\ s # rightSentinel /\ (s # g.child["right"][n] => g.child["left"][g.parent[s]] = s)
        BY <1>2, <2>1, LiveFacts, Successor
    <2>3. s # g.child["right"][n]
        <3>1. g.child["left"][s] = NULL
            BY <1>2, <2>1, LiveFacts, Successor
        <3> QED
            BY <1>4, <3>1 DEF SuccKnown, DeepKnown, Base
    <2>4. s # leftSentinel
        <3>1. g.parent[leftSentinel] = rightSentinel /\ g.child["left"][rightSentinel] = NULL
            BY LiveFacts, EndBare DEF Shape, Rooted, End, Side
        <3>2. NULL \notin Live
            BY LiveFacts
        <3> QED
            BY <2>2, <2>3, <3>1, <3>2
    <2> QED
        BY <2>1, <2>2, <2>4
<1>6. right = g.child["right"][s]
    BY <1>2, <1>3, <1>5, HeldFree, TreeAgrees DEF Right, Side
<1>7. right \in Shown /\ next \in Seen \ {NULL}
    BY <1>3, <1>5, HeldFree, ReadShown DEF Right, RightSnapshot
<1>8. PICK r1, l : /\ r1 = [r EXCEPT !.succRight = right, !.succRightSnapshot = next]
                   /\ l = IF right \in {NULL, next} THEN "applyRemove" ELSE "lockSuccRightSnapshot"
    OBVIOUS
<1>9. /\ r1.node = n /\ r1.parent = r.parent /\ r1.left = r.left /\ r1.right = r.right
      /\ r1.leftChild = r.leftChild /\ r1.rightNode = r.rightNode /\ r1.leftNode = s
      /\ r1.succParent = r.succParent /\ r1.succRight = right /\ r1.succRightSnapshot = next
      /\ LocalsShown(r1)
    BY <1>2, <1>7, <1>8 DEF LocalsShown, Locals
<1>10. Base(g, op[t], r1) /\ SuccKnown(g, r1, held[t])
    BY <1>4, <1>9 DEF Base, SuccKnown, DeepKnown, PredKnown
<1>11. Proceed(t, l, r1) /\ UNCHANGED <<heap, todo>> /\ pc[t] # "store" /\ l \in Location \ {"store"}
    BY <1>8 DEF LockSuccRight, Succ, Location
<1>12. CASE right = NULL /\ UNCHANGED held
    <2>1. Owns(g, held[t], "right", s)
        BY <1>3, <1>5, <1>6, <1>12 DEF Owns, End
    <2>2. g.near["right"][s] = next
        BY <1>2, <1>3, <2>1, SnapshotAgrees DEF Side, SnapshotField, RightSnapshot
    <2>3. Knows(g, "applyRemove", op[t], r1, held[t])
        BY <1>6, <1>9, <1>10, <2>1, <2>2, Places DEF Neighbour
    <2> QED
        BY <1>8, <1>9, <1>11, <1>12, <2>3, Advance
<1>13. CASE right # NULL /\ Free(t, right) /\ Acquire(t, right)
    <2>1. PICK x : x = right
        OBVIOUS
    <2>2. SuccKnown(g, r1, held[t] \cup {x})
        BY <1>10, KnownMore
    <2>3. CASE right = next
        <3>1. g.near["right"][s] = next
            BY <1>2, <1>3, <1>5, <1>13, <2>3, HeldFree, ReadBack DEF Side, SnapshotField, RightSnapshot
        <3>2. right \in Live
            BY <1>5, <1>6, <1>13, LiveFacts DEF Side
        <3>3. g.child["right"][s] = NULL \/ g.child["left"][next] = NULL
            BY <1>5, <2>3, <3>1, <3>2, LiveFacts, Across DEF Side, Opp
        <3>4. Neighbour(g, held[t] \cup {x}, "right", s, next)
            BY <1>3, <1>5, <2>1, <2>3, <3>1, <3>3 DEF Neighbour, Owns, Opp, End
        <3>5. Knows(g, "applyRemove", op[t], r1, held[t] \cup {x})
            BY <1>6, <1>9, <1>10, <2>2, <3>4, Places
        <3> QED
            BY <1>7, <1>8, <1>9, <1>11, <1>13, <2>1, <2>3, <3>5, AdvanceLocking, KnownHere
    <2>4. CASE right # next
        <3>1. Knows(g, "lockSuccRightSnapshot", op[t], r1, held[t] \cup {x})
            BY <1>6, <1>7, <1>9, <1>10, <1>13, <2>2, Places
        <3>2. l = "lockSuccRightSnapshot"
            BY <1>8, <1>13, <2>4
        <3> QED
            BY <1>7, <1>9, <1>11, <1>13, <2>1, <3>1, <3>2, AdvanceLocking, KnownHere
    <2> QED
        BY <2>3, <2>4
<1> QED
    BY <1>12, <1>13 DEF LockSuccRight, Succ

\* The successor's successor is locked, and points back (main.cpp:401-419).
LEMMA LockSuccRightSnapshotHeap ==
    ASSUME NEW g, Good(g), NEW t \in Thread, LockSuccRightSnapshot(t)
    PROVE  HeapInv(g)'
<1> DEFINE r == reg[t]
           n == r.node
           s == r.leftNode
           m == r.succRightSnapshot
<1>1. pc[t] = "lockSuccRightSnapshot" /\ pc[t] \in NodePlaces
    BY DEF LockSuccRightSnapshot, NodePlaces, TwoPlaces, PredPlaces, DeepPlaces, SuccParentPlaces, SuccPlaces
<1>2. /\ Knows(g, pc[t], op[t], r, held[t]) /\ m \in Seen /\ todo[t] = << >>
    BY <1>1, NodeHeld DEF LocalsShown
<1>3. s \in held[t]
    BY <1>1, KnownHere, LockedTwo
<1>4. /\ Base(g, op[t], r) /\ SuccKnown(g, r, held[t]) /\ g.child["right"][s] = r.succRight
      /\ m # NULL
    BY <1>1, <1>2, Places
<1>5. s \in Live
    BY <1>4, LiveFacts DEF SuccKnown, Neighbour, Owns, Side
<1>6. ASSUME ~(LeftSnapshot(m) # s \/ marked[m]), Free(t, m)
      PROVE  Knows(g, "applyRemove", op[t], r, held[t] \cup {m})
    <2>1. Neighbour(g, held[t] \cup {m}, "right", s, m)
        BY <1>2, <1>3, <1>4, <1>5, <1>6, Gap DEF Side, Opp, SnapshotField, LeftSnapshot
    <2>2. SuccKnown(g, r, held[t] \cup {m})
        BY <1>4, KnownMore
    <2> QED
        BY <1>4, <2>1, <2>2, Places
<1>7. TryLock(t, m, LeftSnapshot(m) # s \/ marked[m], "applyRemove")
    BY DEF LockSuccRightSnapshot, Succ
<1> QED
    BY <1>1, <1>2, <1>4, <1>6, <1>7, Trying DEF Location

-----------------------------------------------------------------------------
(* A pending store is made *)

\* The stores of an add that are left after the first of them.
LEMMA AddTail ==
    ASSUME NEW t \in Thread, NEW e \in Side, NEW n, NEW x, AddLeft(t, e, n, x)
    PROVE  /\ Len(todo[t]) \in 1 .. 3
           /\ Head(todo[t]).f \in TreeField => Len(todo[t]) = 1
           /\ Len(todo[t]) > 1 =>
                 LET rest == Tail(todo[t]) IN
                 /\ \/ rest = << [f |-> SnapshotField(e), n |-> n, v |-> x],
                                 [f |-> e, n |-> n, v |-> x] >>
                    \/ rest = << [f |-> e, n |-> n, v |-> x] >>
                 /\ Len(rest) \in 1 .. 2 /\ rest[Len(rest)].v = x
                 /\ \A i \in DOMAIN rest : rest[i].n = n
<1>1. SnapshotField(e) \notin TreeField /\ SnapshotField(Opp(e)) \notin TreeField
    BY Fields, Sides
<1>2. CASE \E a \in Node : todo[t] = AddList(e, n, a, x)
    BY <1>1, <1>2 DEF AddList
<1>3. CASE todo[t] = << [f |-> SnapshotField(e), n |-> n, v |-> x], [f |-> e, n |-> n, v |-> x] >>
    BY <1>1, <1>3
<1>4. CASE todo[t] = << [f |-> e, n |-> n, v |-> x] >>
    BY <1>4
<1> QED
    BY <1>2, <1>3, <1>4 DEF AddLeft

\* What a thread knows survives stores to other parent pointers than those it relies on.
LEMMA KnowsElsewhere ==
    ASSUME NEW g, NEW l, NEW o, NEW r, NEW H, Knows(g, l, o, r, H), Live' = Live,
           l = "lockNode" => link'["parent"][r.node] = link["parent"][r.node],
           l \in {"recheckSucc", "lockSucc"} =>
              link'["parent"][r.leftNode] = link["parent"][r.leftNode]
    PROVE  Knows(g, l, o, r, H)'
<1>1. \A e, y, m : Neighbour(g, H, e, y, m)' <=> Neighbour(g, H, e, y, m)
    BY DEF Neighbour, Owns
<1>2. NearNode(g, l, o, r)'
    BY DEF Knows, NearNode
<1>3. NearNeighbours(g, l, r, H)'
    BY <1>1 DEF Knows, NearNeighbours
<1>4. NearSuccessor(g, l, r, H)'
    BY <1>1 DEF Knows, NearSuccessor
<1> QED
    BY <1>2, <1>3, <1>4 DEF Knows, Calling

\* The effect of the step, point by point.
LEMMA StoreEffect ==
    ASSUME NEW g, Good(g), NEW t \in Thread, DoStore(t)
    PROVE  LET s == Head(todo[t]) IN
           /\ pc[t] = "store" /\ s \in PendingStores(t)
           /\ link'[s.f][s.n] = s.v
           /\ \A f \in Field : \A x \in Ptr : f # s.f \/ x # s.n => link'[f][x] = link[f][x]
           /\ marked' = marked /\ alloc' = alloc /\ Live' = Live
           /\ \A u \in Thread : PendingStores(u)' \subseteq PendingStores(u)
           /\ \A u \in Thread : \A w \in PendingStores(u) :
                 w \in PendingStores(u)' \/ (u = t /\ w = s)
           /\ todo'[t] = Tail(todo[t])
           /\ \A u \in Thread \ {t} : /\ todo'[u] = todo[u] /\ pc'[u] = pc[u] /\ op'[u] = op[u]
                                      /\ reg'[u] = reg[u] /\ held'[u] = held[u]
           /\ \/ /\ Len(todo[t]) > 1 /\ pc'[t] = pc[t] /\ op'[t] = op[t] /\ reg'[t] = reg[t]
                 /\ held'[t] = held[t]
              \/ /\ Len(todo[t]) = 1 /\ pc'[t] = "idle" /\ reg'[t] = Blank /\ held'[t] = leaked[t]
                 /\ PendingStores(t)' = {}
<1> DEFINE s == Head(todo[t])
<1>1. /\ todo[t] \in Seq(Store) /\ todo[t] # << >> /\ pc[t] = "store"
      /\ link \in [Field -> [Ptr -> Ptr]] /\ todo \in [Thread -> Seq(Store)]
      /\ pc \in [Thread -> Location] /\ held \in [Thread -> SUBSET Ptr] /\ reg \in [Thread -> Locals]
      /\ op \in [Thread -> S!Op \cup {NoOp}]
    <2>1. Len(todo[t]) >= 1 /\ pc[t] = "store"
        BY DEF DoStore
    <2>2. TypeOK
        BY DEF Good
    <2>3. todo[t] # << >>
        BY <2>1
    <2> QED
        BY <2>1, <2>2, <2>3 DEF TypeOK
<1>2. PICK q \in Seq(Store) : q = todo[t]
    BY <1>1
<1>3. /\ q # << >> /\ 1 \in DOMAIN q /\ Head(q) = q[1] /\ Len(q) \in Nat /\ Len(q) >= 1
      /\ Tail(q) \in Seq(Store) /\ Len(Tail(q)) = Len(q) - 1
      /\ \A i \in DOMAIN Tail(q) : i + 1 \in DOMAIN q /\ Tail(q)[i] = q[i + 1]
      /\ \A i \in DOMAIN q : i = 1 \/ (i - 1 \in DOMAIN Tail(q) /\ Tail(q)[i - 1] = q[i])
    BY <1>1, <1>2
<1>4. s \in PendingStores(t) /\ s \in Store
    BY <1>2, <1>3 DEF PendingStores
<1>5. /\ link' = [link EXCEPT ![s.f][s.n] = s.v] /\ marked' = marked /\ alloc' = alloc
      /\ todo' = [todo EXCEPT ![t] = Tail(todo[t])]
    BY DEF DoStore
<1>6. /\ link'[s.f][s.n] = s.v
      /\ \A f \in Field : \A x \in Ptr : f # s.f \/ x # s.n => link'[f][x] = link[f][x]
    BY <1>1, <1>4, <1>5 DEF Store
<1>7. todo'[t] = Tail(q) /\ \A u \in Thread \ {t} : todo'[u] = todo[u]
    BY <1>1, <1>2, <1>5
<1>8. \A u \in Thread \ {t} : PendingStores(u)' = PendingStores(u)
    BY <1>7 DEF PendingStores
<1>9. PendingStores(t)' \subseteq PendingStores(t)
    BY <1>2, <1>3, <1>7 DEF PendingStores
<1>10. \A w \in PendingStores(t) : w \in PendingStores(t)' \/ w = s
    <2> SUFFICES ASSUME NEW w \in PendingStores(t), w # s PROVE w \in PendingStores(t)'
        OBVIOUS
    <2>1. PICK i \in DOMAIN q : w = q[i]
        BY <1>2 DEF PendingStores
    <2>2. i - 1 \in DOMAIN Tail(q) /\ Tail(q)[i - 1] = w
        BY <1>2, <1>3, <2>1
    <2> QED
        BY <1>7, <2>2 DEF PendingStores
<1>11. CASE Len(todo[t]) > 1 /\ UNCHANGED <<held, pc, op, reg, result>>
    BY <1>1, <1>2, <1>4, <1>5, <1>6, <1>7, <1>8, <1>9, <1>10, <1>11 DEF Live
<1>12. CASE /\ Len(todo[t]) = 1
            /\ Return(t, IF op[t].type = "add" THEN "absent" ELSE "present", leaked[t])
    <2>1. /\ pc'[t] = "idle" /\ reg'[t] = Blank /\ held'[t] = leaked[t]
          /\ \A u \in Thread \ {t} : /\ pc'[u] = pc[u] /\ op'[u] = op[u]
                                     /\ reg'[u] = reg[u] /\ held'[u] = held[u]
        BY <1>1, <1>12 DEF Return, Goto
    <2>2. PendingStores(t)' = {}
        BY <1>2, <1>3, <1>7, <1>12 DEF PendingStores
    <2> QED
        BY <1>1, <1>2, <1>4, <1>5, <1>6, <1>7, <1>8, <1>9, <1>10, <1>12, <2>1, <2>2 DEF Live
<1> QED
    BY <1>11, <1>12 DEF DoStore

\* What an add has still to do after one of its stores.
LEMMA AddingLater ==
    ASSUME NEW g, Good(g), NEW t \in Thread, DoStore(t)
    PROVE  /\ \A u \in Thread : Adding(u)' => Adding(u) /\ New(u)' = New(u)
           /\ \A u \in Thread : Adding(u)' /\ Len(todo[u])' = 3 => u # t /\ Len(todo[u]) = 3
           /\ Head(todo[t]).f \in TreeField /\ Adding(t) => ~Adding(t)'
           /\ Adding(t)' => \A w \in PendingStores(t)' : w.n \in held[t] /\ w.n = reg[t].node
           /\ Adding(t)' => Publishing(g, t)'
<1>1. /\ pc[t] = "store" /\ todo'[t] = Tail(todo[t])
      /\ \A u \in Thread \ {t} : todo'[u] = todo[u] /\ pc'[u] = pc[u] /\ op'[u] = op[u]
      /\ \/ /\ Len(todo[t]) > 1 /\ pc'[t] = pc[t] /\ op'[t] = op[t] /\ reg'[t] = reg[t]
            /\ held'[t] = held[t]
         \/ Len(todo[t]) = 1 /\ pc'[t] = "idle"
      /\ Live' = Live
    BY StoreEffect
<1>2. \A u \in Thread \ {t} : (Adding(u)' => Adding(u)) /\ New(u)' = New(u)
    BY <1>1 DEF Adding, New
<1>3. Adding(t)' => /\ Adding(t) /\ Len(todo[t]) > 1 /\ reg'[t] = reg[t] /\ held'[t] = held[t]
                    /\ pc'[t] = pc[t] /\ op'[t] = op[t]
    BY <1>1 DEF Adding
<1>4. ASSUME Adding(t)
      PROVE  /\ Head(todo[t]).f \in TreeField => Len(todo[t]) = 1
             /\ Adding(t)' => /\ New(t)' = New(t) /\ Len(todo[t])' # 3
                              /\ \A w \in PendingStores(t)' : w.n \in held[t] /\ w.n = reg[t].node
                              /\ Publishing(g, t)'
    <2>1. Publishing(g, t)
        BY <1>4 DEF Good, HeapInv
    <2>2. PICK n, x : n = reg[t].node /\ x = New(t)
        OBVIOUS
    <2>3. PICK e \in Side : AddLeft(t, e, n, x)
        BY <2>1, <2>2 DEF Publishing
    <2>4. Head(todo[t]).f \in TreeField => Len(todo[t]) = 1
        BY <2>3, AddTail
    <2>5. ASSUME Adding(t)'
          PROVE  /\ New(t)' = x /\ Len(todo[t])' # 3 /\ AddLeft(t, e, n, x)'
                 /\ \A w \in PendingStores(t)' : w.n = n
        <3>1. PICK q : q = Tail(todo[t])
            OBVIOUS
        <3>2. /\ q = << [f |-> SnapshotField(e), n |-> n, v |-> x], [f |-> e, n |-> n, v |-> x] >>
                 \/ q = << [f |-> e, n |-> n, v |-> x] >>
              /\ Len(q) \in 1 .. 2 /\ q[Len(q)].v = x
              /\ \A i \in DOMAIN q : q[i].n = n
            BY <1>3, <2>3, <2>5, <3>1, AddTail
        <3>3. todo'[t] = q
            BY <1>1, <3>1
        <3>4. New(t)' = x /\ Len(todo[t])' # 3
            BY <3>2, <3>3 DEF New
        <3>5. AddLeft(t, e, n, x)'
            BY <3>2, <3>3 DEF AddLeft
        <3>6. \A w \in PendingStores(t)' : w.n = n
            BY <3>2, <3>3 DEF PendingStores
        <3> QED
            BY <3>4, <3>5, <3>6
    <2>6. ASSUME Adding(t)' PROVE Publishing(g, t)'
        BY <1>1, <1>3, <2>1, <2>2, <2>3, <2>5, <2>6 DEF Publishing
    <2> QED
        BY <2>1, <2>2, <2>4, <2>5, <2>6 DEF Publishing
<1>5. Head(todo[t]).f \in TreeField /\ Adding(t) => ~Adding(t)'
    <2> SUFFICES ASSUME Head(todo[t]).f \in TreeField, Adding(t), Adding(t)' PROVE FALSE
        OBVIOUS
    <2>1. Len(todo[t]) = 1
        BY <1>4
    <2>2. Len(todo[t]) > 1
        BY <1>3
    <2> QED
        BY <2>1, <2>2
<1> QED
    BY <1>1, <1>2, <1>3, <1>4, <1>5

\* The value stored is one that may be seen.
LEMMA StoreShown ==
    ASSUME NEW g, Good(g), NEW t \in Thread, DoStore(t)
    PROVE  LET s == Head(todo[t]) IN
           /\ Shown \subseteq Shown' /\ Seen \subseteq Seen'
           /\ s.f \in TreeField => s.v \in Shown'
           /\ \A e \in Side : s.f = SnapshotField(e) => s.v \in Seen' /\ s.n # End(e)
<1> DEFINE s == Head(todo[t])
<1>1. /\ s \in PendingStores(t) /\ alloc' = alloc /\ pc[t] = "store"
    BY StoreEffect
<1>2. /\ \A u \in Thread : Adding(u)' => Adding(u) /\ New(u)' = New(u)
      /\ \A u \in Thread : Adding(u)' /\ Len(todo[u])' = 3 => u # t /\ Len(todo[u]) = 3
      /\ s.f \in TreeField /\ Adding(t) => ~Adding(t)'
    BY AddingLater
<1>3. Shown \subseteq Shown'
    BY <1>1, <1>2 DEF Shown
<1>4. Seen \subseteq Seen'
    BY <1>1, <1>2 DEF Seen
<1>5. /\ s.n \in Live /\ Final(g, s.f, s.n) = s.v /\ s.n \in alloc /\ s.n # NULL
      /\ s.f \in TreeField => s.n \in held[t]
      /\ Shape(g, Live) /\ Live \subseteq alloc /\ NULL \notin Live
    BY <1>1, Pending, LiveFacts
<1>6. \A u \in Thread \ {t} : held[u] \cap held[t] = {}
    BY DEF Good, LockInv, LocksHeld
<1>7. ASSUME s.f \in TreeField PROVE s.v \in Shown'
    <2>1. s.f \in Side \/ s.f = "parent"
        BY <1>7, Fields
    <2>2. s.v \in alloc \cup {NULL}
        <3>1. CASE s.f \in Side
            <4>1. s.v = g.child[s.f][s.n]
                BY <1>5, <3>1, Fields
            <4>2. g.child[s.f][s.n] \in Live \cup {NULL}
                BY <1>5, <3>1, ChildOf
            <4> QED
                BY <1>5, <4>1, <4>2
        <3>2. CASE s.f = "parent" /\ s.n # rightSentinel
            BY <1>5, <3>2, Fields, ParentOf
        <3>3. CASE s.f = "parent" /\ s.n = rightSentinel
            BY <1>5, <3>3, Fields DEF Shape, Rooted
        <3> QED
            BY <2>1, <3>1, <3>2, <3>3
    <2>3. ASSUME NEW u \in Thread, Adding(u)', s.v = New(u) PROVE FALSE
        <3>1. Adding(u) /\ u # t
            BY <1>2, <1>7, <2>3
        <3>2. /\ New(u) # NULL /\ g.parent[New(u)] \in held[u] /\ New(u) \in Live
              /\ \A d \in Side : g.child[d][New(u)] = NULL
            BY <3>1, NewNode
        <3>3. CASE s.f \in Side
            <4>1. g.child[s.f][s.n] = New(u)
                BY <1>5, <2>3, <3>3, Fields
            <4>2. g.parent[New(u)] = s.n
                BY <1>5, <3>2, <3>3, <4>1, ChildOf
            <4> QED
                BY <1>5, <1>6, <1>7, <3>1, <3>2, <4>2
        <3>4. CASE s.f = "parent"
            <4>1. g.parent[s.n] = New(u)
                BY <1>5, <2>3, <3>4, Fields
            <4>2. s.n # rightSentinel
                BY <1>5, <3>2, <4>1 DEF Shape, Rooted
            <4>3. \E d \in Side : g.child[d][New(u)] = s.n
                BY <1>5, <4>1, <4>2, ParentOf
            <4> QED
                BY <1>5, <3>2, <4>3
        <3> QED
            BY <2>1, <3>3, <3>4
    <2>4. \A u \in Thread : Adding(u)' => s.v # New(u)'
        BY <1>2, <2>3
    <2> QED
        BY <1>1, <2>2, <2>4 DEF Shown
<1>8. ASSUME NEW e \in Side, s.f = SnapshotField(e) PROVE s.v \in Seen' /\ s.n # End(e)
    <2>1. /\ s.n # End(e)
          /\ Owns(g, held[t], e, s.n) \/ Adding(t)
        BY <1>1, <1>8 DEF Good, HeapInv, GapsOwned
    <2>2. g.near[e][s.n] = s.v /\ s.v \in Live
        BY <1>5, <1>8, <2>1, Fields, LiveFacts
    <2>3. ASSUME NEW u \in Thread, Adding(u)', Len(todo[u])' = 3, s.v = New(u) PROVE FALSE
        <3>1. Adding(u) /\ u # t /\ Len(todo[u]) = 3
            BY <1>2, <2>3
        <3>2. /\ g.parent[New(u)] \in held[u] /\ New(u) \in Live
              /\ \A d \in Side : g.child[d][New(u)] = NULL
            BY <3>1, NewNode
        <3>3. CASE Adding(t)
            <4>1. g.parent[New(t)] \in held[t] /\ s.v = New(t)
                BY <1>1, <3>3, NewNode
            <4> QED
                BY <1>6, <2>3, <3>1, <3>2, <4>1
        <3>4. CASE Owns(g, held[t], e, s.n)
            <4>1. g.child[Opp(e)][New(u)] = NULL
                BY <3>2, Sides
            <4>2. g.child[e][s.n] # NULL
                BY <1>5, <2>1, <2>2, <2>3, <4>1 DEF Shape, Gapped
            <4>3. New(u) \in held[t]
                BY <2>2, <2>3, <3>4, <4>2 DEF Owns
            <4>4. New(u) \in Seen
                BY <4>3, KnownHere
            <4> QED
                BY <3>1, <4>4 DEF Seen
        <3> QED
            BY <2>1, <3>3, <3>4
    <2>4. \A u \in Thread : Adding(u)' /\ Len(todo[u])' = 3 => s.v # New(u)'
        BY <1>2, <2>3
    <2>5. s.v \in alloc'
        BY <1>1, <1>5, <2>2
    <2> QED
        BY <2>1, <2>4, <2>5 DEF Seen
<1> QED
    BY <1>3, <1>4, <1>7, <1>8

\* A pending store is made (main.cpp:152-164, 435-451): the heap it leads to is the same.
LEMMA StoreHeap ==
    ASSUME NEW g, Good(g), NEW t \in Thread, DoStore(t)
    PROVE  HeapInv(g)'
<1> DEFINE s == Head(todo[t])
<1>1. /\ pc[t] = "store" /\ s \in PendingStores(t)
      /\ link'[s.f][s.n] = s.v
      /\ \A f \in Field : \A x \in Ptr : f # s.f \/ x # s.n => link'[f][x] = link[f][x]
      /\ marked' = marked /\ alloc' = alloc /\ Live' = Live
      /\ \A u \in Thread : PendingStores(u)' \subseteq PendingStores(u)
      /\ \A u \in Thread : \A w \in PendingStores(u) :
            w \in PendingStores(u)' \/ (u = t /\ w = s)
    BY StoreEffect
<1>2. /\ \A u \in Thread \ {t} : /\ todo'[u] = todo[u] /\ pc'[u] = pc[u] /\ op'[u] = op[u]
                                 /\ reg'[u] = reg[u] /\ held'[u] = held[u]
      /\ \/ /\ Len(todo[t]) > 1 /\ pc'[t] = pc[t] /\ op'[t] = op[t] /\ reg'[t] = reg[t]
            /\ held'[t] = held[t]
         \/ /\ Len(todo[t]) = 1 /\ pc'[t] = "idle" /\ reg'[t] = Blank /\ held'[t] = leaked[t]
            /\ PendingStores(t)' = {}
    BY StoreEffect
<1>3. /\ Shown \subseteq Shown' /\ Seen \subseteq Seen'
      /\ s.f \in TreeField => s.v \in Shown'
      /\ \A e \in Side : s.f = SnapshotField(e) => s.v \in Seen' /\ s.n # End(e)
    BY StoreShown
<1>4. /\ s.n \in Live /\ Final(g, s.f, s.n) = s.v /\ s.f \in Field
      /\ Live \subseteq alloc /\ alloc \subseteq Node /\ NULL \notin Node /\ Shape(g, Live)
    BY <1>1, Pending, LiveFacts DEF Store
<1>5. (g \in Heap /\ Shape(g, Live))'
    BY <1>1 DEF Good, HeapInv
<1>6. Settles(g)'
    <2>1. \A u \in Thread : \A w \in PendingStores(u)' : w.n \in Live' /\ Final(g, w.f, w.n) = w.v
        BY <1>1, Pending
    <2>2. ASSUME NEW f \in Field, NEW x \in Live', link'[f][x] # Final(g, f, x)
          PROVE  \E u \in Thread : \E w \in PendingStores(u)' : w.f = f /\ w.n = x
        <3>1. f # s.f \/ x # s.n
            BY <1>1, <1>4, <2>2
        <3>2. link'[f][x] = link[f][x]
            BY <1>1, <1>4, <3>1 DEF Ptr
        <3>3. PICK u \in Thread : \E w \in PendingStores(u) : w.f = f /\ w.n = x
            BY <1>1, <2>2, <3>2 DEF Good, HeapInv, Settles
        <3> QED
            BY <1>1, <3>1, <3>3
    <2> QED
        BY <2>1, <2>2 DEF Settles
<1>7. NoStoreRace'
    BY <1>1 DEF Good, HeapInv, NoStoreRace
<1>8. GapsOwned(g)'
    <2> SUFFICES ASSUME NEW u \in Thread, NEW w \in PendingStores(u)', NEW e \in Side,
                        w.f = SnapshotField(e)
                 PROVE  /\ w.n # End(e)
                        /\ Owns(g, held[u], e, w.n)'
                           \/ (Adding(u)' /\ (w.n \in held'[u] \/ Len(todo'[u]) = 3))
        BY DEF GapsOwned
    <2>1. w \in PendingStores(u) /\ held'[u] = held[u]
        BY <1>1, <1>2
    <2>2. /\ w.n # End(e)
          /\ Owns(g, held[u], e, w.n)
             \/ (Adding(u) /\ (w.n \in held[u] \/ Len(todo[u]) = 3))
        BY <2>1 DEF Good, HeapInv, GapsOwned
    <2>3. CASE Owns(g, held[u], e, w.n)
        BY <1>1, <2>1, <2>2, <2>3 DEF Owns
    <2>4. CASE u # t /\ Adding(u) /\ (w.n \in held[u] \/ Len(todo[u]) = 3)
        BY <1>2, <2>1, <2>2, <2>4 DEF Adding
    <2>5. CASE u = t /\ Adding(t)
        <3>1. Adding(t)'
            BY <1>2, <2>5 DEF Adding
        <3> QED
            BY <2>1, <2>2, <2>5, <3>1, AddingLater
    <2> QED
        BY <2>2, <2>3, <2>4, <2>5
<1>9. OldHeld'
    <2> SUFFICES ASSUME NEW u \in Thread, NEW w \in PendingStores(u)'
                 PROVE  /\ w.f \in {"leftSnapshot", "rightSnapshot"} =>
                             w.n \in held'[u] \/ link'[w.f][w.n] \in held'[u] \cup {w.v}
                        /\ w.f = "parent" => link'["parent"][w.n] \in held'[u] \cup {w.v}
        BY DEF OldHeld
    <2>1. w \in PendingStores(u) /\ held'[u] = held[u]
        BY <1>1, <1>2
    <2>2. /\ w.f \in {"leftSnapshot", "rightSnapshot"} =>
               w.n \in held[u] \/ link[w.f][w.n] \in held[u] \cup {w.v}
          /\ w.f = "parent" => link["parent"][w.n] \in held[u] \cup {w.v}
        BY <2>1 DEF Good, HeapInv, OldHeld
    <2>3. w.n \in Live /\ w.f \in Field /\ Final(g, w.f, w.n) = w.v
        BY <2>1, Pending DEF Store
    <2>4. CASE w.f = s.f /\ w.n = s.n
        <3>1. link'[w.f][w.n] = w.v
            BY <1>1, <1>4, <2>3, <2>4
        <3> QED
            BY <3>1
    <2>5. CASE w.f # s.f \/ w.n # s.n
        <3>1. link'[w.f][w.n] = link[w.f][w.n]
            BY <1>1, <1>4, <2>3, <2>5 DEF Ptr
        <3> QED
            BY <2>1, <2>2, <3>1
    <2> QED
        BY <2>4, <2>5
<1>10. LinksShown'
    <2>1. LinksShown
        BY DEF Good, HeapInv
    <2>2. ASSUME NEW f \in Field, NEW x \in alloc, f # s.f \/ x # s.n
          PROVE  link'[f][x] = link[f][x]
        BY <1>1, <1>4, <2>2 DEF Ptr
    <2>3. ~marked'[NULL]
        BY <1>1, <2>1 DEF LinksShown
    <2>4. ASSUME NEW x \in alloc, NEW f \in TreeField PROVE link'[f][x] \in Shown'
        <3>1. f \in Field /\ link[f][x] \in Shown
            BY <2>1 DEF LinksShown, TreeField, Field
        <3> QED
            BY <1>1, <1>3, <2>2, <3>1
    <2>5. ASSUME NEW x \in alloc, NEW e \in Side PROVE link'[SnapshotField(e)][x] \in Seen'
        <3>1. SnapshotField(e) \in Field /\ link[SnapshotField(e)][x] \in Seen
            BY <2>1, Fields DEF LinksShown, SnapshotField
        <3> QED
            BY <1>1, <1>3, <2>2, <3>1
    <2>6. ASSUME NEW x \in alloc, x # rightSentinel
          PROVE  link'["parent"][x] # NULL
        <3>1. link["parent"][x] # NULL
            BY <2>1, <2>6 DEF LinksShown
        <3>2. CASE s.f = "parent" /\ s.n = x
            BY <1>1, <1>4, <2>6, <3>2, Fields, ParentOf
        <3> QED
            BY <2>2, <3>1, <3>2 DEF Field
    <2>7. ASSUME NEW x \in alloc, x # rightSentinel
          PROVE  link'["leftSnapshot"][x] # NULL
        <3>1. link["leftSnapshot"][x] # NULL
            BY <2>1, <2>7 DEF LinksShown
        <3>2. CASE s.f = "leftSnapshot" /\ s.n = x
            <4>1. "left" \in Side /\ s.f = SnapshotField("left") /\ x # End("left") /\ x \in Live
                BY <1>4, <2>7, <3>2 DEF Side, SnapshotField, End
            <4>2. s.v = g.near["left"][x] /\ g.near["left"][x] \in Live
                BY <1>4, <3>2, <4>1, Fields, LiveFacts
            <4> QED
                BY <1>1, <1>4, <3>2, <4>2
        <3> QED
            BY <2>2, <3>1, <3>2 DEF Field
    <2>8. ASSUME NEW x \in alloc, x # leftSentinel
          PROVE  link'["rightSnapshot"][x] \notin {NULL, rightSentinel}
        <3>1. link["rightSnapshot"][x] \notin {NULL, rightSentinel}
            BY <2>1, <2>8 DEF LinksShown
        <3>2. CASE s.f = "rightSnapshot" /\ s.n = x
            <4>1. /\ "right" \in Side /\ s.f = SnapshotField("right") /\ x \in Live \ {End("right")}
                  /\ End(Opp("right")) = rightSentinel
                BY <1>4, <2>8, <3>2 DEF Side, SnapshotField, End, Opp
            <4>2. s.v = g.near["right"][x] /\ g.near["right"][x] \in Live \ {rightSentinel}
                BY <1>4, <3>2, <4>1, Fields, NeighbourOf
            <4> QED
                BY <1>1, <1>4, <3>2, <4>2
        <3> QED
            BY <2>2, <3>1, <3>2 DEF Field
    <2>9. \A x \in Node \ alloc :
             ~marked'[x] /\ link'["left"][x] = NULL /\ link'["right"][x] = NULL
        BY <1>1, <1>4, <2>1 DEF LinksShown, Ptr, Field
    <2>10. \A x \in alloc : \A f \in {"leftSnapshot", "rightSnapshot"} : link'[f][x] \in Seen'
        BY <2>5 DEF Side, SnapshotField
    <2> QED
        BY <1>1, <2>3, <2>4, <2>6, <2>7, <2>8, <2>9, <2>10 DEF LinksShown
<1>11. ASSUME NEW u \in Thread
       PROVE  (/\ LocalsShown(reg[u]) /\ held[u] \subseteq Seen \ {NULL}
               /\ Knows(g, pc[u], op[u], reg[u], held[u])
               /\ Adding(u) => Publishing(g, u))'
    <2>1. /\ LocalsShown(reg[u]) /\ held[u] \subseteq Seen \ {NULL} /\ leaked[u] \subseteq held[u]
          /\ Knows(g, pc[u], op[u], reg[u], held[u]) /\ NULL \in Shown /\ NULL \in Seen
          /\ LockedAt(pc[u], reg[u]) \subseteq held[u]
        BY KnownHere
    <2>2. LocalsShown(reg[u])'
        <3>1. CASE reg'[u] = reg[u]
            BY <1>3, <2>1, <3>1 DEF LocalsShown
        <3>2. CASE reg'[u] = Blank
            BY <1>3, <2>1, <3>2 DEF LocalsShown, Blank
        <3> QED
            BY <1>2, <3>1, <3>2
    <2>3. held'[u] \subseteq Seen' \ {NULL}
        BY <1>2, <1>3, <2>1
    <2>4. Knows(g, pc[u], op[u], reg[u], held[u])'
        <3>1. PICK l, o, r, H : l = pc'[u] /\ o = op'[u] /\ r = reg'[u] /\ H = held'[u]
            OBVIOUS
        <3>2. CASE l = "idle"
            <4>1. Knows(g, "idle", o, r, H)'
                BY DEF Knows, Calling, NearNode, NearNeighbours, NearSuccessor, RemovePlaces,
                   NodePlaces, TwoPlaces, OnePlaces, PredPlaces, DeepPlaces, SuccParentPlaces, SuccPlaces
            <4> QED
                BY <3>1, <3>2, <4>1
        <3>3. CASE l # "idle"
            <4>1. l = pc[u] /\ o = op[u] /\ r = reg[u] /\ H = held[u]
                BY <1>2, <3>1, <3>3
            <4>2. Knows(g, l, o, r, H)
                BY <2>1, <4>1
            <4>3. l \in {"lockNode", "recheckSucc", "lockSucc"} => u # t
                BY <1>1, <4>1
            <4>4. ASSUME NEW x \in alloc, u # t, link["parent"][x] \in held[u]
                  PROVE  link'["parent"][x] = link["parent"][x]
                <5>1. CASE s.f = "parent" /\ s.n = x
                    <6>1. link["parent"][x] \in held[t] \cup {s.v}
                        BY <1>1, <5>1 DEF Good, HeapInv, OldHeld
                    <6>2. held[t] \cap held[u] = {}
                        BY <4>4 DEF Good, LockInv, LocksHeld
                    <6> QED
                        BY <1>1, <4>4, <5>1, <6>1, <6>2
                <5> QED
                    BY <1>1, <1>4, <5>1 DEF Ptr, Field
            <4>5. ASSUME l = "lockNode" PROVE link'["parent"][r.node] = link["parent"][r.node]
                <5>1. r.parent \in held[u] /\ link["parent"][r.node] = r.parent /\ r.node # NULL
                    BY <2>1, <4>1, <4>2, <4>5, LockedPair DEF Knows, NearNode, Calling
                <5>2. r.node \in alloc
                    BY <2>1, <4>1, <5>1 DEF LocalsShown, Shown
                <5> QED
                    BY <4>3, <4>4, <4>5, <5>1, <5>2
            <4>6. ASSUME l \in {"recheckSucc", "lockSucc"}
                  PROVE  link'["parent"][r.leftNode] = link["parent"][r.leftNode]
                <5>1. r.succParent \in held[u]
                    BY <2>1, <4>1, <4>6, LockedTwo
                <5>2. link["parent"][r.leftNode] = r.succParent /\ r.leftNode # NULL
                    BY <4>2, <4>6, Places DEF DeepKnown, PredKnown
                <5>3. r.leftNode \in alloc
                    BY <2>1, <4>1, <5>2 DEF LocalsShown, Seen
                <5> QED
                    BY <4>3, <4>4, <4>6, <5>1, <5>2, <5>3
            <4>7. Knows(g, l, o, r, H)'
                BY <1>1, <4>2, <4>5, <4>6, KnowsElsewhere
            <4> QED
                BY <3>1, <4>7
        <3> QED
            BY <3>2, <3>3
    <2>5. (Adding(u) => Publishing(g, u))'
        <3>1. CASE u = t
            BY <3>1, AddingLater
        <3>2. CASE u # t
            <4>1. Adding(u)' <=> Adding(u)
                BY <1>2, <3>2 DEF Adding
            <4>2. Publishing(g, u) => Publishing(g, u)'
                BY <1>1, <1>2, <3>2 DEF Publishing, AddLeft, New
            <4> QED
                BY <4>1, <4>2 DEF Good, HeapInv
        <3> QED
            BY <3>1, <3>2
    <2> QED
        BY <2>2, <2>3, <2>4, <2>5
<1> QED
    BY <1>5, <1>6, <1>7, <1>8, <1>9, <1>10, <1>11 DEF HeapInv

-----------------------------------------------------------------------------
(* A node is marked, and its stores become pending *)

\* The heap settles to h instead of g once t has made the stores W, which
\* unlink its node, and t has the locks that this takes.
Unlinking(g, h, t, W) ==
    LET n == reg[t].node
        H == held[t]
    IN
    /\ h \in Heap /\ Shape(h, Live \ {n}) /\ n \in H
    /\ g.parent[n] \in H /\ \A e \in Side : Owns(g, H, e, n)
    /\ \A w \in W : w.n \in Live \ {n} /\ Final(h, w.f, w.n) = w.v
    /\ \A f \in Field : \A x \in Live \ {n} :
          Final(h, f, x) # Final(g, f, x) => \E w \in W : w.f = f /\ w.n = x
    /\ \A w \in W : w.f \in TreeField =>
          w.n \in H /\ (g.parent[w.n] \in H \/ \E d \in Side : g.child[d][w.n] # NULL)
    /\ \A w \in W : w.f = "parent" => link["parent"][w.n] \in H \cup {w.v}
    /\ \A w \in W : \A e \in Side : w.f = SnapshotField(e) =>
          /\ Owns(g, H, e, w.n)
          /\ \/ w.n \in H
             \/ g.parent[g.near[e][w.n]] \in H /\ link[w.f][w.n] \in H \cup {w.v}
          /\ \/ h.child[e][w.n] = NULL /\ w.n \in H
             \/ h.child[Opp(e)][h.near[e][w.n]] = NULL /\ h.near[e][w.n] \in H

\* What marking a node does to the variables.
LEMMA MarkEffect ==
    ASSUME NEW g, Good(g), NEW t \in Thread, NEW l \in NodePlaces, NEW stores, Mark(t, l, stores)
    PROVE  LET n == reg[t].node IN
           /\ n \in Live /\ n # NULL /\ Live' = Live \ {n} /\ todo[t] = << >> /\ pc[t] = l
           /\ link' = link /\ alloc' = alloc /\ held' = held /\ op' = op /\ reg' = reg
           /\ \A x \in Ptr \ {n} : marked'[x] = marked[x]
           /\ todo'[t] = stores /\ pc'[t] = "store" /\ op[t].type = "remove" /\ op[t] \in S!Op
           /\ \A u \in Thread \ {t} : todo'[u] = todo[u] /\ pc'[u] = pc[u]
<1> DEFINE n == reg[t].node
<1>1. pc[t] = l
    BY DEF Mark
<1>2. /\ n \in Live /\ n # NULL /\ todo[t] = << >> /\ op[t].type = "remove" /\ op[t] \in S!Op
    BY <1>1, NodeHeld DEF Base
<1>3. /\ link' = link /\ alloc' = alloc /\ held' = held /\ op' = op
      /\ marked' = [marked EXCEPT ![n] = TRUE] /\ todo' = [todo EXCEPT ![t] = stores]
      /\ pc' = [pc EXCEPT ![t] = "store"] /\ reg' = [reg EXCEPT ![t] = reg[t]]
    BY DEF Mark, Proceed, Goto
<1>4. /\ marked \in [Ptr -> BOOLEAN] /\ todo \in [Thread -> Seq(Store)] /\ reg \in [Thread -> Locals]
      /\ pc \in [Thread -> Location] /\ alloc \subseteq Node
    BY DEF Good, TypeOK
<1>5. Live' = Live \ {n} /\ \A x \in Ptr \ {n} : marked'[x] = marked[x]
    BY <1>2, <1>3, <1>4 DEF Live, Ptr
<1>6. reg' = reg
    BY <1>3, <1>4
<1> QED
    BY <1>1, <1>2, <1>3, <1>4, <1>5, <1>6

\* A store of another thread to a snapshot across a gap that t owns: the other
\* is adding a node there, and has made the first of its stores.
LEMMA AcrossMine ==
    ASSUME NEW g, Good(g), NEW t \in Thread, NEW u \in Thread \ {t}, NEW v \in PendingStores(u),
           NEW e \in Side, v.f = SnapshotField(e), Owns(g, held[t], e, v.n)
    PROVE  Adding(u) /\ v.n \in held[u] /\ g.near[e][v.n] = New(u)
<1>1. Owns(g, held[u], e, v.n) \/ (Adding(u) /\ (v.n \in held[u] \/ Len(todo[u]) = 3))
    BY DEF Good, HeapInv, GapsOwned
<1>2. Adding(u) /\ (v.n \in held[u] \/ Len(todo[u]) = 3)
    BY <1>1, OneOwner
<1>3. v.v = New(u) /\ \A d \in Side : g.child[d][New(u)] = NULL
    BY <1>2, NewNode
<1>4. g.near[e][v.n] = New(u)
    BY <1>3, Pending, Fields
<1>5. CASE Len(todo[u]) = 3
    <2>1. g.child[e][v.n] # NULL
        <3>1. v.n \in Live /\ v.n # End(e) /\ g.child[Opp(e)][New(u)] = NULL
            BY <1>3, Sides DEF Owns
        <3> QED
            BY <1>4, <3>1, LiveFacts DEF Shape, Gapped
    <2>2. New(u) \in held[t]
        BY <1>4, <2>1 DEF Owns
    <2>3. New(u) \in Seen
        BY <2>2, KnownHere
    <2> QED
        BY <1>2, <1>5, <2>3 DEF Seen
<1> QED
    BY <1>2, <1>4, <1>5

\* What another thread has locked is left alone.
LEMMA LeftAlone ==
    ASSUME NEW g, Good(g), NEW h, NEW t \in Thread, NEW l \in NodePlaces, NEW stores,
           Mark(t, l, stores), Unlinking(g, h, t, PendingStores(t)'), NEW u \in Thread \ {t}
    PROVE  /\ \A x \in held[u] \cap Live :
                 /\ x \in Live' /\ h.parent[x] = g.parent[x]
                 /\ \A d \in Side : h.child[d][x] = g.child[d][x]
           /\ \A e \in Side : \A y : Owns(g, held[u], e, y) =>
                 Owns(h, held[u], e, y)' /\ h.near[e][y] = g.near[e][y]
           /\ Adding(u) =>
                 /\ New(u) \in Live' /\ h.parent[New(u)] = g.parent[New(u)]
                 /\ \A d \in Side : h.child[d][New(u)] = g.child[d][New(u)]
<1> DEFINE n == reg[t].node
           H == held[t]
           W == PendingStores(t)'
<1>1. /\ n \in Live /\ Live' = Live \ {n}
      /\ n \in H /\ H \cap held[u] = {} /\ Live \subseteq Node /\ NULL \notin Node
    BY MarkEffect, LiveFacts DEF Unlinking, Good, LockInv, LocksHeld
<1>2. ASSUME NEW x \in Live \ {n}, \A w \in W : w.f \in TreeField => w.n # x
      PROVE  h.parent[x] = g.parent[x] /\ \A d \in Side : h.child[d][x] = g.child[d][x]
    <2>1. \A f \in TreeField : f \in Field => Final(h, f, x) = Final(g, f, x)
        BY <1>2 DEF Unlinking
    <2> QED
        BY <2>1, Fields
<1>3. \A w \in W : w.f \in TreeField => w.n \in H
    BY DEF Unlinking
<1>4. ASSUME NEW x \in held[u] \cap Live
      PROVE  /\ x \in Live' /\ h.parent[x] = g.parent[x]
             /\ \A d \in Side : h.child[d][x] = g.child[d][x]
    BY <1>1, <1>2, <1>3
<1>5. ASSUME NEW e \in Side, NEW y, Owns(g, held[u], e, y)
      PROVE  Owns(h, held[u], e, y)' /\ h.near[e][y] = g.near[e][y]
    <2>1. y # n
        BY <1>5, OneOwner DEF Unlinking
    <2>2. y \in Live \ {n} /\ y # End(e) /\ g.near[e][y] \in Live
        BY <1>5, <2>1, LiveFacts DEF Owns
    <2>3. h.near[e][y] = g.near[e][y]
        <3> SUFFICES ASSUME h.near[e][y] # g.near[e][y] PROVE FALSE
            OBVIOUS
        <3>1. SnapshotField(e) \in Field /\ Final(h, SnapshotField(e), y) # Final(g, SnapshotField(e), y)
            BY Fields
        <3>2. PICK w \in W : w.f = SnapshotField(e) /\ w.n = y
            BY <2>2, <3>1 DEF Unlinking
        <3>3. Owns(g, H, e, y)
            BY <3>2 DEF Unlinking
        <3> QED
            BY <1>5, <3>3, OneOwner
    <2>4. Owns(h, held[u], e, y)'
        <3>1. held'[u] = held[u]
            BY MarkEffect
        <3>2. y \in Live' \ {End(e)}
            BY <1>1, <2>2
        <3>3. CASE g.child[e][y] = NULL /\ y \in held[u]
            <4>1. h.child[e][y] = NULL
                BY <1>4, <2>2, <3>3
            <4> QED
                BY <3>1, <3>2, <3>3, <4>1 DEF Owns
        <3>4. CASE g.child[Opp(e)][g.near[e][y]] = NULL /\ g.near[e][y] \in held[u]
            <4>1. h.child[Opp(e)][h.near[e][y]] = NULL
                BY <1>4, <2>2, <2>3, <3>4, Sides
            <4> QED
                BY <2>3, <3>1, <3>2, <3>4, <4>1 DEF Owns
        <3> QED
            BY <1>5, <3>3, <3>4 DEF Owns
    <2> QED
        BY <2>3, <2>4
<1>6. ASSUME Adding(u)
      PROVE  /\ New(u) \in Live' /\ h.parent[New(u)] = g.parent[New(u)]
             /\ \A d \in Side : h.child[d][New(u)] = g.child[d][New(u)]
    <2>1. /\ New(u) \in Live /\ g.parent[New(u)] \in held[u]
          /\ \A d \in Side : g.child[d][New(u)] = NULL
        BY <1>6, NewNode
    <2>2. New(u) # n
        BY <1>1, <2>1 DEF Unlinking
    <2>3. \A w \in W : w.f \in TreeField => w.n # New(u)
        BY <1>1, <2>1 DEF Unlinking
    <2> QED
        BY <1>1, <1>2, <2>1, <2>2, <2>3
<1> QED
    BY <1>4, <1>5, <1>6

\* So what another thread knows remains true.
LEMMA KnowsThrough ==
    ASSUME NEW g, Good(g), NEW h, NEW u \in Thread,
           \A x \in alloc \cup {NULL} : link'["parent"][x] = link["parent"][x],
           \A x \in held[u] \cap Live :
              /\ x \in Live' /\ h.parent[x] = g.parent[x]
              /\ \A d \in Side : h.child[d][x] = g.child[d][x],
           \A e \in Side : \A y : Owns(g, held[u], e, y) =>
              Owns(h, held[u], e, y)' /\ h.near[e][y] = g.near[e][y],
           NEW l, l = pc[u], NEW o, NEW r, r = reg[u], NEW H, H = held[u], held'[u] = H,
           Knows(g, l, o, r, H)
    PROVE  Knows(h, l, o, r, H)'
<1> DEFINE n == r.node
           s == r.leftNode
<1>0. link'["parent"][n] = link["parent"][n] /\ link'["parent"][s] = link["parent"][s]
    BY KnownHere DEF LocalsShown
<1>1. ASSUME NEW x \in H, x \in Live
      PROVE  /\ x \in Live' /\ h.parent[x] = g.parent[x]
             /\ h.child["left"][x] = g.child["left"][x] /\ h.child["right"][x] = g.child["right"][x]
    BY <1>1 DEF Side
<1>2. ASSUME NEW e \in Side, NEW y, NEW m, Neighbour(g, H, e, y, m)
      PROVE  Neighbour(h, H, e, y, m)'
    BY <1>2 DEF Neighbour
<1>3. l \in NodePlaces => /\ n \in H /\ n \in Live /\ r.parent \in H /\ r.parent \in Live
                          /\ Base(g, op[u], r)
    BY NodeHeld, BaseFacts
<1>4. l = "addSnapshot" => n \in H
    <2>1. LockedAt(l, r) \subseteq H
        BY KnownHere
    <2>2. LockedAt("addSnapshot", r) = {n}
        BY LockedPair
    <2> QED
        BY <2>1, <2>2
<1>5. l \in {"lockRightNode"} \cup PredPlaces => r.right \in H /\ r.right \in Live
    <2> SUFFICES ASSUME l \in {"lockRightNode"} \cup PredPlaces
                 PROVE  r.right \in H /\ r.right \in Live
        OBVIOUS
    <2>1. r.right \in H
        BY KnownHere, LockedTwo DEF PredPlaces, DeepPlaces, SuccParentPlaces, SuccPlaces
    <2>2. l \in TwoPlaces /\ l \in NodePlaces
        BY DEF NodePlaces, TwoPlaces, PredPlaces
    <2>3. r.right # NULL /\ g.child["right"][n] = r.right
        BY <1>3, <2>2 DEF Knows, NearNode, Base
    <2> QED
        BY <1>3, <2>1, <2>2, <2>3, LiveFacts DEF Side
<1>6. l \in SuccPlaces => s \in H /\ s \in Live
    <2> SUFFICES ASSUME l \in SuccPlaces PROVE s \in H /\ s \in Live
        OBVIOUS
    <2>1. s \in H
        BY KnownHere, LockedTwo DEF SuccPlaces
    <2>2. Neighbour(g, H, "right", n, s)
        BY DEF Knows, NearSuccessor
    <2> QED
        BY <2>1, <2>2, LiveFacts DEF Neighbour, Owns, Side
<1>7. NearNode(h, l, o, r)'
    <2>1. l = "addSnapshot" => n \in Live' /\ h.child[SideOf(n, o.key)][n] = NULL
        <3>1. l = "addSnapshot" => n \in Live /\ g.child[SideOf(n, o.key)][n] = NULL
            BY DEF Knows, NearNode
        <3> QED
            BY <1>1, <1>4, <3>1 DEF SideOf
    <2>2. l = "lockNode" => link'["parent"][n] = r.parent
        BY <1>0 DEF Knows, NearNode
    <2>3. l \in NodePlaces =>
              /\ n \in Live' /\ h.parent[n] = r.parent
              /\ h.child["left"][n] = r.left /\ h.child["right"][n] = r.right
              /\ r.leftChild = (h.child["left"][r.parent] = n)
        BY <1>1, <1>3 DEF Base
    <2>4. /\ l = "unlinkLeaf" => r.left = NULL /\ r.right = NULL
          /\ l \in OnePlaces => (r.left = NULL) # (r.right = NULL)
          /\ l \in TwoPlaces => r.left # NULL /\ r.right # NULL
        BY DEF Knows, NearNode
    <2> QED
        BY <2>1, <2>2, <2>3, <2>4 DEF NearNode
<1>8. NearNeighbours(h, l, r, H)'
    BY <1>2 DEF Knows, NearNeighbours, Side
<1>9. NearSuccessor(h, l, r, H)'
    <2>1. NearSuccessor(g, l, r, H)
        BY DEF Knows
    <2>2. l = "lockRightNode" /\ h.child["left"][r.right] = NULL => s = r.right
        BY <1>1, <1>5, <2>1 DEF NearSuccessor
    <2>3. l \in PredPlaces => Neighbour(h, H, "left", n, r.rightNode)'
        BY <1>2, <2>1 DEF NearSuccessor, Side
    <2>4. l = "promoteRight" => s = r.right /\ h.child["left"][s] = NULL
        BY <1>1, <1>5, <2>1 DEF NearSuccessor, PredPlaces
    <2>5. l \in DeepPlaces => h.child["left"][r.right] # NULL
        BY <1>1, <1>5, <2>1 DEF NearSuccessor, PredPlaces
    <2>6. /\ l \in {"lockSuccParent"} \cup SuccParentPlaces => r.succParent # NULL
          /\ l \in {"recheckSucc", "lockSucc"} => link'["parent"][s] = r.succParent
        BY <1>0, <2>1 DEF NearSuccessor
    <2>7. l \in SuccPlaces => Neighbour(h, H, "right", n, s)' /\ h.parent[s] = r.succParent
        BY <1>1, <1>2, <1>6, <2>1 DEF NearSuccessor, Side
    <2>8. /\ l \in {"lockSuccRightSnapshot", "applyRemove"} => h.child["right"][s] = r.succRight
          /\ l = "lockSuccRightSnapshot" => r.succRight # NULL /\ r.succRightSnapshot # NULL
          /\ l = "applyRemove" => Neighbour(h, H, "right", s, r.succRightSnapshot)'
        BY <1>1, <1>2, <1>6, <2>1 DEF NearSuccessor, Side, SuccPlaces
    <2> QED
        BY <2>2, <2>3, <2>4, <2>5, <2>6, <2>7, <2>8 DEF NearSuccessor
<1> QED
    BY <1>7, <1>8, <1>9 DEF Knows, Calling

\* Marking a node and making its removal pending keeps the invariant, with the heap without the node.
LEMMA PublishHeap ==
    ASSUME NEW g, Good(g), NEW h, NEW t \in Thread, NEW l \in NodePlaces, NEW stores,
           Mark(t, l, stores), Unlinking(g, h, t, PendingStores(t)')
    PROVE  HeapInv(h)'
<1> DEFINE n == reg[t].node
           H == held[t]
           W == PendingStores(t)'
<1>1. /\ n \in Live /\ n # NULL /\ Live' = Live \ {n} /\ todo[t] = << >> /\ pc[t] = l
      /\ link' = link /\ alloc' = alloc /\ held' = held /\ op' = op /\ reg' = reg
      /\ \A x \in Ptr \ {n} : marked'[x] = marked[x]
      /\ pc'[t] = "store" /\ op[t].type = "remove" /\ op[t] \in S!Op
      /\ \A u \in Thread \ {t} : todo'[u] = todo[u] /\ pc'[u] = pc[u]
    BY MarkEffect
<1>2. /\ h \in Heap /\ Shape(h, Live \ {n})
      /\ \A w \in W : w.n \in Live \ {n} /\ Final(h, w.f, w.n) = w.v
      /\ \A f \in Field : \A x \in Live \ {n} :
            Final(h, f, x) # Final(g, f, x) => \E w \in W : w.f = f /\ w.n = x
      /\ \A w \in W : w.f \in TreeField => w.n \in H
      /\ \A w \in W : w.f = "parent" => link["parent"][w.n] \in H \cup {w.v}
    BY DEF Unlinking
<1>3. \A w \in W : \A e \in Side : w.f = SnapshotField(e) =>
          /\ Owns(g, H, e, w.n)
          /\ \/ w.n \in H
             \/ g.parent[g.near[e][w.n]] \in H /\ link[w.f][w.n] \in H \cup {w.v}
          /\ \/ h.child[e][w.n] = NULL /\ w.n \in H
             \/ h.child[Opp(e)][h.near[e][w.n]] = NULL /\ h.near[e][w.n] \in H
    BY DEF Unlinking
<1>4. /\ PendingStores(t) = {} /\ \A u \in Thread \ {t} : PendingStores(u)' = PendingStores(u)
      /\ \A u \in Thread \ {t} : New(u)' = New(u) /\ (Adding(u)' <=> Adding(u))
      /\ ~Adding(t) /\ ~Adding(t)'
    BY <1>1, NonePending DEF PendingStores, New, Adding
<1>5. Shown' = Shown /\ Seen' = Seen
    BY <1>1, <1>4 DEF Shown, Seen
<1>6. \A u \in Thread \ {t} : held[u] \cap H = {}
    BY DEF Good, LockInv, LocksHeld
<1>7. ASSUME NEW u \in Thread \ {t}, NEW v \in PendingStores(u), NEW w \in W,
             v.f = w.f, v.n = w.n
      PROVE  FALSE
    <2>1. w.f \in Field /\ (v.f \in TreeField => v.n \in held[u])
        BY <1>7, Pending DEF Store
    <2>2. CASE w.f \in TreeField
        BY <1>2, <1>6, <1>7, <2>1, <2>2
    <2>3. CASE w.f \notin TreeField
        <3>1. PICK e \in Side : w.f = SnapshotField(e)
            BY <2>1, <2>3, Fields
        <3>2. /\ Owns(g, H, e, w.n)
              /\ w.n \in H \/ g.parent[g.near[e][w.n]] \in H
            BY <1>3, <3>1
        <3>3. Adding(u) /\ v.n \in held[u] /\ g.near[e][v.n] = New(u)
            BY <1>7, <3>1, <3>2, AcrossMine
        <3>4. g.parent[New(u)] \in held[u]
            BY <3>3, NewNode
        <3> QED
            BY <1>6, <1>7, <3>2, <3>3, <3>4
    <2> QED
        BY <2>2, <2>3
<1>8. ASSUME NEW u \in Thread \ {t}, NEW v \in PendingStores(u)
      PROVE  v.n \in Live \ {n} /\ Final(h, v.f, v.n) = v.v
    <2>1. /\ v.n \in Live /\ v.f \in Field /\ Final(g, v.f, v.n) = v.v
          /\ v.f \in TreeField => v.n \in held[u]
        BY Pending DEF Store
    <2>2. n \in H
        BY DEF Unlinking
    <2>3. v.n # n
        <3>1. CASE v.f \in TreeField
            BY <1>6, <2>1, <2>2, <3>1
        <3>2. CASE v.f \notin TreeField
            <4>1. PICK e \in Side : v.f = SnapshotField(e)
                BY <2>1, <3>2, Fields
            <4>2. Owns(g, H, e, n)
                BY DEF Unlinking
            <4> QED
                BY <1>6, <2>2, <4>1, <4>2, AcrossMine
        <3> QED
            BY <3>1, <3>2
    <2> QED
        BY <1>2, <1>7, <2>1, <2>3
<1>9. Settles(h)'
    <2>1. \A u \in Thread : \A w \in PendingStores(u)' : w.n \in Live' /\ Final(h, w.f, w.n) = w.v
        BY <1>1, <1>2, <1>4, <1>8
    <2>2. ASSUME NEW f \in Field, NEW x \in Live', link'[f][x] # Final(h, f, x)
          PROVE  \E u \in Thread : \E w \in PendingStores(u)' : w.f = f /\ w.n = x
        <3>1. CASE Final(h, f, x) # Final(g, f, x)
            BY <1>1, <1>2, <3>1
        <3>2. CASE Final(h, f, x) = Final(g, f, x)
            <4>1. PICK u \in Thread : \E w \in PendingStores(u) : w.f = f /\ w.n = x
                BY <1>1, <2>2, <3>2 DEF Good, HeapInv, Settles
            <4> QED
                BY <1>4, <4>1
        <3> QED
            BY <3>1, <3>2
    <2> QED
        BY <2>1, <2>2 DEF Settles
<1>10. NoStoreRace'
    <2> SUFFICES ASSUME NEW u \in Thread, NEW v \in Thread, u # v,
                        NEW x \in PendingStores(u)', NEW y \in PendingStores(v)'
                 PROVE  <<x.f, x.n>> # <<y.f, y.n>>
        BY DEF NoStoreRace
    <2>1. CASE u # t /\ v # t
        BY <1>4, <2>1 DEF Good, HeapInv, NoStoreRace
    <2>2. CASE u = t
        BY <1>4, <1>7, <2>2
    <2>3. CASE v = t
        BY <1>4, <1>7, <2>3
    <2> QED
        BY <2>1, <2>2, <2>3
<1>11. GapsOwned(h)'
    <2> SUFFICES ASSUME NEW u \in Thread, NEW w \in PendingStores(u)', NEW e \in Side,
                        w.f = SnapshotField(e)
                 PROVE  /\ w.n # End(e)
                        /\ Owns(h, held[u], e, w.n)'
                           \/ (Adding(u)' /\ (w.n \in held'[u] \/ Len(todo'[u]) = 3))
        BY DEF GapsOwned
    <2>1. CASE u = t
        <3>1. w.n # End(e) /\ w.n \in Live \ {n}
            BY <1>2, <1>3, <2>1 DEF Owns
        <3> QED
            BY <1>1, <1>3, <2>1, <3>1 DEF Owns
    <2>2. CASE u # t
        <3>1. w \in PendingStores(u) /\ held'[u] = held[u] /\ todo'[u] = todo[u]
            BY <1>1, <1>4, <2>2
        <3>2. /\ w.n # End(e)
              /\ Owns(g, held[u], e, w.n)
                 \/ (Adding(u) /\ (w.n \in held[u] \/ Len(todo[u]) = 3))
            BY <3>1 DEF Good, HeapInv, GapsOwned
        <3>3. Owns(g, held[u], e, w.n) => Owns(h, held[u], e, w.n)'
            BY ZenonT(60), <2>2, LeftAlone
        <3> QED
            BY <1>4, <2>2, <3>1, <3>2, <3>3
    <2> QED
        BY <2>1, <2>2
<1>12. OldHeld'
    <2> SUFFICES ASSUME NEW u \in Thread, NEW w \in PendingStores(u)'
                 PROVE  /\ w.f \in {"leftSnapshot", "rightSnapshot"} =>
                             w.n \in held[u] \/ link[w.f][w.n] \in held[u] \cup {w.v}
                        /\ w.f = "parent" => link["parent"][w.n] \in held[u] \cup {w.v}
        BY <1>1 DEF OldHeld
    <2>1. CASE u = t
        <3>1. w.f \in {"leftSnapshot", "rightSnapshot"} => \E e \in Side : w.f = SnapshotField(e)
            BY DEF Side, SnapshotField
        <3> QED
            BY <1>2, <1>3, <2>1, <3>1
    <2>2. CASE u # t
        BY <1>4, <2>2 DEF Good, HeapInv, OldHeld
    <2> QED
        BY <2>1, <2>2
<1>13. LinksShown'
    <2>1. n \in alloc /\ NULL \in Ptr \ {n} /\ Node \ alloc \subseteq Ptr \ {n}
        BY <1>1 DEF Live, Ptr
    <2> QED
        BY <1>1, <1>5, <2>1 DEF Good, HeapInv, LinksShown
<1>14. ASSUME NEW u \in Thread
       PROVE  (/\ LocalsShown(reg[u]) /\ held[u] \subseteq Seen \ {NULL}
               /\ Knows(h, pc[u], op[u], reg[u], held[u])
               /\ Adding(u) => Publishing(h, u))'
    <2>1. (LocalsShown(reg[u]) /\ held[u] \subseteq Seen \ {NULL})'
        BY <1>1, <1>5 DEF Good, HeapInv, LocalsShown
    <2>2. PICK k, o, r, J : k = pc'[u] /\ o = op[u] /\ r = reg[u] /\ J = held[u]
        OBVIOUS
    <2>3. Knows(h, k, o, r, J)'
        <3>1. CASE u = t
            <4>1. k = "store" /\ o \in S!Op /\ r.node # NULL /\ o.type = "remove"
                BY <1>1, <2>2, <3>1
            <4> QED
                BY <4>1 DEF Knows, Calling, NearNode, NearNeighbours, NearSuccessor, RemovePlaces,
                   NodePlaces, TwoPlaces, OnePlaces, PredPlaces, DeepPlaces, SuccParentPlaces, SuccPlaces
        <3>2. CASE u # t
            <4>1. k = pc[u] /\ Knows(g, k, o, r, J)
                <5>1. k = pc[u]
                    BY <1>1, <2>2, <3>2
                <5> QED
                    BY <2>2, <5>1, KnownHere
            <4>2. /\ \A x \in held[u] \cap Live :
                        /\ x \in Live' /\ h.parent[x] = g.parent[x]
                        /\ \A d \in Side : h.child[d][x] = g.child[d][x]
                  /\ \A e \in Side : \A y : Owns(g, held[u], e, y) =>
                        Owns(h, held[u], e, y)' /\ h.near[e][y] = g.near[e][y]
                BY <3>2, LeftAlone
            <4>3. held'[u] = J
                BY <1>1, <2>2
            <4> QED
                BY <1>1, <2>2, <4>1, <4>2, <4>3, KnowsThrough
        <3> QED
            BY <3>1, <3>2
    <2>4. Knows(h, pc[u], op[u], reg[u], held[u])'
        BY <1>1, <2>2, <2>3
    <2>5. ASSUME Adding(u)' PROVE Publishing(h, u)'
        <3>1. u # t /\ Adding(u)
            BY <1>4, <2>5
        <3>2. Publishing(g, u)
            BY <3>1 DEF Good, HeapInv
        <3>3. /\ \A x \in held[u] \cap Live : x \in Live'
              /\ New(u) \in Live' /\ h.parent[New(u)] = g.parent[New(u)]
              /\ \A d \in Side : h.child[d][New(u)] = g.child[d][New(u)]
            BY <3>1, LeftAlone
        <3>4. New(u)' = New(u) /\ todo'[u] = todo[u]
            BY <1>1, <1>4, <3>1
        <3>5. \A e, m, x : AddLeft(u, e, m, x) => AddLeft(u, e, m, x)'
            BY <3>4 DEF AddLeft
        <3> QED
            BY <1>1, <3>2, <3>3, <3>4, <3>5 DEF Publishing, Side
    <2> QED
        BY <2>1, <2>4, <2>5
<1> QED
    BY <1>1, <1>2, <1>9, <1>10, <1>11, <1>12, <1>13, <1>14 DEF HeapInv

-----------------------------------------------------------------------------
(* The removal of a node with at most one child *)

Elements(q) == {q[i] : i \in DOMAIN q}

\* The elements of short lists.
LEMMA ElementsOf ==
    /\ Elements(<< >>) = {}
    /\ \A a : Elements(<<a>>) = {a}
    /\ \A a, b : Elements(<<a, b>>) = {a, b}
    /\ \A a, b, c : Elements(<<a, b, c>>) = {a, b, c}
  BY DEF Elements

\* The elements of two lists put together.
LEMMA ElementsOfBoth ==
    ASSUME NEW T, NEW s1 \in Seq(T), NEW s2 \in Seq(T)
    PROVE  Elements(s1 \o s2) = Elements(s1) \cup Elements(s2)
<1>1. ASSUME NEW i \in DOMAIN (s1 \o s2) PROVE (s1 \o s2)[i] \in Elements(s1) \cup Elements(s2)
    <2>1. CASE i \in DOMAIN s1
        BY <2>1 DEF Elements
    <2>2. CASE i \notin DOMAIN s1
        <3>1. i - Len(s1) \in DOMAIN s2 /\ (s1 \o s2)[i] = s2[i - Len(s1)]
            BY <2>2
        <3> QED
            BY <3>1 DEF Elements
    <2> QED
        BY <2>1, <2>2
<1>2. ASSUME NEW i \in DOMAIN s1 PROVE s1[i] \in Elements(s1 \o s2)
    <2>1. i \in DOMAIN (s1 \o s2) /\ (s1 \o s2)[i] = s1[i]
        OBVIOUS
    <2> QED
        BY <2>1 DEF Elements
<1>3. ASSUME NEW i \in DOMAIN s2 PROVE s2[i] \in Elements(s1 \o s2)
    <2>1. Len(s1) + i \in DOMAIN (s1 \o s2) /\ (s1 \o s2)[Len(s1) + i] = s2[i]
        OBVIOUS
    <2> QED
        BY <2>1 DEF Elements
<1> QED
    BY <1>1, <1>2, <1>3 DEF Elements

\* The stores that unlink n, whose only child is c, between its neighbours a and b.
OneStores(f, p, c, a, b) ==
    {[f |-> f, n |-> p, v |-> c], [f |-> "rightSnapshot", n |-> a, v |-> b],
     [f |-> "leftSnapshot", n |-> b, v |-> a]}
    \cup (IF c = NULL THEN {} ELSE {[f |-> "parent", n |-> c, v |-> p]})

\* The stores of a removal of a node with at most one child are what that takes.
LEMMA UnlinkingOne ==
    ASSUME NEW g, Good(g), NEW t \in Thread, pc[t] \in NodePlaces, NEW e \in Side, NEW f \in Side,
           NEW n, n = reg[t].node, NEW p, p = reg[t].parent, NEW c, c = g.child[Opp(e)][n],
           g.child[e][n] = NULL, g.child[f][p] = n, c # NULL => c \in held[t],
           NEW a, NEW b, Neighbour(g, held[t], "left", n, a), Neighbour(g, held[t], "right", n, b),
           \/ g.child["right"][a] = NULL /\ a \in held[t]
           \/ g.child["left"][b] = NULL /\ b \in held[t]
           \/ c = NULL /\ ((p = b /\ f = "left") \/ (p = a /\ f = "right"))
    PROVE  Unlinking(g, Unlinked(g, n, e, f), t, OneStores(f, p, c, a, b))
<1> DEFINE H == held[t]
           W == OneStores(f, p, c, a, b)
<1>1. /\ n \in H /\ p \in H /\ n \in Live \ {leftSentinel, rightSentinel} /\ n # NULL
      /\ todo[t] = << >> /\ g.parent[n] = p /\ Shape(g, Live) /\ p \in Live /\ n \in Shown
      /\ NULL \notin Live /\ Live \subseteq Node /\ \A d \in Side : n # End(d)
      /\ g \in Heap
    BY NodeHeld, BaseFacts, LiveFacts, Ends DEF Base, Good, HeapInv, LocalsShown
<1>2. /\ "left" \in Side /\ "right" \in Side /\ Opp("left") = "right" /\ Opp("right") = "left"
      /\ SnapshotField("left") = "leftSnapshot" /\ SnapshotField("right") = "rightSnapshot"
      /\ \A d \in Side : d = "left" \/ d = "right"
    BY DEF Side, Opp, SnapshotField
<1>3. /\ Owns(g, H, "left", n) /\ g.near["left"][n] = a /\ a \in Live \ {n} /\ g.near["right"][a] = n
      /\ Owns(g, H, "right", n) /\ g.near["right"][n] = b /\ b \in Live \ {n} /\ g.near["left"][b] = n
      /\ a # b /\ Beside("left", a, n) /\ Beside("right", b, n)
    <2>1. /\ Owns(g, H, "left", n) /\ g.near["left"][n] = a
          /\ Owns(g, H, "right", n) /\ g.near["right"][n] = b
        BY DEF Neighbour
    <2>2. /\ a \in Live \ {n} /\ g.near["right"][a] = n /\ Beside("left", a, n)
        <3>1. LET y == g.near["left"][n] IN
              y \in Live \ {n} /\ g.near[Opp("left")][y] = n /\ Beside("left", y, n)
            <4> HIDE DEF H
            <4> QED
                BY <1>1, <1>2, NeighbourOf
        <3> QED
            BY <1>2, <2>1, <3>1
    <2>3. /\ b \in Live \ {n} /\ g.near["left"][b] = n /\ Beside("right", b, n)
        <3>1. LET y == g.near["right"][n] IN
              y \in Live \ {n} /\ g.near[Opp("right")][y] = n /\ Beside("right", y, n)
            BY <1>1, <1>2, NeighbourOf
        <3> QED
            BY <1>2, <2>1, <3>1
    <2>4. a # b
        BY <1>1, <1>2, <2>2, <2>3, Order
    <2> QED
        BY <2>1, <2>2, <2>3, <2>4
<1>4. p # n /\ (c # NULL => c \in Live \ {n} /\ g.parent[c] = n)
    <2>1. p # n
        BY <1>1, ParentOf
    <2>2. Opp(e) \in Side
        BY Sides
    <2> QED
        BY <1>1, <2>1, <2>2, ChildOf
<1>5. PICK h : h = Unlinked(g, n, e, f)
    OBVIOUS
<1>6. h \in Heap /\ Shape(h, Live \ {n})
    BY <1>1, <1>5, UnlinkedShape
<1>7. /\ \A d \in Side : \A x \in Live : h.child[d][x] = IF d = f /\ x = p THEN c ELSE g.child[d][x]
      /\ \A x \in Live : h.near["left"][x] = IF x = b THEN a ELSE g.near["left"][x]
      /\ \A x \in Live : h.near["right"][x] = IF x = a THEN b ELSE g.near["right"][x]
      /\ \A x \in Live : h.parent[x] = IF x = c THEN p ELSE g.parent[x]
    <2>1. \A x \in Live : x \in Ptr
        BY <1>1
    <2> QED
        BY <1>1, <1>2, <1>3, <1>5, <2>1 DEF Unlinked
<1>8. \A w \in W : /\ w.f \in Side => w = [f |-> f, n |-> p, v |-> c]
                   /\ w.f = "parent" => c # NULL /\ w = [f |-> "parent", n |-> c, v |-> p]
                   /\ w.f = "rightSnapshot" => w = [f |-> "rightSnapshot", n |-> a, v |-> b]
                   /\ w.f = "leftSnapshot" => w = [f |-> "leftSnapshot", n |-> b, v |-> a]
                   /\ w.f \in Side \cup {"parent", "leftSnapshot", "rightSnapshot"}
    BY DEF OneStores, Side
<1>9. /\ [f |-> f, n |-> p, v |-> c] \in W /\ [f |-> "rightSnapshot", n |-> a, v |-> b] \in W
      /\ [f |-> "leftSnapshot", n |-> b, v |-> a] \in W
      /\ c # NULL => [f |-> "parent", n |-> c, v |-> p] \in W
    BY DEF OneStores
<1>10. ASSUME NEW w \in W PROVE w.n \in Live \ {n} /\ Final(h, w.f, w.n) = w.v
    <2>1. CASE w.f \in Side
        <3>1. w.f = f /\ w.n = p /\ w.v = c
            BY <1>8, <2>1
        <3> QED
            BY <1>1, <1>4, <1>7, <3>1, Fields
    <2>2. CASE w.f = "parent"
        <3>1. w.n = c /\ w.v = p /\ c # NULL
            BY <1>8, <2>2
        <3> QED
            BY <1>1, <1>4, <1>7, <2>2, <3>1, Fields
    <2>3. CASE w.f = "rightSnapshot"
        <3>1. w.n = a /\ w.v = b
            BY <1>8, <2>3
        <3> QED
            BY <1>2, <1>3, <1>7, <2>3, <3>1, Fields
    <2>4. CASE w.f = "leftSnapshot"
        <3>1. w.n = b /\ w.v = a
            BY <1>8, <2>4
        <3> QED
            BY <1>2, <1>3, <1>7, <2>4, <3>1, Fields
    <2> QED
        BY <1>8, <2>1, <2>2, <2>3, <2>4
<1>11. ASSUME NEW k \in Field, NEW x \in Live \ {n}, Final(h, k, x) # Final(g, k, x)
       PROVE  \E w \in W : w.f = k /\ w.n = x
    <2>1. CASE k \in Side
        <3>1. k = f /\ x = p
            BY <1>7, <1>11, <2>1, Fields
        <3> QED
            BY <1>9, <3>1
    <2>2. CASE k = "parent"
        <3>1. x = c /\ c # NULL
            BY <1>1, <1>7, <1>11, <2>2, Fields
        <3> QED
            BY <1>9, <2>2, <3>1
    <2>3. CASE k = "rightSnapshot"
        <3>1. x = a
            BY <1>2, <1>7, <1>11, <2>3, Fields
        <3> QED
            BY <1>9, <2>3, <3>1
    <2>4. CASE k = "leftSnapshot"
        <3>1. x = b
            BY <1>2, <1>7, <1>11, <2>4, Fields
        <3> QED
            BY <1>9, <2>4, <3>1
    <2> QED
        BY <2>1, <2>2, <2>3, <2>4 DEF Field, Side
<1>12. ASSUME NEW w \in W, w.f \in TreeField
       PROVE  w.n \in H /\ (g.parent[w.n] \in H \/ \E d \in Side : g.child[d][w.n] # NULL)
    <2>1. CASE w.f \in Side
        BY <1>1, <1>8, <2>1
    <2>2. CASE w.f = "parent"
        BY <1>1, <1>4, <1>8, <2>2
    <2> QED
        BY <1>12, <2>1, <2>2, Fields
<1>13. ASSUME NEW w \in W, w.f = "parent" PROVE link["parent"][w.n] \in H \cup {w.v}
    <2>1. w.n = c /\ c \in H /\ c \in Live /\ g.parent[c] = n
        BY <1>4, <1>8, <1>13
    <2>2. link["parent"][c] = n
        BY <1>1, <2>1, HeldFree, TreeAgrees
    <2> QED
        BY <1>1, <2>1, <2>2
<1>14. \/ h.child["right"][a] = NULL /\ a \in H
       \/ h.child["left"][b] = NULL /\ b \in H
    <2>1. CASE g.child["right"][a] = NULL /\ a \in H
        <3>1. h.child["right"][a] = NULL
            BY <1>1, <1>2, <1>3, <1>7, <2>1
        <3> QED
            BY <2>1, <3>1
    <2>2. CASE g.child["left"][b] = NULL /\ b \in H
        <3>1. h.child["left"][b] = NULL
            BY <1>1, <1>2, <1>3, <1>7, <2>2
        <3> QED
            BY <2>2, <3>1
    <2>3. CASE c = NULL /\ ((p = b /\ f = "left") \/ (p = a /\ f = "right"))
        BY <1>1, <1>2, <1>7, <2>3
    <2> QED
        BY <2>1, <2>2, <2>3
<1>15. ASSUME NEW w \in W, NEW d \in Side, w.f = SnapshotField(d)
       PROVE  /\ Owns(g, H, d, w.n)
              /\ w.n \in H \/ (g.parent[g.near[d][w.n]] \in H /\ link[w.f][w.n] \in H \cup {w.v})
              /\ \/ h.child[d][w.n] = NULL /\ w.n \in H
                 \/ h.child[Opp(d)][h.near[d][w.n]] = NULL /\ h.near[d][w.n] \in H
    <2>1. CASE d = "right"
        <3>1. w.n = a
            BY <1>2, <1>8, <1>15, <2>1
        <3>2. Owns(g, H, "right", a)
            BY <1>2, <1>3, OwnsBack
        <3>3. link["rightSnapshot"][a] = n
            BY <1>1, <1>2, <1>3, <3>2, SnapshotAgrees
        <3>4. h.near["right"][a] = b
            BY <1>3, <1>7
        <3> QED
            BY <1>1, <1>2, <1>3, <1>14, <1>15, <2>1, <3>1, <3>2, <3>3, <3>4
    <2>2. CASE d = "left"
        <3>1. w.n = b
            BY <1>2, <1>8, <1>15, <2>2
        <3>2. Owns(g, H, "left", b)
            BY <1>2, <1>3, OwnsBack
        <3>3. link["leftSnapshot"][b] = n
            BY <1>1, <1>2, <1>3, <3>2, SnapshotAgrees
        <3>4. h.near["left"][b] = a
            BY <1>3, <1>7
        <3> QED
            BY <1>1, <1>2, <1>3, <1>14, <1>15, <2>2, <3>1, <3>2, <3>3, <3>4
    <2> QED
        BY <1>2, <2>1, <2>2
<1>16. Unlinking(g, h, t, W)
    <2>1. n \in H /\ g.parent[n] \in H /\ \A d \in Side : Owns(g, H, d, n)
        BY <1>1, <1>2, <1>3
    <2> HIDE DEF W
    <2> QED
        BY <1>6, <1>10, <1>11, <1>12, <1>13, <1>15, <2>1 DEF Unlinking
<1> QED
    BY <1>5, <1>16

\* The stores of a removal are all pending at once.
LEMMA MarkPending ==
    ASSUME NEW g, Good(g), NEW t \in Thread, NEW l \in NodePlaces, NEW stores, Mark(t, l, stores)
    PROVE  PendingStores(t)' = Elements(stores)
  BY MarkEffect DEF PendingStores, Elements

\* The side of its parent on which the node hangs.
LEMMA HangsOn ==
    ASSUME NEW g, Good(g), NEW t \in Thread, pc[t] \in NodePlaces
    PROVE  LET r == reg[t]
               f == IF r.leftChild THEN "left" ELSE "right"
           IN  f \in Side /\ g.child[f][r.parent] = r.node
<1> DEFINE r == reg[t]
<1>1. /\ r.node \in Live \ {rightSentinel} /\ g.parent[r.node] = r.parent
      /\ r.leftChild = (g.child["left"][r.parent] = r.node) /\ Shape(g, Live)
    BY NodeHeld DEF Base
<1>2. \E d \in Side : g.child[d][r.parent] = r.node
    BY <1>1, ParentOf
<1> QED
    BY <1>1, <1>2 DEF Side

\* A leaf is removed (main.cpp:266-278).
LEMMA UnlinkLeafHeap ==
    ASSUME NEW g, Good(g), NEW t \in Thread, UnlinkLeaf(t)
    PROVE  \E h : HeapInv(h)'
<1> DEFINE H == held[t]
           stores == LeafStores(reg[t])
<1>1. pc[t] = "unlinkLeaf" /\ pc[t] \in NodePlaces /\ Mark(t, "unlinkLeaf", stores)
      /\ "unlinkLeaf" \in NodePlaces
    BY DEF UnlinkLeaf, Mark, NodePlaces
<1>2. PICK r, n, p, a, b, f : /\ r = reg[t] /\ n = r.node /\ p = r.parent
                              /\ a = r.rightNode /\ b = r.leftNode
                              /\ f = IF r.leftChild THEN "left" ELSE "right"
    OBVIOUS
<1>3. /\ Knows(g, "unlinkLeaf", op[t], r, H) /\ Shape(g, Live) /\ n \in Live /\ p \in Live /\ n # NULL
    BY <1>1, <1>2, NodeHeld, BaseFacts
<1>4. Base(g, op[t], r) /\ r.left = NULL /\ r.right = NULL /\ EndsKnown(g, r, H)
    BY <1>3, Places
<1>5. /\ g.child["left"][n] = NULL /\ g.child["right"][n] = NULL
      /\ Neighbour(g, H, "left", n, a) /\ Neighbour(g, H, "right", n, b)
    BY <1>2, <1>4 DEF Base, EndsKnown
<1>6. f \in Side /\ g.child[f][p] = n
    BY <1>1, <1>2, HangsOn
<1>7. (p = b /\ f = "left") \/ (p = a /\ f = "right")
    <2>1. g.bound[Opp(f)][n] = p
        BY <1>3, <1>6, ChildOf
    <2>2. g.near["left"][n] = g.bound["left"][n] /\ g.near["right"][n] = g.bound["right"][n]
        BY <1>3, <1>5 DEF Shape, Gapped, Side
    <2> QED
        BY <1>5, <1>6, <2>1, <2>2 DEF Neighbour, Side, Opp
<1>8. PendingStores(t)' = OneStores(f, p, NULL, a, b)
    <2>1. PendingStores(t)' = Elements(stores)
        <3> HIDE DEF stores
        <3> QED
            BY <1>1, MarkPending
    <2>2. PICK x, y, z : /\ x = [f |-> f, n |-> p, v |-> NULL]
                         /\ y = [f |-> "rightSnapshot", n |-> a, v |-> b]
                         /\ z = [f |-> "leftSnapshot", n |-> b, v |-> a]
        OBVIOUS
    <2>3. Elements(<<x>> \o <<y, z>>) = {x, y, z} /\ Elements(<<x>> \o <<z, y>>) = {x, y, z}
        <3>1. <<x>> \in Seq({x, y, z}) /\ <<y, z>> \in Seq({x, y, z}) /\ <<z, y>> \in Seq({x, y, z})
            OBVIOUS
        <3>2. Elements(<<x>>) = {x} /\ Elements(<<y, z>>) = {y, z} /\ Elements(<<z, y>>) = {z, y}
            BY ElementsOf
        <3>3. /\ Elements(<<x>> \o <<y, z>>) = Elements(<<x>>) \cup Elements(<<y, z>>)
              /\ Elements(<<x>> \o <<z, y>>) = Elements(<<x>>) \cup Elements(<<z, y>>)
            BY ZenonT(60), <3>1, ElementsOfBoth
        <3> QED
            BY <3>2, <3>3
    <2>4. stores = <<x>> \o <<y, z>> \/ stores = <<x>> \o <<z, y>>
        BY <1>2, <1>7, <2>2 DEF LeafStores, Replace
    <2> QED
        BY <2>1, <2>2, <2>3, <2>4 DEF OneStores
<1>9. PICK h : h = Unlinked(g, n, "left", f)
    OBVIOUS
<1>10. Unlinking(g, h, t, OneStores(f, p, NULL, a, b))
    <2>1. "left" \in Side /\ g.child[Opp("left")][n] = NULL
        BY <1>5 DEF Side, Opp
    <2> HIDE DEF H
    <2> QED
        BY <1>1, <1>2, <1>5, <1>6, <1>7, <1>9, <2>1, UnlinkingOne DEF H
<1>11. Unlinking(g, h, t, PendingStores(t)')
    BY <1>8, <1>10
<1>12. HeapInv(h)'
    <2> HIDE DEF stores
    <2> QED
        BY <1>1, <1>11, PublishHeap
<1> QED
    BY <1>12

\* A node with one child is removed (main.cpp:307-320).
LEMMA UnlinkOneChildHeap ==
    ASSUME NEW g, Good(g), NEW t \in Thread, UnlinkOneChild(t)
    PROVE  \E h : HeapInv(h)'
<1> DEFINE H == held[t]
           stores == OneChildStores(reg[t])
<1>1. pc[t] = "unlinkOneChild" /\ pc[t] \in NodePlaces /\ Mark(t, "unlinkOneChild", stores)
      /\ "unlinkOneChild" \in NodePlaces
    BY DEF UnlinkOneChild, Mark, NodePlaces, OnePlaces
<1>2. PICK r, n, p, a, b, c, f, e :
         /\ r = reg[t] /\ n = r.node /\ p = r.parent /\ a = r.rightNode /\ b = r.leftNode
         /\ c = OnlyChild(r)
         /\ f = (IF r.leftChild THEN "left" ELSE "right")
         /\ e = (IF r.left = NULL THEN "left" ELSE "right")
    OBVIOUS
<1>3. /\ Knows(g, "unlinkOneChild", op[t], r, H) /\ Shape(g, Live) /\ n \in Live /\ n # NULL
      /\ NULL \notin Live
    BY <1>1, <1>2, NodeHeld, LiveFacts
<1>4. /\ Base(g, op[t], r) /\ (r.left = NULL) # (r.right = NULL)
      /\ Neighbour(g, H, "left", n, a) /\ Neighbour(g, H, "right", n, b)
    BY <1>2, <1>3, Places
<1>5. /\ e \in Side /\ g.child[e][n] = NULL /\ g.child[Opp(e)][n] = c /\ c # NULL
      /\ g.child["left"][n] = r.left /\ g.child["right"][n] = r.right
    BY <1>2, <1>4 DEF Base, Side, Opp, OnlyChild
<1>6. f \in Side /\ g.child[f][p] = n
    BY <1>1, <1>2, HangsOn
<1>7. c \in H /\ SnapshotToLock(r) \in H
    BY <1>1, <1>2, KnownHere, LockedPair
<1>8. \/ g.child["right"][a] = NULL /\ a \in H
      \/ g.child["left"][b] = NULL /\ b \in H
    <2>1. CASE r.left = NULL
        <3>1. b \in H
            BY <1>2, <1>7, <2>1 DEF SnapshotToLock
        <3>2. n # End("right") /\ g.near["right"][n] = b /\ g.child["right"][n] # NULL
            BY <1>4, <1>5, <2>1 DEF Neighbour, Owns
        <3>3. g.child["left"][b] = NULL
            BY <1>3, <3>2 DEF Shape, Gapped, Side, Opp
        <3> QED
            BY <3>1, <3>3
    <2>2. CASE r.left # NULL
        <3>1. a \in H
            BY <1>2, <1>7, <2>2 DEF SnapshotToLock
        <3>2. n # End("left") /\ g.near["left"][n] = a /\ g.child["left"][n] # NULL
            BY <1>4, <1>5, <2>2 DEF Neighbour, Owns
        <3>3. g.child["right"][a] = NULL
            BY <1>3, <3>2 DEF Shape, Gapped, Side, Opp
        <3> QED
            BY <3>1, <3>3
    <2> QED
        BY <2>1, <2>2
<1>9. PendingStores(t)' = OneStores(f, p, c, a, b)
    <2>1. PendingStores(t)' = Elements(stores)
        <3> HIDE DEF stores
        <3> QED
            BY <1>1, MarkPending
    <2>2. PICK w, x, y, z : /\ w = [f |-> f, n |-> p, v |-> c] /\ x = [f |-> "parent", n |-> c, v |-> p]
                            /\ y = [f |-> "rightSnapshot", n |-> a, v |-> b]
                            /\ z = [f |-> "leftSnapshot", n |-> b, v |-> a]
        OBVIOUS
    <2>3. Elements(<<w, x>> \o <<y, z>>) = {w, x, y, z}
        <3>1. <<w, x>> \in Seq({w, x, y, z}) /\ <<y, z>> \in Seq({w, x, y, z})
            OBVIOUS
        <3>2. Elements(<<w, x>>) = {w, x} /\ Elements(<<y, z>>) = {y, z}
            BY ElementsOf
        <3>3. Elements(<<w, x>> \o <<y, z>>) = Elements(<<w, x>>) \cup Elements(<<y, z>>)
            BY ZenonT(60), <3>1, ElementsOfBoth
        <3> QED
            BY <3>2, <3>3
    <2>4. stores = <<w, x>> \o <<y, z>>
        BY <1>2, <2>2 DEF OneChildStores, Replace, Splice
    <2> QED
        BY <1>5, <2>1, <2>2, <2>3, <2>4 DEF OneStores
<1>10. PICK h : h = Unlinked(g, n, e, f)
    OBVIOUS
<1>11. Unlinking(g, h, t, OneStores(f, p, c, a, b))
    <2>1. /\ pc[t] \in NodePlaces /\ n = reg[t].node /\ p = reg[t].parent /\ c = g.child[Opp(e)][n]
          /\ e \in Side /\ f \in Side /\ g.child[e][n] = NULL /\ g.child[f][p] = n
          /\ c # NULL => c \in held[t]
          /\ Neighbour(g, held[t], "left", n, a) /\ Neighbour(g, held[t], "right", n, b)
          /\ \/ g.child["right"][a] = NULL /\ a \in held[t]
             \/ g.child["left"][b] = NULL /\ b \in held[t]
        BY <1>1, <1>2, <1>4, <1>5, <1>6, <1>7, <1>8
    <2> HIDE DEF H, stores
    <2>2. Unlinking(g, Unlinked(g, n, e, f), t, OneStores(f, p, c, a, b))
        BY <2>1, UnlinkingOne
    <2> QED
        BY <1>10, <2>2
<1>12. Unlinking(g, h, t, PendingStores(t)')
    BY <1>9, <1>11
<1>13. HeapInv(h)'
    <2> HIDE DEF stores
    <2> QED
        BY <1>1, <1>12, PublishHeap
<1> QED
    BY <1>13

-----------------------------------------------------------------------------
(* The removal of a node with two children *)

\* The stores that put s in the place of n, whose left child is c, left neighbour
\* a, and which hangs on side f of p.
MoveStores(f, p, c, s, a) ==
    {[f |-> "left", n |-> s, v |-> c], [f |-> "parent", n |-> c, v |-> s],
     [f |-> "parent", n |-> s, v |-> p], [f |-> f, n |-> p, v |-> s],
     [f |-> "rightSnapshot", n |-> a, v |-> s], [f |-> "leftSnapshot", n |-> s, v |-> a]}

\* Those that also take s, the left child of q, with right child c and right
\* neighbour b, from its place above r, the right child of n.
LeaveStores(s, r, q, c, b) ==
    {[f |-> "right", n |-> s, v |-> r], [f |-> "parent", n |-> r, v |-> s],
     [f |-> "left", n |-> q, v |-> c], [f |-> "rightSnapshot", n |-> s, v |-> b],
     [f |-> "leftSnapshot", n |-> b, v |-> s]}
    \cup (IF c = NULL THEN {} ELSE {[f |-> "parent", n |-> c, v |-> q]})

\* The nodes around n, its successor s and its children l and r.
Around(g, live, f, n, p, l, r, s, a) ==
    /\ g \in Heap /\ Shape(g, live) /\ n \in live \ {leftSentinel, rightSentinel}
    /\ f \in Side /\ p = g.parent[n] /\ g.child[f][p] = n
    /\ l = g.child["left"][n] /\ l # NULL /\ r = g.child["right"][n] /\ r # NULL
    /\ s = g.near["right"][n] /\ a = g.near["left"][n]

\* How the nodes around a node with two children are placed.
LEMMA AroundFacts ==
    ASSUME NEW g, NEW live, NEW f, NEW n, NEW p, NEW l, NEW r, NEW s, NEW a,
           Around(g, live, f, n, p, l, r, s, a)
    PROVE  /\ {p, l, r, s, a} \subseteq live \ {n} /\ n # NULL /\ NULL \notin live /\ live \subseteq Node
           /\ s # leftSentinel /\ s # p /\ s # l /\ s # a /\ l # r
           /\ g.child["left"][s] = NULL /\ g.near["left"][s] = n
           /\ g.near["right"][a] = n /\ g.child["right"][a] = NULL
           /\ g.parent[l] = n /\ g.parent[r] = n
           /\ Beside("right", s, n) /\ Beside("left", a, n)
           /\ \A x \in live : (g.near["left"][x] = n <=> x = s) /\ (g.near["right"][x] = n <=> x = a)
           /\ \A x \in live : g.parent[x] = n => x = l \/ x = r
           /\ \A x \in live : g.parent[x] = s => x = g.child["right"][s]
           /\ \A d \in Side : \A x \in live : g.child[d][x] = n => d = f /\ x = p
<1>1. /\ "left" \in Side /\ "right" \in Side /\ Opp("left") = "right" /\ Opp("right") = "left"
      /\ \A d \in Side : d = "left" \/ d = "right"
    BY DEF Side, Opp
<1>2. /\ Shape(g, live) /\ n \in live /\ f \in Side /\ g.child[f][p] = n /\ NULL \notin live
      /\ live \subseteq Node /\ n # NULL /\ n # End("left") /\ n # End("right") /\ n # rightSentinel
      /\ {leftSentinel, rightSentinel} \subseteq live
    BY NodeAssumption DEF Around, Shape, End
<1>3. p \in live \ {n}
    BY <1>2, ParentOf DEF Around
<1>4. /\ l \in live \ {n} /\ g.parent[l] = n /\ Beside("left", l, n)
      /\ r \in live \ {n} /\ g.parent[r] = n
    BY <1>1, <1>2, ChildOf DEF Around
<1>5. /\ s \in live \ {n} /\ g.child["left"][s] = NULL /\ g.near["left"][s] = n
      /\ s # r => g.child["left"][g.parent[s]] = s
      /\ s = r => g.parent[s] = n
    BY <1>2, Successor DEF Around
<1>6. Beside("right", s, n) /\ g.near["right"][n] = s
    BY <1>1, <1>2, NeighbourOf DEF Around
<1>7. a \in live \ {n} /\ g.near["right"][a] = n /\ Beside("left", a, n) /\ g.near["left"][n] = a
    BY <1>1, <1>2, NeighbourOf DEF Around
<1>8. g.child["right"][a] = NULL
    BY <1>1, <1>2, <1>7 DEF Shape, Gapped, Around
<1>9. s # l /\ s # a
    BY <1>1, <1>2, <1>4, <1>5, <1>6, <1>7, Order
<1>10. s # leftSentinel
    <2>1. g.parent[leftSentinel] = rightSentinel /\ g.child["left"][rightSentinel] = NULL
        BY <1>1, <1>2, EndBare DEF Shape, Rooted, End
    <2> QED
        BY <1>2, <1>5, <2>1
<1>11. ASSUME NEW d \in Side, NEW x \in live, g.child[d][x] = n PROVE d = f /\ x = p
    BY <1>2, <1>3, <1>11, OneChild
<1>12. s # p
    <2> SUFFICES ASSUME s = p PROVE FALSE
        OBVIOUS
    <2>1. f = "right"
        BY <1>1, <1>2, <1>5
    <2>2. Beside("right", n, s)
        BY <1>1, <1>2, <1>3, <2>1, ChildOf
    <2> QED
        BY <1>1, <1>2, <1>5, <1>6, <2>2, Order
<1>13. l # r
    <2>1. Beside("right", r, n)
        BY <1>1, <1>2, ChildOf DEF Around
    <2> QED
        BY <1>1, <1>2, <1>4, <2>1, Order
<1>14. ASSUME NEW x \in live, g.near["left"][x] = n PROVE x = s
    BY <1>1, <1>2, <1>6, <1>14, NearBack
<1>15. ASSUME NEW x \in live, g.near["right"][x] = n PROVE x = a
    BY <1>1, <1>2, <1>7, <1>15, NearBack
<1>16. ASSUME NEW x \in live, NEW y \in live, g.parent[x] = y
       PROVE  g.child["left"][y] = x \/ g.child["right"][y] = x
    <2>1. x # rightSentinel
        BY <1>2, <1>16 DEF Shape, Rooted
    <2> QED
        BY <1>1, <1>2, <1>16, <2>1, ParentOf
<1>17. \A x \in live : g.parent[x] = n => x = l \/ x = r
    BY <1>2, <1>16 DEF Around
<1>18. \A x \in live : g.parent[x] = s => x = g.child["right"][s]
    BY <1>2, <1>5, <1>16
<1> QED
    BY <1>2, <1>3, <1>4, <1>5, <1>6, <1>7, <1>8, <1>9, <1>10, <1>11, <1>12, <1>13, <1>14, <1>15,
       <1>17, <1>18

\* The same of the nodes around the successor s, where it is not the right child.
LEMMA DeepFacts ==
    ASSUME NEW g, NEW live, NEW f, NEW n, NEW p, NEW l, NEW r, NEW s, NEW a,
           Around(g, live, f, n, p, l, r, s, a), s # r,
           NEW q, q = g.parent[s], NEW c, c = g.child["right"][s], NEW b, b = g.near["right"][s]
    PROVE  /\ {q, b} \subseteq live \ {n, s} /\ g.child["left"][q] = s /\ g.near["left"][b] = s
           /\ c # NULL => c \in live \ {n, s, l, r} /\ g.parent[c] = s /\ g.child["left"][b] = NULL
           /\ c = NULL => b = q
<1>1. /\ "left" \in Side /\ "right" \in Side /\ Opp("left") = "right" /\ Opp("right") = "left"
      /\ Shape(g, live) /\ n \in live
    BY DEF Side, Opp, Around
<1>2. /\ s \in live \ {n} /\ s # leftSentinel /\ s # l /\ NULL \notin live
      /\ {l, r} \subseteq live /\ g.parent[l] = n /\ g.parent[r] = n /\ live \subseteq Node
      /\ Beside("right", s, n)
    BY AroundFacts
<1>3. q \in live \ {n, s} /\ g.child["left"][q] = s /\ g.bound["right"][s] = q
    BY <1>1, Successor DEF Around
<1>4. b \in live /\ g.near["left"][b] = s /\ b # s /\ Beside("right", b, s) /\ s # End("right")
    <2>1. s # End("right")
        BY <1>2 DEF End
    <2> QED
        BY <1>1, <1>2, <2>1, NeighbourOf
<1>5. b # n
    BY <1>1, <1>2, <1>4, Order
<1>6. ASSUME c # NULL
      PROVE  c \in live \ {n, s, l, r} /\ g.parent[c] = s /\ g.child["left"][b] = NULL
    <2>1. c \in live \ {s} /\ g.parent[c] = s /\ Beside("right", c, s)
        BY <1>1, <1>2, <1>6, ChildOf
    <2>2. c # n
        BY <1>1, <1>2, <2>1, Order
    <2>3. c # l /\ c # r
        BY <1>2, <2>1
    <2>4. g.child["left"][b] = NULL
        BY <1>1, <1>2, <1>4, <1>6 DEF Shape, Gapped
    <2> QED
        BY <2>1, <2>2, <2>3, <2>4
<1>7. ASSUME c = NULL PROVE b = q
    <2>1. \A x \in live : g.child["right"][x] = NULL => g.near["right"][x] = g.bound["right"][x]
        BY <1>1 DEF Shape, Gapped
    <2> QED
        BY <1>2, <1>3, <1>7, <2>1
<1> QED
    BY <1>3, <1>4, <1>5, <1>6, <1>7

\* What the heap with s in the place of n is, and how it differs from g.
Remade(g, h, live, n, s, r, a, b, W) ==
    /\ h \in Heap /\ Shape(h, live \ {n})
    /\ \A w \in W : w.n \in live \ {n} /\ Final(h, w.f, w.n) = w.v
    /\ \A k \in Field : \A x \in live \ {n} :
          Final(h, k, x) # Final(g, k, x) => \E w \in W : w.f = k /\ w.n = x
    /\ h.child["right"][a] = NULL /\ h.near["left"][s] = a
    /\ s # r => h.child["left"][b] = NULL

\* What changes when the successor takes the place of the node.
LEMMA ReplacedStores ==
    ASSUME NEW g, NEW live, NEW f, NEW n, NEW p, NEW l, NEW r, NEW s, NEW a,
           Around(g, live, f, n, p, l, r, s, a),
           NEW q, q = g.parent[s], NEW c, c = g.child["right"][s], NEW b, b = g.near["right"][s],
           NEW h, h = Replaced(g, n, IF s = r THEN "right" ELSE "left"),
           NEW W, W = MoveStores(f, p, l, s, a) \cup IF s = r THEN {} ELSE LeaveStores(s, r, q, c, b)
    PROVE  Remade(g, h, live, n, s, r, a, b, W)
<1>1. /\ "left" \in Side /\ "right" \in Side
      /\ \A d \in Side : d = "left" \/ d = "right"
    BY DEF Side
<1>2. /\ {p, l, r, s, a} \subseteq live \ {n} /\ n # NULL /\ NULL \notin live
      /\ s # leftSentinel /\ s # p /\ s # l /\ s # a /\ l # r
      /\ g.child["left"][s] = NULL /\ g.near["left"][s] = n
      /\ g.near["right"][a] = n /\ g.child["right"][a] = NULL
      /\ g.parent[l] = n /\ g.parent[r] = n
      /\ \A x \in live : (g.near["left"][x] = n <=> x = s) /\ (g.near["right"][x] = n <=> x = a)
      /\ \A x \in live : g.parent[x] = n => x = l \/ x = r
      /\ \A x \in live : g.parent[x] = s => x = c
      /\ \A d \in Side : \A x \in live : g.child[d][x] = n => d = f /\ x = p
    BY AroundFacts
<1>3. f \in Side /\ p = g.parent[n] /\ g.child[f][p] = n /\ l = g.child["left"][n] /\ r = g.child["right"][n]
    BY DEF Around
<1>4. s # r => /\ {q, b} \subseteq live \ {n, s} /\ g.child["left"][q] = s /\ g.near["left"][b] = s
               /\ c # NULL => c \in live \ {n, s, l, r} /\ g.parent[c] = s /\ g.child["left"][b] = NULL
               /\ c = NULL => b = q
    BY DeepFacts
<1>5. /\ h \in Heap /\ Shape(h, live \ {n})
      /\ \A d \in Side : \A x \in live \ {n} :
            /\ h.child[d][x] =
                 IF x = s THEN IF d = "right" /\ s = r THEN g.child[d][s] ELSE g.child[d][n]
                 ELSE IF d = "left" /\ s # r /\ x = q THEN c
                 ELSE IF g.child[d][x] = n THEN s ELSE g.child[d][x]
            /\ h.near[d][x] =
                 IF d = "left" /\ x = s THEN a
                 ELSE IF g.near[d][x] = n THEN s ELSE g.near[d][x]
      /\ \A x \in live \ {n} :
            h.parent[x] = IF x = s THEN p
                          ELSE IF x = c /\ s # r THEN q
                          ELSE IF g.parent[x] \in {n, s} THEN s ELSE g.parent[x]
    <2>1. /\ g \in Heap /\ Shape(g, live) /\ n \in live \ {leftSentinel, rightSentinel}
          /\ g.child["left"][n] # NULL /\ g.child["right"][n] # NULL
          /\ s = g.near["right"][n] /\ a = g.near["left"][n]
        BY DEF Around
    <2>2. LET s0 == g.near["right"][n]
              r0 == g.child["right"][n]
              e0 == IF s0 = r0 THEN "right" ELSE "left"
          IN  ReplacedBy(Replaced(g, n, e0), g, live, n, s0, r0)
        BY <2>1, ReplacedShape
    <2>3. g.near["right"][n] = s /\ g.child["right"][n] = r /\ g.parent[s] = q /\ g.parent[n] = p
          /\ g.child["right"][s] = c /\ g.near["left"][n] = a
        BY <1>3, <2>1
    <2> QED
        BY <2>2, <2>3 DEF ReplacedBy
<1>6. \A x \in live \ {n} : h.child["left"][x] =
                 IF x = s THEN l ELSE IF s # r /\ x = q THEN c
                 ELSE IF f = "left" /\ x = p THEN s ELSE g.child["left"][x]
    BY <1>1, <1>2, <1>3, <1>5
<1>7. \A x \in live \ {n} : h.child["right"][x] =
                 IF x = s THEN IF s = r THEN c ELSE r
                 ELSE IF f = "right" /\ x = p THEN s ELSE g.child["right"][x]
    BY <1>1, <1>2, <1>3, <1>5
<1>8. /\ \A x \in live \ {n} : h.near["left"][x] = IF x = s THEN a ELSE g.near["left"][x]
      /\ \A x \in live \ {n} : h.near["right"][x] = IF x = a THEN s ELSE g.near["right"][x]
    BY <1>1, <1>2, <1>5
<1>9. \A x \in live \ {n} : h.parent[x] =
                 IF x = s THEN p ELSE IF x = c /\ s # r THEN q
                 ELSE IF x = l \/ x = r THEN s ELSE g.parent[x]
    BY <1>2, <1>4, <1>5
<1>10. /\ h.child["right"][a] = NULL /\ h.near["left"][s] = a
    BY <1>2, <1>3, <1>7, <1>8
<1>11. ASSUME s # r PROVE h.child["left"][b] = NULL
    BY <1>2, <1>3, <1>4, <1>6, <1>11
<1> DEFINE Ok(k, x, v) == x \in live \ {n} /\ Final(h, k, x) = v
<1>12. \A w \in MoveStores(f, p, l, s, a) : Ok(w.f, w.n, w.v)
    <2>1. Ok("left", s, l) /\ Ok("parent", l, s) /\ Ok("parent", s, p)
        BY <1>1, <1>2, <1>4, <1>6, <1>9, Fields
    <2>2. Ok(f, p, s)
        BY <1>1, <1>2, <1>3, <1>4, <1>6, <1>7, Fields
    <2>3. Ok("rightSnapshot", a, s) /\ Ok("leftSnapshot", s, a)
        BY <1>2, <1>8 DEF Final
    <2> HIDE DEF Ok
    <2> QED
        BY <2>1, <2>2, <2>3 DEF MoveStores
<1>13. ASSUME s # r PROVE \A w \in LeaveStores(s, r, q, c, b) : Ok(w.f, w.n, w.v)
    <2>1. Ok("right", s, r) /\ Ok("parent", r, s)
        BY <1>1, <1>2, <1>4, <1>7, <1>9, <1>13, Fields
    <2>2. Ok("left", q, c)
        BY <1>1, <1>4, <1>6, <1>13, Fields
    <2>3. Ok("rightSnapshot", s, b) /\ Ok("leftSnapshot", b, s)
        BY <1>2, <1>4, <1>8, <1>13 DEF Final
    <2>4. c # NULL => Ok("parent", c, q)
        BY <1>2, <1>4, <1>9, <1>13 DEF Final
    <2> HIDE DEF Ok
    <2> QED
        BY <2>1, <2>2, <2>3, <2>4 DEF LeaveStores
<1>14. \A w \in W : w.n \in live \ {n} /\ Final(h, w.f, w.n) = w.v
    BY <1>12, <1>13
<1> DEFINE In(k, x) == \E w \in W : w.f = k /\ w.n = x
<1>15. /\ In("left", s) /\ In("parent", l) /\ In("parent", s) /\ In(f, p)
       /\ In("rightSnapshot", a) /\ In("leftSnapshot", s)
    <2>1. /\ [f |-> "left", n |-> s, v |-> l] \in W /\ [f |-> "parent", n |-> l, v |-> s] \in W
          /\ [f |-> "parent", n |-> s, v |-> p] \in W /\ [f |-> f, n |-> p, v |-> s] \in W
          /\ [f |-> "rightSnapshot", n |-> a, v |-> s] \in W
          /\ [f |-> "leftSnapshot", n |-> s, v |-> a] \in W
        BY DEF MoveStores
    <2> QED
        BY <2>1
<1>16. s # r => /\ In("right", s) /\ In("parent", r) /\ In("left", q)
                /\ c # NULL => In("parent", c)
    <2> SUFFICES ASSUME s # r
                 PROVE  /\ In("right", s) /\ In("parent", r) /\ In("left", q)
                        /\ c # NULL => In("parent", c)
        OBVIOUS
    <2>1. /\ [f |-> "right", n |-> s, v |-> r] \in W /\ [f |-> "parent", n |-> r, v |-> s] \in W
          /\ [f |-> "left", n |-> q, v |-> c] \in W
          /\ c # NULL => [f |-> "parent", n |-> c, v |-> q] \in W
        BY DEF LeaveStores
    <2> QED
        BY <2>1
<1> HIDE DEF In
<1>17. ASSUME NEW k \in Field, NEW x \in live \ {n}, Final(h, k, x) # Final(g, k, x)
       PROVE  In(k, x)
    <2>1. CASE k = "left"
        <3>1. h.child["left"][x] # g.child["left"][x]
            BY <1>17, <2>1 DEF Final
        <3> QED
            BY <1>6, <1>15, <1>16, <2>1, <3>1
    <2>2. CASE k = "right"
        <3>1. h.child["right"][x] # g.child["right"][x]
            BY <1>17, <2>2 DEF Final
        <3> QED
            BY <1>7, <1>15, <1>16, <2>2, <3>1
    <2>3. CASE k = "parent"
        <3>1. h.parent[x] # g.parent[x]
            BY <1>17, <2>3 DEF Final
        <3>2. x = r /\ s = r => x = s
            OBVIOUS
        <3> QED
            BY <1>2, <1>9, <1>15, <1>16, <2>3, <3>1, <3>2
    <2>4. CASE k = "leftSnapshot"
        <3>1. h.near["left"][x] # g.near["left"][x]
            BY <1>17, <2>4 DEF Final
        <3> QED
            BY <1>8, <1>15, <2>4, <3>1
    <2>5. CASE k = "rightSnapshot"
        <3>1. h.near["right"][x] # g.near["right"][x]
            BY <1>17, <2>5 DEF Final
        <3> QED
            BY <1>8, <1>15, <2>5, <3>1
    <2> QED
        BY <2>1, <2>2, <2>3, <2>4, <2>5 DEF Field
<1> QED
    BY <1>5, <1>10, <1>11, <1>14, <1>17 DEF In, Remade

\* The elements of a list of four.
LEMMA ElementsOfFour == \A a, b, c, d : Elements(<<a, b, c, d>>) = {a, b, c, d}
  BY DEF Elements

\* The elements of a list of nine.
LEMMA ElementsOfNine ==
    \A a, b, c, d, e, f, g, h, i :
        Elements(<<a, b, c, d, e, f, g, h, i>>) = {a, b, c, d, e, f, g, h, i}
  BY DEF Elements

\* t, with the locks it has, may put s in the place of n: the stores W make h of g.
Moves(t, g, f, n, p, l, r, s, a, q, c, b, h, W) ==
    /\ Around(g, Live, f, n, p, l, r, s, a)
    /\ q = g.parent[s] /\ c = g.child["right"][s] /\ b = g.near["right"][s]
    /\ h = Replaced(g, n, IF s = r THEN "right" ELSE "left")
    /\ W = MoveStores(f, p, l, s, a) \cup IF s = r THEN {} ELSE LeaveStores(s, r, q, c, b)
    /\ n = reg[t].node /\ {n, p, l, r, s, a} \subseteq held[t]
    /\ s # r => {q, b} \subseteq held[t] /\ (c # NULL => c \in held[t])

\* With the locks of applyRemove, or of the promotion of the right child, the
\* stores unlink the node.
LEMMA UnlinkingTwo ==
    ASSUME NEW g, Good(g), NEW t \in Thread, pc[t] \in NodePlaces,
           NEW f, NEW n, NEW p, NEW l, NEW r, NEW s, NEW a, NEW q, NEW c, NEW b, NEW h, NEW W,
           Moves(t, g, f, n, p, l, r, s, a, q, c, b, h, W)
    PROVE  Unlinking(g, h, t, W)
<1> USE DEF Moves
<1> DEFINE H == held[t]
<1>1. /\ "left" \in Side /\ "right" \in Side /\ Opp("left") = "right" /\ Opp("right") = "left"
      /\ SnapshotField("left") = "leftSnapshot" /\ SnapshotField("right") = "rightSnapshot"
      /\ \A d \in Side : d = "left" \/ d = "right"
    BY DEF Side, Opp, SnapshotField
<1>2. /\ {p, l, r, s, a} \subseteq Live \ {n} /\ n # NULL /\ NULL \notin Live /\ s # leftSentinel
      /\ g.child["left"][s] = NULL /\ g.near["left"][s] = n
      /\ g.near["right"][a] = n /\ g.child["right"][a] = NULL
      /\ g.parent[l] = n /\ g.parent[r] = n
    BY AroundFacts
<1>3. /\ f \in Side /\ p = g.parent[n] /\ g.child[f][p] = n /\ n \in Live /\ s = g.near["right"][n]
      /\ a = g.near["left"][n] /\ n # End("left") /\ n # End("right") /\ Shape(g, Live)
    BY DEF Around, End, Shape
<1>4. s # r => /\ {q, b} \subseteq Live \ {n, s} /\ g.child["left"][q] = s /\ g.near["left"][b] = s
               /\ c # NULL => c \in Live \ {n, s, l, r} /\ g.parent[c] = s /\ g.child["left"][b] = NULL
               /\ c = NULL => b = q
    BY DeepFacts
<1>5. /\ h \in Heap /\ Shape(h, Live \ {n})
      /\ \A w \in W : w.n \in Live \ {n} /\ Final(h, w.f, w.n) = w.v
      /\ \A k \in Field : \A x \in Live \ {n} :
            Final(h, k, x) # Final(g, k, x) => \E w \in W : w.f = k /\ w.n = x
      /\ h.child["right"][a] = NULL /\ h.near["left"][s] = a
      /\ s # r => h.child["left"][b] = NULL
    <2>1. Remade(g, h, Live, n, s, r, a, b, W)
        BY ReplacedStores
    <2> QED
        BY <2>1 DEF Remade
<1>6. Owns(g, H, "left", n) /\ Owns(g, H, "right", n)
    BY <1>1, <1>2, <1>3 DEF Owns
<1>7. Owns(g, H, "right", a) /\ Owns(g, H, "left", s)
    <2>1. Owns(g, H, Opp("left"), g.near["left"][n]) /\ Owns(g, H, Opp("right"), g.near["right"][n])
        BY <1>1, <1>6, OwnsBack
    <2> QED
        BY <1>1, <1>3, <2>1
<1>8. ASSUME s # r PROVE Owns(g, H, "right", s) /\ Owns(g, H, "left", b)
    <2>1. s # End("right") /\ s \in Live /\ b \in H
        BY <1>2, <1>8 DEF End
    <2>2. Owns(g, H, "right", s)
        <3>1. CASE c = NULL
            BY <2>1, <3>1 DEF Owns
        <3>2. CASE c # NULL
            BY <1>1, <1>4, <1>8, <2>1, <3>2 DEF Owns
        <3> QED
            BY <3>1, <3>2
    <2> QED
        BY <1>1, <2>2, OwnsBack
<1>9. /\ n \in H /\ p \in H /\ l \in H /\ r \in H /\ s \in H /\ a \in H
      /\ s # r => q \in H /\ b \in H /\ (c # NULL => c \in H)
    OBVIOUS
<1>10. g.parent[s] \in H
    BY <1>2, <1>9
<1>11. \A w \in MoveStores(f, p, l, s, a) :
          /\ w.f \in TreeField => w.n \in {s, l, p}
          /\ w.f = "parent" => w.n \in {l, s}
          /\ w.f = "rightSnapshot" => w.n = a /\ w.v = s
          /\ w.f = "leftSnapshot" => w.n = s /\ w.v = a
    <2>1. f # "parent" /\ f # "rightSnapshot" /\ f # "leftSnapshot"
        BY <1>3 DEF Side
    <2> QED
        BY <2>1 DEF MoveStores, TreeField
<1>12. \A w \in LeaveStores(s, r, q, c, b) :
          /\ w.f \in TreeField => w.n \in {s, r, q} \/ (c # NULL /\ w.n = c)
          /\ w.f = "parent" => w.n = r \/ (c # NULL /\ w.n = c)
          /\ w.f = "rightSnapshot" => w.n = s /\ w.v = b
          /\ w.f = "leftSnapshot" => w.n = b /\ w.v = s
    BY DEF LeaveStores, TreeField
<1>13. \A w \in W : w \in MoveStores(f, p, l, s, a) \/ (s # r /\ w \in LeaveStores(s, r, q, c, b))
    OBVIOUS
<1>14. ASSUME NEW w \in W, w.f \in TreeField
       PROVE  w.n \in H /\ (g.parent[w.n] \in H \/ \E d \in Side : g.child[d][w.n] # NULL)
    <2>1. \/ w.n \in {s, l, p, r}
          \/ s # r /\ (w.n = q \/ (c # NULL /\ w.n = c))
        BY <1>11, <1>12, <1>13, <1>14
    <2>2. CASE w.n = s
        BY <1>9, <1>10, <2>2
    <2>3. CASE w.n = l \/ w.n = r
        BY <1>2, <1>9, <2>3
    <2>4. CASE w.n = p
        BY <1>2, <1>3, <1>9, <2>4
    <2>5. CASE s # r /\ w.n = q
        BY <1>1, <1>2, <1>4, <1>9, <2>5
    <2>6. CASE s # r /\ c # NULL /\ w.n = c
        BY <1>4, <1>9, <2>6
    <2> QED
        BY <2>1, <2>2, <2>3, <2>4, <2>5, <2>6
<1>15. ASSUME NEW w \in W, w.f = "parent" PROVE link["parent"][w.n] \in H \cup {w.v}
    <2>1. \/ w.n \in {s, l, r}
          \/ s # r /\ c # NULL /\ w.n = c
        BY <1>11, <1>12, <1>13, <1>15
    <2>2. w.n \in H /\ g.parent[w.n] \in H /\ w.n \in Live
        BY <1>2, <1>4, <1>9, <1>10, <2>1
    <2>3. Free(t, w.n) /\ todo[t] = << >>
        BY <2>2, HeldFree, NodeHeld
    <2>4. link["parent"][w.n] = g.parent[w.n]
        BY <2>2, <2>3, TreeAgrees
    <2> QED
        BY <2>2, <2>4
<1>16. ASSUME NEW w \in W, NEW d \in Side, w.f = SnapshotField(d)
       PROVE  /\ Owns(g, H, d, w.n) /\ w.n \in H
              /\ \/ h.child[d][w.n] = NULL /\ w.n \in H
                 \/ h.child[Opp(d)][h.near[d][w.n]] = NULL /\ h.near[d][w.n] \in H
    <2>1. h.near[d][w.n] = w.v
        BY <1>5, <1>16, Fields
    <2>2. \/ d = "right" /\ w.n = a /\ w.v = s
          \/ d = "left" /\ w.n = s /\ w.v = a
          \/ s # r /\ d = "right" /\ w.n = s /\ w.v = b
          \/ s # r /\ d = "left" /\ w.n = b /\ w.v = s
        BY <1>1, <1>11, <1>12, <1>13, <1>16
    <2>3. CASE d = "right" /\ w.n = a /\ w.v = s
        BY <1>5, <1>7, <1>9, <2>3
    <2>4. CASE d = "left" /\ w.n = s /\ w.v = a
        BY <1>1, <1>5, <1>7, <1>9, <2>1, <2>4
    <2>5. CASE s # r /\ d = "right" /\ w.n = s /\ w.v = b
        BY <1>1, <1>5, <1>8, <1>9, <2>1, <2>5
    <2>6. CASE s # r /\ d = "left" /\ w.n = b /\ w.v = s
        BY <1>5, <1>8, <1>9, <2>6
    <2> QED
        BY <2>2, <2>3, <2>4, <2>5, <2>6
<1>17. n \in H /\ g.parent[n] \in H /\ \A d \in Side : Owns(g, H, d, n)
    BY <1>1, <1>3, <1>6, <1>9
<1>18. \A w \in W : \A d \in Side : w.f = SnapshotField(d) =>
          /\ Owns(g, H, d, w.n)
          /\ \/ w.n \in H
             \/ g.parent[g.near[d][w.n]] \in H /\ link[w.f][w.n] \in H \cup {w.v}
          /\ \/ h.child[d][w.n] = NULL /\ w.n \in H
             \/ h.child[Opp(d)][h.near[d][w.n]] = NULL /\ h.near[d][w.n] \in H
    <2> TAKE w \in W
    <2> TAKE d \in Side
    <2> HAVE w.f = SnapshotField(d)
    <2> QED
        BY <1>16
<1>19. \A w \in W : w.f \in TreeField =>
          w.n \in H /\ (g.parent[w.n] \in H \/ \E d \in Side : g.child[d][w.n] # NULL)
    BY <1>14
<1>20. \A w \in W : w.f = "parent" => link["parent"][w.n] \in H \cup {w.v}
    BY <1>15
<1> DEFINE m == reg[t].node
<1>21. /\ h \in Heap /\ Shape(h, Live \ {m}) /\ m \in H
       /\ g.parent[m] \in H /\ \A d \in Side : Owns(g, H, d, m)
    BY <1>5, <1>17
<1>22. /\ \A w \in W : w.n \in Live \ {m} /\ Final(h, w.f, w.n) = w.v
       /\ \A k \in Field : \A x \in Live \ {m} :
             Final(h, k, x) # Final(g, k, x) => \E w \in W : w.f = k /\ w.n = x
    BY <1>5
<1> QED
    BY <1>21, <1>22, <1>18, <1>19, <1>20, Zenon DEF Unlinking

\* The nodes around the node that remove has locked with its two children.
LEMMA AroundHeld ==
    ASSUME NEW g, Good(g), NEW t \in Thread, pc[t] \in NodePlaces,
           NEW r, r = reg[t], r.left # NULL, r.right # NULL,
           NEW s, s = g.near["right"][r.node], g.near["left"][r.node] = r.rightNode
    PROVE  LET f == IF r.leftChild THEN "left" ELSE "right"
           IN  Around(g, Live, f, r.node, r.parent, r.left, r.right, s, r.rightNode)
<1> DEFINE f == IF r.leftChild THEN "left" ELSE "right"
<1>1. f \in Side /\ g.child[f][r.parent] = r.node
    BY HangsOn
<1>2. /\ r.node \in Live \ {leftSentinel, rightSentinel} /\ g.parent[r.node] = r.parent
      /\ g.child["left"][r.node] = r.left /\ g.child["right"][r.node] = r.right /\ Shape(g, Live)
    BY NodeHeld DEF Base
<1> QED
    BY <1>1, <1>2 DEF Around, Good, HeapInv

\* A node is replaced by its right child, which is its successor (main.cpp:344-355).
LEMMA PromoteRightHeap ==
    ASSUME NEW g, Good(g), NEW t \in Thread, PromoteRight(t)
    PROVE  \E h : HeapInv(h)'
<1> DEFINE H == held[t]
           stores == PromoteRightStores(reg[t])
<1>1. pc[t] = "promoteRight" /\ pc[t] \in NodePlaces /\ Mark(t, "promoteRight", stores)
      /\ "promoteRight" \in NodePlaces
    BY DEF PromoteRight, Mark, NodePlaces, TwoPlaces, PredPlaces
<1>2. PICK r, n, p, l, s, a, f : /\ r = reg[t] /\ n = r.node /\ p = r.parent /\ l = r.left
                                 /\ s = r.right /\ a = r.rightNode
                                 /\ f = IF r.leftChild THEN "left" ELSE "right"
    OBVIOUS
<1>3. Knows(g, "promoteRight", op[t], r, H) /\ Shape(g, Live)
    BY <1>1, <1>2, NodeHeld
<1>4. /\ Base(g, op[t], r) /\ r.left # NULL /\ r.right # NULL
      /\ Neighbour(g, H, "left", n, a) /\ r.leftNode = s /\ g.child["left"][s] = NULL
    BY <1>2, <1>3, Places DEF PredKnown
<1>5. g.near["right"][n] = s
    <2>1. n \in Live /\ g.child["right"][n] = s /\ s # NULL
        BY <1>2, <1>4 DEF Base
    <2>2. g.child["left"][g.child["right"][n]] = NULL => g.near["right"][n] = g.child["right"][n]
        BY <1>3, <2>1, Successor
    <2> QED
        BY <1>4, <2>1, <2>2
<1>6. Around(g, Live, f, n, p, l, s, s, a)
    <2>1. g.near["left"][n] = a
        BY <1>4 DEF Neighbour
    <2> HIDE DEF H, stores
    <2> QED
        BY <1>1, <1>2, <1>4, <1>5, <2>1, AroundHeld
<1>7. {n, p, l, s, a} \subseteq H
    BY <1>1, <1>2, KnownHere, LockedTwo
<1>8. PendingStores(t)' = MoveStores(f, p, l, s, a)
    <2>1. PendingStores(t)' = Elements(stores)
        <3> HIDE DEF stores
        <3> QED
            BY <1>1, MarkPending
    <2>2. PICK u, v, w, x, y, z :
             /\ u = [f |-> "left", n |-> s, v |-> l] /\ v = [f |-> "parent", n |-> l, v |-> s]
             /\ w = [f |-> "parent", n |-> s, v |-> p] /\ x = [f |-> f, n |-> p, v |-> s]
             /\ y = [f |-> "rightSnapshot", n |-> a, v |-> s]
             /\ z = [f |-> "leftSnapshot", n |-> s, v |-> a]
        OBVIOUS
    <2>3. Elements(<<u, v, w, x>> \o <<y, z>>) = {u, v, w, x, y, z}
        <3>1. <<u, v, w, x>> \in Seq({u, v, w, x, y, z}) /\ <<y, z>> \in Seq({u, v, w, x, y, z})
            OBVIOUS
        <3>2. Elements(<<u, v, w, x>>) = {u, v, w, x} /\ Elements(<<y, z>>) = {y, z}
            BY ElementsOf, ElementsOfFour
        <3>3. Elements(<<u, v, w, x>> \o <<y, z>>) = Elements(<<u, v, w, x>>) \cup Elements(<<y, z>>)
            BY ZenonT(60), <3>1, ElementsOfBoth
        <3> QED
            BY <3>2, <3>3
    <2>4. stores = <<u, v, w, x>> \o <<y, z>>
        BY <1>2, <1>4, <2>2 DEF PromoteRightStores, Replace, Splice
    <2> QED
        BY <2>1, <2>2, <2>3, <2>4 DEF MoveStores
<1>9. PICK h, q, c, b, W : /\ h = Replaced(g, n, IF s = s THEN "right" ELSE "left")
                           /\ q = g.parent[s] /\ c = g.child["right"][s] /\ b = g.near["right"][s]
                           /\ W = MoveStores(f, p, l, s, a)
                                  \cup IF s = s THEN {} ELSE LeaveStores(s, s, q, c, b)
    OBVIOUS
<1>10. Unlinking(g, h, t, W)
    <2> HIDE DEF stores
    <2> QED
        <3>1. Moves(t, g, f, n, p, l, s, s, a, q, c, b, h, W)
            BY <1>2, <1>6, <1>7, <1>9 DEF Moves
        <3> QED
            BY <1>1, <3>1, UnlinkingTwo
<1>11. Unlinking(g, h, t, PendingStores(t)')
    <2>1. W = MoveStores(f, p, l, s, a)
        BY <1>9
    <2> QED
        BY <1>8, <1>10, <2>1
<1>12. HeapInv(h)'
    <2> HIDE DEF stores
    <2> QED
        BY <1>1, <1>11, PublishHeap
<1> QED
    BY <1>12

\* A node is replaced by a successor further down (main.cpp:420-434, 467-484).
LEMMA ApplyRemoveHeap ==
    ASSUME NEW g, Good(g), NEW t \in Thread, ApplyRemove(t)
    PROVE  \E h : HeapInv(h)'
<1> DEFINE H == held[t]
           stores == ApplyRemoveStores(reg[t])
<1>1. pc[t] = "applyRemove" /\ pc[t] \in NodePlaces /\ Mark(t, "applyRemove", stores)
      /\ "applyRemove" \in NodePlaces
    BY DEF ApplyRemove, Mark, NodePlaces, TwoPlaces, PredPlaces, DeepPlaces, SuccParentPlaces,
           SuccPlaces
<1>2. PICK rr, n, p, l, r, s, a, q, c, b, f :
         /\ rr = reg[t] /\ n = rr.node /\ p = rr.parent /\ l = rr.left /\ r = rr.right
         /\ s = rr.leftNode /\ a = rr.rightNode /\ q = rr.succParent /\ c = rr.succRight
         /\ b = rr.succRightSnapshot
         /\ f = IF rr.leftChild THEN "left" ELSE "right"
    OBVIOUS
<1>3. Knows(g, "applyRemove", op[t], rr, H) /\ Shape(g, Live)
    BY <1>1, <1>2, NodeHeld
<1>4. /\ Base(g, op[t], rr) /\ l # NULL /\ r # NULL
      /\ Neighbour(g, H, "left", n, a) /\ Neighbour(g, H, "right", n, s)
      /\ g.child["left"][r] # NULL /\ g.parent[s] = q /\ g.child["right"][s] = c
      /\ Neighbour(g, H, "right", s, b)
    BY <1>2, <1>3, Places DEF PredKnown, DeepKnown, SuccKnown
<1>5. Around(g, Live, f, n, p, l, r, s, a)
    <2>1. g.near["left"][n] = a /\ g.near["right"][n] = s
        BY <1>4 DEF Neighbour
    <2> HIDE DEF H, stores
    <2> QED
        BY <1>1, <1>2, <1>4, <2>1, AroundHeld
<1>6. s # r /\ g.near["right"][s] = b
    <2>1. g.child["left"][s] = NULL
        BY <1>5, AroundFacts
    <2> QED
        BY <1>4, <2>1 DEF Neighbour
<1>7. {n, p, l, r, a, q, s} \subseteq H /\ (c # NULL => c \in H)
    BY <1>1, <1>2, KnownHere, LockedTwo
<1>8. b \in H
    <2>1. c = NULL => b = q
        <3> HIDE DEF H, stores
        <3> QED
            BY <1>4, <1>5, <1>6, DeepFacts
    <2>2. c # NULL => b \in H
        BY <1>4 DEF Neighbour, Owns
    <2> QED
        BY <1>7, <2>1, <2>2
<1>9. PendingStores(t)' = MoveStores(f, p, l, s, a) \cup LeaveStores(s, r, q, c, b)
    <2>1. PendingStores(t)' = Elements(stores)
        <3> HIDE DEF stores
        <3> QED
            BY <1>1, MarkPending
    <2>2. PICK x1, x2, x3, x4, x5, x6, x7, x8, x9, y, z1, z2 :
             /\ x1 = [f |-> "right", n |-> s, v |-> r] /\ x2 = [f |-> "parent", n |-> r, v |-> s]
             /\ x3 = [f |-> "left", n |-> s, v |-> l] /\ x4 = [f |-> "parent", n |-> l, v |-> s]
             /\ x5 = [f |-> "parent", n |-> s, v |-> p] /\ x6 = [f |-> f, n |-> p, v |-> s]
             /\ x7 = [f |-> "left", n |-> q, v |-> c]
             /\ x8 = [f |-> "rightSnapshot", n |-> s, v |-> b]
             /\ x9 = [f |-> "leftSnapshot", n |-> b, v |-> s]
             /\ y = [f |-> "parent", n |-> c, v |-> q]
             /\ z1 = [f |-> "leftSnapshot", n |-> s, v |-> a]
             /\ z2 = [f |-> "rightSnapshot", n |-> a, v |-> s]
        OBVIOUS
    <2>3. PICK X, Y, Z : /\ X = <<x1, x2, x3, x4, x5, x6, x7, x8, x9>>
                         /\ Y = (IF c = NULL THEN << >> ELSE <<y>>)
                         /\ Z = <<z1, z2>>
        OBVIOUS
    <2>4. PICK all : all = {x1, x2, x3, x4, x5, x6, x7, x8, x9, y, z1, z2}
        OBVIOUS
    <2>5. X \in Seq(all) /\ Y \in Seq(all) /\ Z \in Seq(all)
        BY <2>3, <2>4
    <2>6. /\ Elements(X) = {x1, x2, x3, x4, x5, x6, x7, x8, x9}
          /\ Elements(Y) = (IF c = NULL THEN {} ELSE {y}) /\ Elements(Z) = {z1, z2}
        <3>1. Elements(X) = {x1, x2, x3, x4, x5, x6, x7, x8, x9}
            BY <2>3, ElementsOfNine
        <3> QED
            BY <2>3, <3>1, ElementsOf
    <2>7. Elements((X \o Y) \o Z) = Elements(X) \cup Elements(Y) \cup Elements(Z)
        <3>1. PICK T : T = X \o Y
            OBVIOUS
        <3>2. Elements(T) = Elements(X) \cup Elements(Y) /\ T \in Seq(all)
            BY <2>5, <3>1, ElementsOfBoth
        <3>3. Elements(T \o Z) = Elements(T) \cup Elements(Z)
            BY <2>5, <3>2, ElementsOfBoth
        <3> QED
            BY <3>1, <3>2, <3>3
    <2>8. stores = (X \o Y) \o Z
        BY <1>2, <2>2, <2>3 DEF ApplyRemoveStores, Replace
    <2>9. MoveStores(f, p, l, s, a) = {x3, x4, x5, x6, z2, z1}
        BY <2>2 DEF MoveStores
    <2>10. LeaveStores(s, r, q, c, b) = {x1, x2, x7, x8, x9} \cup IF c = NULL THEN {} ELSE {y}
        BY <2>2 DEF LeaveStores
    <2> QED
        BY <2>1, <2>6, <2>7, <2>8, <2>9, <2>10
<1>10. PICK h, W : /\ h = Replaced(g, n, IF s = r THEN "right" ELSE "left")
                   /\ W = MoveStores(f, p, l, s, a)
                          \cup IF s = r THEN {} ELSE LeaveStores(s, r, q, c, b)
    OBVIOUS
<1>11. Unlinking(g, h, t, W)
    <2> HIDE DEF stores
    <2> QED
        <3>1. Moves(t, g, f, n, p, l, r, s, a, q, c, b, h, W)
            BY <1>2, <1>4, <1>5, <1>6, <1>7, <1>8, <1>10 DEF Moves
        <3> QED
            BY <1>1, <3>1, UnlinkingTwo
<1>12. Unlinking(g, h, t, PendingStores(t)')
    <2>1. W = MoveStores(f, p, l, s, a) \cup LeaveStores(s, r, q, c, b)
        BY <1>6, <1>10
    <2> QED
        BY <1>9, <1>11, <2>1
<1>13. HeapInv(h)'
    <2> HIDE DEF stores
    <2> QED
        BY <1>1, <1>12, PublishHeap
<1> QED
    BY <1>13

-----------------------------------------------------------------------------
(* A node is constructed, and the stores that publish it become pending *)

\* t has made the node m for the gap on side e of n, its node, where the
\* neighbour is a.
Placing(g, t, e, n, a, m) ==
    /\ n = reg[t].node /\ n \in held[t] /\ n \in Live \ {End(e)} /\ n # NULL /\ n \in Shown
    /\ todo[t] = << >> /\ pc[t] = "addSnapshot" /\ pc'[t] = "store" /\ op[t] \in S!Op /\ op[t].type = "add"
    /\ g.child[e][n] = NULL /\ g.near[e][n] = a /\ a \in Live /\ a \in Seen
    /\ m \in Node \ alloc /\ value[m] = op[t].key /\ Beside(e, a, m) /\ Beside(e, m, n)
    /\ held' = held /\ op' = op /\ reg' = reg /\ marked' = marked
    /\ alloc' = alloc \cup {m} /\ Live' = Live \cup {m}
    /\ todo'[t] = AddList(e, n, a, m)
    /\ \A u \in Thread \ {t} : todo'[u] = todo[u] /\ pc'[u] = pc[u]
    /\ \A f \in Field : \A x \in Ptr \ {m} : link'[f][x] = link[f][x]
    /\ link'["parent"][m] = n /\ link'[SnapshotField(e)][m] = a
    /\ link'[SnapshotField(Opp(e))][m] = n
    /\ \A d \in Side : link'[d][m] = NULL

\* What the construction of a node does to the variables (main.cpp:143-150).
LEMMA PlacingEffect ==
    ASSUME NEW g, Good(g), NEW t \in Thread, AddSnapshot(t),
           ~Outside(reg[t].node, op[t].key, Snapshot(reg[t].node, op[t].key)), pc'[t] # "walk"
    PROVE  \E e \in Side : \E a, m : Placing(g, t, e, reg[t].node, a, m)
<1> DEFINE n == reg[t].node
           k == op[t].key
<1>1. PICK e, a, m : e = SideOf(n, k) /\ a = Snapshot(n, k) /\ m = Fresh(k)
    OBVIOUS
<1>2. /\ pc[t] = "addSnapshot" /\ todo[t] = << >> /\ n \in held[t] /\ n \in Shown /\ Shown \subseteq Seen
      /\ Knows(g, "addSnapshot", op[t], reg[t], held[t]) /\ LinksShown
    BY KnownHere, LockedPair DEF AddSnapshot, LocalsShown
<1>3. /\ op[t] \in S!Op /\ op[t].type = "add" /\ n # NULL /\ k # value[n]
      /\ n \in Live /\ g.child[e][n] = NULL /\ e \in Side /\ k \in Key
    BY <1>1, <1>2 DEF Knows, Calling, NearNode, SideOf, Side, S!Op
<1>4. /\ link \in [Field -> [Ptr -> Ptr]] /\ todo \in [Thread -> Seq(Store)] /\ reg \in [Thread -> Locals]
      /\ pc \in [Thread -> Location] /\ alloc \subseteq Node
    BY DEF Good, TypeOK
<1>5. /\ n \in Node /\ value[n] \in Int /\ k \in Int /\ value[rightSentinel] < k
      /\ k < value[leftSentinel]
    BY <1>3, <1>4, NodeAssumption DEF Live
<1>6. n # End(e)
    BY <1>1, <1>3, <1>5 DEF SideOf, End
<1>7. a = link[SnapshotField(e)][n] /\ g.near[e][n] = a /\ a \in Live /\ a \in Seen
    <2>1. a = link[SnapshotField(e)][n]
        BY <1>1 DEF Snapshot, SideOf, SnapshotField, LeftSnapshot, RightSnapshot
    <2>2. Owns(g, held[t], e, n)
        BY <1>2, <1>3, <1>6 DEF Owns
    <2>3. g.near[e][n] = a
        BY <1>2, <1>3, <2>1, <2>2, SnapshotAgrees
    <2>4. a \in Live
        BY <1>3, <1>6, <2>3, LiveFacts
    <2>5. link["leftSnapshot"][n] \in Seen /\ link["rightSnapshot"][n] \in Seen
        BY <1>2, <1>3, ReadShown
    <2> QED
        BY <2>1, <2>3, <2>4, <2>5 DEF SnapshotField
<1>8. /\ Construct(m, n, a) /\ \E x \in Node \ alloc : value[x] = k
      /\ todo' = [todo EXCEPT ![t] = AddStores(n, a, m)]
      /\ pc' = [pc EXCEPT ![t] = "store"] /\ reg' = reg /\ op' = op
      /\ held' = held /\ marked' = marked
    <2>1. CASE /\ Outside(n, k, a) /\ Retry(t)
        BY <1>4, <2>1 DEF Retry, Goto
    <2>2. CASE /\ ~Outside(n, k, a) /\ \E x \in Node \ alloc : value[x] = k
               /\ Construct(Fresh(k), n, a)
               /\ todo' = [todo EXCEPT ![t] = AddStores(n, a, Fresh(k))]
               /\ Proceed(t, "store", reg[t]) /\ UNCHANGED held /\ UNCHANGED <<marked, leaked>>
        BY <1>1, <1>4, <2>2 DEF Proceed, Goto
    <2> QED
        BY <1>1, <2>1, <2>2 DEF AddSnapshot
<1>9. m \in Node \ alloc /\ value[m] = k /\ m # n
    <2>1. m = CHOOSE x \in Node \ alloc : value[x] = k
        BY <1>1 DEF Fresh
    <2> QED
        BY <1>3, <1>8, <2>1 DEF Live
<1>10. Beside(e, a, m) /\ Beside(e, m, n)
    <2>1. ~Outside(n, k, a) /\ value[a] \in Int
        BY <1>1, <1>7, <1>4, NodeAssumption DEF Live
    <2>2. k < value[n] => e = "left" /\ value[a] < k
        BY <1>1, <1>5, <2>1 DEF Outside, SideOf
    <2>3. ~(k < value[n]) => e = "right" /\ k < value[a] /\ value[n] < k
        BY <1>1, <1>3, <1>5, <2>1 DEF Outside, SideOf
    <2> QED
        BY <1>9, <2>2, <2>3 DEF Beside
<1>11. alloc' = alloc \cup {m} /\ Live' = Live \cup {m} /\ m \in Ptr
    BY <1>2, <1>8, <1>9 DEF Construct, Live, LinksShown, Ptr
<1>12. todo'[t] = AddList(e, n, a, m)
    <2>1. k < value[n] => todo'[t] = << [f |-> "rightSnapshot", n |-> a, v |-> m],
                [f |-> "leftSnapshot",  n |-> n,      v |-> m], [f |-> "left", n |-> n, v |-> m] >>
        BY <1>4, <1>8, <1>9 DEF AddStores
    <2>2. ~(k < value[n]) => todo'[t] = << [f |-> "leftSnapshot", n |-> a, v |-> m],
                [f |-> "rightSnapshot",  n |-> n,      v |-> m], [f |-> "right", n |-> n, v |-> m] >>
        BY <1>4, <1>8, <1>9 DEF AddStores
    <2> QED
        BY <1>1, <2>1, <2>2 DEF AddList, SideOf, SnapshotField, Opp
<1>13. /\ \A f \in Field : \A x \in Ptr \ {m} : link'[f][x] = link[f][x]
       /\ link'["parent"][m] = n
       /\ link'["leftSnapshot"][m] = (IF value[m] > value[n] THEN n ELSE a)
       /\ link'["rightSnapshot"][m] = (IF value[m] > value[n] THEN a ELSE n)
       /\ link'["left"][m] = link["left"][m] /\ link'["right"][m] = link["right"][m]
    BY <1>4, <1>8, <1>11 DEF Construct, Field
<1>14. link'[SnapshotField(e)][m] = a /\ link'[SnapshotField(Opp(e))][m] = n
    <2>1. value[m] > value[n] <=> ~(k < value[n])
        BY <1>3, <1>5, <1>9
    <2> QED
        BY <1>1, <1>13, <2>1 DEF SideOf, SnapshotField, Opp
<1>15. \A d \in Side : link'[d][m] = NULL
    BY <1>2, <1>9, <1>13 DEF LinksShown, Side
<1>16. \A u \in Thread \ {t} : todo'[u] = todo[u] /\ pc'[u] = pc[u]
    BY <1>4, <1>8
<1>17. pc'[t] = "store"
    BY <1>4, <1>8
<1> QED
    <2>1. Placing(g, t, e, n, a, m)
        BY <1>2, <1>3, <1>6, <1>7, <1>8, <1>9, <1>10, <1>11, <1>12, <1>13, <1>14, <1>15, <1>16, <1>17
           DEF Placing
    <2> QED
        BY <1>3, <2>1

\* What the heap with the new node is, and how it differs from g.
Placed(g, h, e, n, a, m) ==
    /\ h \in Heap /\ Shape(h, Live \cup {m})
    /\ \A d \in Side : \A x \in Live :
          /\ h.child[d][x] = IF d = e /\ x = n THEN m ELSE g.child[d][x]
          /\ d = e /\ x = n => h.near[d][x] = m
          /\ d # e /\ x = a => h.near[d][x] = m
          /\ ~(d = e /\ x = n) /\ ~(d # e /\ x = a) => h.near[d][x] = g.near[d][x]
    /\ \A x \in Live : h.parent[x] = g.parent[x]
    /\ h.parent[m] = n /\ \A d \in Side : h.child[d][m] = NULL
    /\ h.near[e][m] = a /\ h.near[Opp(e)][m] = n
    /\ m \notin Live /\ m # NULL /\ m \in Ptr
    /\ \A u \in Thread : Adding(u) => New(u) # m

\* The heap with the new node is in order.
LEMMA PlacedShape ==
    ASSUME NEW g, Good(g), NEW t \in Thread, NEW e \in Side, NEW n, NEW a, NEW m,
           Placing(g, t, e, n, a, m), NEW h, h = Hanging(g, e, n, m)
    PROVE  Placed(g, h, e, n, a, m)
<1>1. /\ g \in Heap /\ Shape(g, Live) /\ n \in Live \ {End(e)} /\ m \in Node \ Live
      /\ g.child[e][n] = NULL /\ Beside(e, g.near[e][n], m) /\ Beside(e, m, n)
      /\ Live \subseteq Ptr /\ m # NULL /\ m \in Ptr /\ a = g.near[e][n]
    BY LiveFacts DEF Placing, Good, HeapInv, Live, Ptr
<1>2. h \in Heap /\ Shape(h, Live \cup {m})
    BY <1>1, HangingShape
<1>3. /\ \A d \in Side : \A x \in Ptr \ {m} :
            /\ h.child[d][x] = IF d = e /\ x = n THEN m ELSE g.child[d][x]
            /\ h.near[d][x] = IF x = IF d = e THEN n ELSE a THEN m ELSE g.near[d][x]
      /\ \A x \in Ptr \ {m} : h.parent[x] = g.parent[x]
      /\ h.parent[m] = n /\ \A d \in Side : h.child[d][m] = NULL
      /\ \A d \in Side : h.near[d][m] = IF d = e THEN a ELSE n
    BY <1>1 DEF Hanging
<1>4. \A u \in Thread : Adding(u) => New(u) # m
    BY <1>1, NewNode
<1>5. Live \subseteq Ptr \ {m}
    BY <1>1
<1> QED
    BY <1>1, <1>2, <1>3, <1>4, <1>5, Sides DEF Placed

\* The gap is t's, seen from either side.
LEMMA GapMine ==
    ASSUME NEW g, Good(g), NEW t \in Thread, NEW e \in Side, NEW n, NEW a, NEW m,
           Placing(g, t, e, n, a, m)
    PROVE  /\ Owns(g, held[t], e, n) /\ Owns(g, held[t], Opp(e), a) /\ g.near[Opp(e)][a] = n
           /\ a # End(Opp(e)) /\ a \in Live /\ link[SnapshotField(Opp(e))][a] = n
<1>1. Owns(g, held[t], e, n)
    BY DEF Placing, Owns
<1>2. g.near[e][n] = a /\ n \in Shown /\ todo[t] = << >> /\ a \in Live
    BY DEF Placing
<1>3. Owns(g, held[t], Opp(e), g.near[e][n]) /\ g.near[Opp(e)][g.near[e][n]] = n
    BY <1>1, OwnsBack
<1>4. Opp(e) \in Side
    BY Sides
<1>5. Owns(g, held[t], Opp(e), a) /\ g.near[Opp(e)][a] = n
    BY <1>2, <1>3
<1>6. link[SnapshotField(Opp(e))][a] = n
    BY <1>2, <1>4, <1>5, SnapshotAgrees
<1>7. a # End(Opp(e))
    BY <1>5 DEF Owns
<1> QED
    BY <1>1, <1>2, <1>5, <1>6, <1>7

\* What another thread has locked, and its stores, are elsewhere.
LEMMA PlacedElsewhere ==
    ASSUME NEW g, Good(g), NEW t \in Thread, NEW e \in Side, NEW n, NEW a, NEW m,
           Placing(g, t, e, n, a, m), NEW h, h = Hanging(g, e, n, m), NEW u \in Thread \ {t}
    PROVE  /\ \A x \in held[u] \cap Live :
                 /\ x \in Live' /\ h.parent[x] = g.parent[x]
                 /\ \A d \in Side : h.child[d][x] = g.child[d][x]
           /\ \A d \in Side : \A y : Owns(g, held[u], d, y) =>
                 Owns(h, held[u], d, y)' /\ h.near[d][y] = g.near[d][y]
           /\ Adding(u) =>
                 /\ New(u) \in Live' /\ h.parent[New(u)] = g.parent[New(u)]
                 /\ \A d \in Side : h.child[d][New(u)] = g.child[d][New(u)]
           /\ \A v \in PendingStores(u) :
                 ~(v.f = SnapshotField(Opp(e)) /\ v.n = a) /\ ~(v.f = SnapshotField(e) /\ v.n = n)
                 /\ ~(v.f = e /\ v.n = n)
<1>1. /\ \A d \in Side : \A x \in Live :
            /\ h.child[d][x] = IF d = e /\ x = n THEN m ELSE g.child[d][x]
            /\ ~(d = e /\ x = n) /\ ~(d # e /\ x = a) => h.near[d][x] = g.near[d][x]
      /\ \A x \in Live : h.parent[x] = g.parent[x]
    <2>1. Placed(g, h, e, n, a, m)
        BY PlacedShape
    <2> QED
        BY <2>1 DEF Placed
<1>2. n \in held[t] /\ n \in Shown /\ held' = held /\ Live' = Live \cup {m} /\ g.near[e][n] = a
    BY DEF Placing
<1>3. n \notin held[u]
    BY <1>2 DEF Good, LockInv, LocksHeld
<1>4. /\ Owns(g, held[t], e, n) /\ Owns(g, held[t], Opp(e), a) /\ g.near[Opp(e)][a] = n
      /\ Opp(e) \in Side /\ Opp(e) # e /\ \A d \in Side : d # e => d = Opp(e)
    BY GapMine, Sides
<1>5. ASSUME NEW x \in held[u] \cap Live
      PROVE  /\ x \in Live' /\ h.parent[x] = g.parent[x]
             /\ \A d \in Side : h.child[d][x] = g.child[d][x]
    BY <1>1, <1>2, <1>3
<1>6. ASSUME NEW d \in Side, NEW y, Owns(g, held[u], d, y)
      PROVE  Owns(h, held[u], d, y)' /\ h.near[d][y] = g.near[d][y]
    <2>1. y \in Live \ {End(d)} /\ g.near[d][y] \in Live
        BY <1>6, LiveFacts DEF Owns
    <2>2. ~(d = e /\ y = n) /\ ~(d # e /\ y = a)
        BY <1>4, <1>6, OneOwner
    <2>3. h.near[d][y] = g.near[d][y]
        BY <1>1, <2>1, <2>2
    <2>4. CASE g.child[d][y] = NULL /\ y \in held[u]
        <3>1. h.child[d][y] = NULL
            BY <1>5, <2>1, <2>4
        <3>2. y \in Live' \ {End(d)} /\ y \in held'[u]
            BY <1>2, <2>1, <2>4
        <3> QED
            BY <2>3, <3>1, <3>2 DEF Owns
    <2>5. CASE g.child[Opp(d)][g.near[d][y]] = NULL /\ g.near[d][y] \in held[u]
        <3>1. h.child[Opp(d)][g.near[d][y]] = NULL
            BY <1>5, <2>1, <2>5, Sides
        <3> QED
            BY <1>2, <2>1, <2>3, <2>5, <3>1 DEF Owns
    <2> QED
        BY <1>6, <2>3, <2>4, <2>5 DEF Owns
<1>7. ASSUME Adding(u)
      PROVE  /\ New(u) \in Live' /\ h.parent[New(u)] = g.parent[New(u)]
             /\ \A d \in Side : h.child[d][New(u)] = g.child[d][New(u)]
    <2>1. New(u) # n /\ New(u) \in Live
        BY <1>2, <1>7, NewNode DEF Shown
    <2> QED
        BY <1>1, <1>2, <2>1
<1>8. ASSUME NEW v \in PendingStores(u)
      PROVE  ~(v.f = SnapshotField(Opp(e)) /\ v.n = a) /\ ~(v.f = SnapshotField(e) /\ v.n = n)
             /\ ~(v.f = e /\ v.n = n)
    <2>1. ~(v.f = e /\ v.n = n)
        BY <1>3, Pending, Fields
    <2>2. ~(v.f = SnapshotField(e) /\ v.n = n)
        BY <1>3, <1>4, AcrossMine
    <2>3. ASSUME v.f = SnapshotField(Opp(e)), v.n = a PROVE FALSE
        <3>1. Owns(g, held[t], Opp(e), v.n)
            BY <1>4, <2>3
        <3>2. Adding(u) /\ g.near[Opp(e)][v.n] = New(u)
            BY <1>4, <2>3, <3>1, AcrossMine
        <3> QED
            BY <1>2, <1>4, <2>3, <3>2 DEF Shown
    <2> QED
        BY <2>1, <2>2, <2>3
<1> QED
    BY <1>5, <1>6, <1>7, <1>8

\* What a thread that does nothing knows, when what it has locked is as before.
LEMMA KnowsStill ==
    ASSUME NEW g, Good(g), NEW h, NEW u \in Thread,
           \A x \in alloc \cup {NULL} : link'["parent"][x] = link["parent"][x],
           \A x \in held[u] \cap Live :
              /\ x \in Live' /\ h.parent[x] = g.parent[x]
              /\ \A d \in Side : h.child[d][x] = g.child[d][x],
           \A e \in Side : \A y : Owns(g, held[u], e, y) =>
              Owns(h, held[u], e, y)' /\ h.near[e][y] = g.near[e][y],
           pc'[u] = pc[u], op' = op, reg' = reg, held' = held
    PROVE  Knows(h, pc[u], op[u], reg[u], held[u])'
<1>1. PICK k, c, r, J : k = pc[u] /\ c = op[u] /\ r = reg[u] /\ J = held[u]
    OBVIOUS
<1>2. Knows(g, k, c, r, J)
    BY <1>1, KnownHere
<1>3. k = pc'[u] /\ c = op'[u] /\ r = reg'[u] /\ J = held'[u]
    BY <1>1
<1>4. Knows(h, k, c, r, J)'
    BY <1>1, <1>2, <1>3, KnowsThrough
<1> QED
    BY <1>3, <1>4

\* Constructing a node and making its publication pending keeps the invariant, with that heap.
LEMMA PlacedHeap ==
    ASSUME NEW g, Good(g), NEW t \in Thread, NEW e \in Side, NEW n, NEW a, NEW m,
           Placing(g, t, e, n, a, m), NEW h, h = Hanging(g, e, n, m)
    PROVE  HeapInv(h)'
<1> DEFINE o == Opp(e)
           H == held[t]
<1>1. /\ h \in Heap /\ Shape(h, Live \cup {m})
      /\ \A d \in Side : \A x \in Live :
            /\ h.child[d][x] = IF d = e /\ x = n THEN m ELSE g.child[d][x]
            /\ d = e /\ x = n => h.near[d][x] = m
            /\ d # e /\ x = a => h.near[d][x] = m
            /\ ~(d = e /\ x = n) /\ ~(d # e /\ x = a) => h.near[d][x] = g.near[d][x]
      /\ \A x \in Live : h.parent[x] = g.parent[x]
      /\ h.parent[m] = n /\ \A d \in Side : h.child[d][m] = NULL
      /\ h.near[e][m] = a /\ h.near[o][m] = n
      /\ m \notin Live /\ m # NULL /\ m \in Ptr
      /\ \A u \in Thread : Adding(u) => New(u) # m
    <2>1. Placed(g, h, e, n, a, m)
        BY PlacedShape
    <2> QED
        BY <2>1 DEF Placed
<1>2. /\ n = reg[t].node /\ n \in H /\ n \in Live \ {End(e)} /\ n # NULL /\ n \in Shown
      /\ todo[t] = << >> /\ pc[t] = "addSnapshot" /\ pc'[t] = "store" /\ op[t] \in S!Op /\ op[t].type = "add"
      /\ a \in Live /\ a \in Seen /\ m \in Node \ alloc
      /\ held' = held /\ op' = op /\ reg' = reg /\ marked' = marked
      /\ alloc' = alloc \cup {m} /\ Live' = Live \cup {m}
      /\ \A u \in Thread \ {t} : todo'[u] = todo[u] /\ pc'[u] = pc[u]
      /\ \A f \in Field : \A x \in Ptr \ {m} : link'[f][x] = link[f][x]
      /\ link'["parent"][m] = n /\ link'[SnapshotField(e)][m] = a
      /\ link'[SnapshotField(o)][m] = n
      /\ \A d \in Side : link'[d][m] = NULL
    BY DEF Placing
<1>3. todo'[t] = AddList(e, n, a, m)
    BY DEF Placing
<1>4. /\ o \in Side /\ o # e /\ Opp(o) = e /\ \A d \in Side : d = e \/ d = o
      /\ SnapshotField(o) # SnapshotField(e) /\ SnapshotField(o) # e /\ SnapshotField(e) # e
      /\ SnapshotField(o) # "parent" /\ SnapshotField(e) # "parent" /\ e # "parent"
      /\ e \in Field /\ SnapshotField(e) \in Field /\ SnapshotField(o) \in Field
      /\ \A f \in Field : f \in Side \/ f = "parent" \/ f = SnapshotField(e) \/ f = SnapshotField(o)
    BY DEF Side, Opp, SnapshotField, Field
<1>5. /\ a # End(o) /\ g.near[o][a] = n /\ link[SnapshotField(o)][a] = n
    BY GapMine
<1>6. /\ Live \subseteq alloc /\ alloc \subseteq Ptr \ {m} /\ NULL \in Ptr \ {m}
      /\ {leftSentinel, rightSentinel} \subseteq Live
    BY <1>1, <1>2, LiveFacts DEF Ptr
<1>7. PICK w1, w2, w3 : /\ w1 = [f |-> SnapshotField(o), n |-> a, v |-> m]
                        /\ w2 = [f |-> SnapshotField(e), n |-> n, v |-> m]
                        /\ w3 = [f |-> e, n |-> n, v |-> m]
    OBVIOUS
<1>8. /\ PendingStores(t) = {} /\ PendingStores(t)' = {w1, w2, w3}
      /\ Len(todo[t])' = 3 /\ New(t)' = m /\ Adding(t)' /\ ~Adding(t)
    <2>1. PICK q : q = <<w1, w2, w3>>
        OBVIOUS
    <2>2. todo'[t] = q
        BY <1>3, <1>7, <2>1 DEF AddList
    <2>3. Len(q) = 3 /\ q[3] = w3 /\ q[1] = w1 /\ q[2] = w2 /\ DOMAIN q = {1, 2, 3}
        BY <2>1
    <2>4. PendingStores(t)' = {w1, w2, w3}
        BY <2>2, <2>3 DEF PendingStores
    <2>5. ~Adding(t)
        BY <1>2 DEF Adding
    <2> QED
        BY <1>2, <1>7, <2>2, <2>3, <2>4, <2>5, NonePending DEF New, Adding
<1>9. \A u \in Thread \ {t} : /\ PendingStores(u)' = PendingStores(u) /\ New(u)' = New(u)
                              /\ Adding(u)' <=> Adding(u)
    BY <1>2 DEF PendingStores, New, Adding
<1>10. Shown' = Shown
    BY <1>1, <1>2, <1>6, <1>8, <1>9 DEF Shown
<1>11. Seen' = Seen
    BY <1>1, <1>2, <1>6, <1>8, <1>9 DEF Seen
<1>12. ASSUME NEW u \in Thread \ {t}
       PROVE  /\ \A x \in held[u] \cap Live :
                    /\ x \in Live' /\ h.parent[x] = g.parent[x]
                    /\ \A d \in Side : h.child[d][x] = g.child[d][x]
              /\ \A d \in Side : \A y : Owns(g, held[u], d, y) =>
                    Owns(h, held[u], d, y)' /\ h.near[d][y] = g.near[d][y]
              /\ Adding(u) =>
                    /\ New(u) \in Live' /\ h.parent[New(u)] = g.parent[New(u)]
                    /\ \A d \in Side : h.child[d][New(u)] = g.child[d][New(u)]
    BY PlacedElsewhere
<1>13. ASSUME NEW u \in Thread \ {t}, NEW v \in PendingStores(u)
       PROVE  \A w \in {w1, w2, w3} : v.f # w.f \/ v.n # w.n
    <2>1. /\ ~(v.f = SnapshotField(o) /\ v.n = a) /\ ~(v.f = SnapshotField(e) /\ v.n = n)
          /\ ~(v.f = e /\ v.n = n)
        BY PlacedElsewhere
    <2> QED
        BY <1>7, <2>1
<1>14. ASSUME NEW f \in Field, NEW x \in Live, Final(h, f, x) # Final(g, f, x)
       PROVE  \E w \in {w1, w2, w3} : w.f = f /\ w.n = x
    <2>1. CASE f \in Side
        BY <1>1, <1>7, <1>14, <2>1, Fields
    <2>2. CASE f = "parent"
        BY <1>1, <1>14, <2>2, Fields
    <2>3. CASE f = SnapshotField(e)
        BY <1>1, <1>4, <1>7, <1>14, <2>3, Fields
    <2>4. CASE f = SnapshotField(o)
        BY <1>1, <1>4, <1>7, <1>14, <2>4, Fields
    <2> QED
        BY <1>4, <2>1, <2>2, <2>3, <2>4
<1>15. \A w \in {w1, w2, w3} : w.n \in Live /\ Final(h, w.f, w.n) = w.v
    <2>1. Final(h, SnapshotField(o), a) = m
        BY <1>1, <1>2, <1>4, Fields
    <2>2. Final(h, SnapshotField(e), n) = m /\ Final(h, e, n) = m
        BY <1>1, <1>2, <1>4, Fields
    <2> QED
        BY <1>2, <1>7, <2>1, <2>2
<1>16. \A f \in Field : link'[f][m] = Final(h, f, m)
    <2> SUFFICES ASSUME NEW f \in Field PROVE link'[f][m] = Final(h, f, m)
        OBVIOUS
    <2>1. CASE f \in Side
        BY <1>1, <1>2, <2>1, Fields
    <2>2. CASE f = "parent"
        BY <1>1, <1>2, <2>2, Fields
    <2>3. CASE f = SnapshotField(e)
        BY <1>1, <1>2, <2>3, Fields
    <2>4. CASE f = SnapshotField(o)
        BY <1>1, <1>2, <1>4, <2>4, Fields
    <2> QED
        BY <1>4, <2>1, <2>2, <2>3, <2>4
<1>17. ASSUME NEW u \in Thread \ {t}, NEW v \in PendingStores(u)
       PROVE  v.n \in Live /\ Final(h, v.f, v.n) = v.v /\ v.f \in Field
    <2>1. v.n \in Live /\ v.f \in Field /\ Final(g, v.f, v.n) = v.v
        BY Pending DEF Store
    <2>2. Final(h, v.f, v.n) = Final(g, v.f, v.n)
        BY <1>13, <1>14, <2>1
    <2> QED
        BY <2>1, <2>2
<1>18. Settles(h)'
    <2>1. \A u \in Thread : \A w \in PendingStores(u)' : w.n \in Live' /\ Final(h, w.f, w.n) = w.v
        BY <1>2, <1>8, <1>9, <1>15, <1>17
    <2>2. ASSUME NEW f \in Field, NEW x \in Live', link'[f][x] # Final(h, f, x)
          PROVE  \E u \in Thread : \E w \in PendingStores(u)' : w.f = f /\ w.n = x
        <3>1. x \in Live /\ x \in Ptr \ {m}
            BY <1>2, <1>6, <1>16, <2>2
        <3>2. CASE Final(h, f, x) # Final(g, f, x)
            BY <1>8, <1>14, <3>1, <3>2
        <3>3. CASE Final(h, f, x) = Final(g, f, x)
            <4>1. link[f][x] # Final(g, f, x)
                BY <1>2, <2>2, <3>1, <3>3
            <4>2. PICK u \in Thread : \E w \in PendingStores(u) : w.f = f /\ w.n = x
                BY <3>1, <4>1 DEF Good, HeapInv, Settles
            <4> QED
                BY <1>8, <1>9, <4>2
        <3> QED
            BY <3>2, <3>3
    <2> QED
        BY <2>1, <2>2 DEF Settles
<1>19. NoStoreRace'
    <2> SUFFICES ASSUME NEW u \in Thread, NEW v \in Thread, u # v,
                        NEW x \in PendingStores(u)', NEW y \in PendingStores(v)'
                 PROVE  <<x.f, x.n>> # <<y.f, y.n>>
        BY DEF NoStoreRace
    <2>1. CASE u # t /\ v # t
        BY <1>9, <2>1 DEF Good, HeapInv, NoStoreRace
    <2>2. CASE u = t
        BY <1>8, <1>9, <1>13, <2>2
    <2>3. CASE v = t
        BY <1>8, <1>9, <1>13, <2>3
    <2> QED
        BY <2>1, <2>2, <2>3
<1>20. GapsOwned(h)'
    <2> SUFFICES ASSUME NEW u \in Thread, NEW w \in PendingStores(u)', NEW d \in Side,
                        w.f = SnapshotField(d)
                 PROVE  /\ w.n # End(d)
                        /\ Owns(h, held[u], d, w.n)'
                           \/ (Adding(u)' /\ (w.n \in held'[u] \/ Len(todo'[u]) = 3))
        BY DEF GapsOwned
    <2>1. CASE u = t
        <3>1. w \in {w1, w2, w3} /\ \A c, b \in Side : SnapshotField(c) = SnapshotField(b) => c = b
            BY <1>8, <2>1, Fields
        <3>2. w.f # e
            BY <1>4, Fields
        <3>3. w.n # End(d)
            BY <1>2, <1>4, <1>5, <1>7, <3>1, <3>2
        <3> QED
            BY <1>8, <2>1, <3>3
    <2>2. CASE u # t
        <3>1. w \in PendingStores(u) /\ held'[u] = held[u] /\ todo'[u] = todo[u]
            BY <1>2, <1>9, <2>2
        <3>2. /\ w.n # End(d)
              /\ Owns(g, held[u], d, w.n)
                 \/ (Adding(u) /\ (w.n \in held[u] \/ Len(todo[u]) = 3))
            BY <3>1 DEF Good, HeapInv, GapsOwned
        <3>3. Owns(g, held[u], d, w.n) => Owns(h, held[u], d, w.n)'
            BY <1>12, <2>2
        <3> QED
            BY <1>9, <2>2, <3>1, <3>2, <3>3
    <2> QED
        BY <2>1, <2>2
<1>21. OldHeld'
    <2> SUFFICES ASSUME NEW u \in Thread, NEW w \in PendingStores(u)'
                 PROVE  /\ w.f \in {"leftSnapshot", "rightSnapshot"} =>
                             w.n \in held[u] \/ link'[w.f][w.n] \in held[u] \cup {w.v}
                        /\ w.f = "parent" => link'["parent"][w.n] \in held[u] \cup {w.v}
        BY <1>2 DEF OldHeld
    <2>1. CASE u = t
        <3>1. link'[SnapshotField(o)][a] = n
            BY <1>2, <1>4, <1>5, <1>6
        <3> QED
            BY <1>2, <1>4, <1>7, <1>8, <2>1, <3>1
    <2>2. CASE u # t
        <3>1. w \in PendingStores(u)
            BY <1>9, <2>2
        <3>2. /\ w.f \in {"leftSnapshot", "rightSnapshot"} =>
                    w.n \in held[u] \/ link[w.f][w.n] \in held[u] \cup {w.v}
              /\ w.f = "parent" => link["parent"][w.n] \in held[u] \cup {w.v}
            BY <3>1 DEF Good, HeapInv, OldHeld
        <3>3. link'[w.f][w.n] = link[w.f][w.n]
            BY <1>2, <1>6, <1>17, <2>2, <3>1
        <3> QED
            BY <3>2, <3>3
    <2> QED
        BY <2>1, <2>2
<1>22. LinksShown'
    <2>1. LinksShown /\ NULL \in Shown /\ Shown \subseteq Seen
        BY KnownHere
    <2>2. \A x \in alloc \cup (Node \ alloc') : \A f \in Field : link'[f][x] = link[f][x]
        BY <1>2, <1>6 DEF Ptr
    <2>3. TreeField \subseteq Field /\ {"leftSnapshot", "rightSnapshot"} \subseteq Field
          /\ \A f \in TreeField : f \in Side \/ f = "parent"
        BY DEF TreeField, Field, Side
    <2>4. \A x \in alloc' : \A f \in TreeField : link'[f][x] \in Shown'
        <3>1. \A x \in alloc : \A f \in TreeField : link'[f][x] \in Shown'
            BY <1>10, <2>1, <2>2, <2>3 DEF LinksShown
        <3>2. \A f \in TreeField : link'[f][m] \in Shown'
            BY <1>2, <1>10, <2>1, <2>3
        <3> QED
            BY <1>2, <3>1, <3>2
    <2>5. /\ link'["leftSnapshot"][m] \in {n, a} /\ link'["rightSnapshot"][m] \in {n, a}
          /\ link'["rightSnapshot"][m] # rightSentinel
        <3>1. CASE e = "left"
            <4>1. n # rightSentinel /\ SnapshotField(e) = "leftSnapshot" /\ SnapshotField(o) = "rightSnapshot"
                BY <1>2, <3>1 DEF End, SnapshotField, Opp
            <4> QED
                BY <1>2, <4>1
        <3>2. CASE e = "right"
            <4>1. a # rightSentinel /\ SnapshotField(e) = "rightSnapshot" /\ SnapshotField(o) = "leftSnapshot"
                BY <1>5, <3>2 DEF End, SnapshotField, Opp
            <4> QED
                BY <1>2, <4>1
        <3> QED
            BY <3>1, <3>2 DEF Side
    <2>6. \A x \in alloc' : \A f \in {"leftSnapshot", "rightSnapshot"} : link'[f][x] \in Seen'
        <3>1. \A x \in alloc : \A f \in {"leftSnapshot", "rightSnapshot"} : link'[f][x] \in Seen'
            BY <1>11, <2>1, <2>2, <2>3 DEF LinksShown
        <3>2. \A f \in {"leftSnapshot", "rightSnapshot"} : link'[f][m] \in Seen'
            BY <1>2, <1>11, <2>1, <2>5
        <3> QED
            BY <1>2, <3>1, <3>2
    <2>7. a # NULL
        BY <1>2, <1>6, LiveFacts
    <2>8. \A x \in alloc' : x # rightSentinel =>
             link'["parent"][x] # NULL /\ link'["leftSnapshot"][x] # NULL
        <3>1. \A x \in alloc : x # rightSentinel =>
                 link'["parent"][x] # NULL /\ link'["leftSnapshot"][x] # NULL
            BY <2>1, <2>2 DEF LinksShown, Field
        <3> QED
            BY <1>2, <2>5, <2>7, <3>1
    <2>9. \A x \in alloc' : x # leftSentinel => link'["rightSnapshot"][x] \notin {NULL, rightSentinel}
        <3>1. \A x \in alloc : x # leftSentinel => link'["rightSnapshot"][x] \notin {NULL, rightSentinel}
            BY <2>1, <2>2 DEF LinksShown, Field
        <3> QED
            BY <1>2, <2>5, <2>7, <3>1
    <2>10. \A x \in Node \ alloc' :
              ~marked'[x] /\ link'["left"][x] = NULL /\ link'["right"][x] = NULL
        BY <1>2, <2>1, <2>2 DEF LinksShown, Field
    <2>11. ~marked'[NULL]
        BY <1>2, <2>1 DEF LinksShown
    <2> QED
        BY <2>4, <2>6, <2>8, <2>9, <2>10, <2>11 DEF LinksShown
<1>23. ASSUME NEW u \in Thread
       PROVE  (/\ LocalsShown(reg[u]) /\ held[u] \subseteq Seen \ {NULL}
               /\ Knows(h, pc[u], op[u], reg[u], held[u])
               /\ Adding(u) => Publishing(h, u))'
    <2>1. (LocalsShown(reg[u]) /\ held[u] \subseteq Seen \ {NULL})'
        BY <1>2, <1>10, <1>11 DEF Good, HeapInv, LocalsShown
    <2>2. ASSUME u = t PROVE Knows(h, pc[u], op[u], reg[u], held[u])'
        <3>1. PICK k, c, r, J : k = pc'[u] /\ c = op'[u] /\ r = reg'[u] /\ J = held'[u]
            OBVIOUS
        <3>2. k = "store" /\ c \in S!Op /\ r.node # NULL /\ c.type = "add"
            BY <1>2, <2>2, <3>1
        <3>3. Knows(h, k, c, r, J)'
            BY <3>2 DEF Knows, Calling, NearNode, NearNeighbours, NearSuccessor, RemovePlaces,
               NodePlaces, TwoPlaces, OnePlaces, PredPlaces, DeepPlaces, SuccParentPlaces, SuccPlaces
        <3> QED
            BY <3>1, <3>3
    <2>3. ASSUME u # t PROVE Knows(h, pc[u], op[u], reg[u], held[u])'
        <3>1. /\ \A x \in held[u] \cap Live :
                    /\ x \in Live' /\ h.parent[x] = g.parent[x]
                    /\ \A d \in Side : h.child[d][x] = g.child[d][x]
              /\ \A d \in Side : \A y : Owns(g, held[u], d, y) =>
                    Owns(h, held[u], d, y)' /\ h.near[d][y] = g.near[d][y]
            BY <1>12, <2>3
        <3>2. \A x \in alloc \cup {NULL} : link'["parent"][x] = link["parent"][x]
            BY <1>2, <1>6 DEF Field
        <3>3. pc'[u] = pc[u] /\ op' = op /\ reg' = reg /\ held' = held
            BY <1>2, <2>3
        <3> HIDE DEF H, o
        <3> QED
            BY <3>1, <3>2, <3>3, KnowsStill
    <2>4. Knows(h, pc[u], op[u], reg[u], held[u])'
        BY <2>2, <2>3
    <2>5. ASSUME Adding(u)' PROVE Publishing(h, u)'
        <3>1. CASE u = t
            <4>1. AddLeft(t, e, n, m)'
                BY <1>2, <1>3, <1>6, LiveFacts DEF AddLeft
            <4>2. m \notin {leftSentinel, rightSentinel} /\ m \in Live'
                BY <1>1, <1>2, <1>6
            <4> QED
                BY <1>1, <1>2, <1>8, <3>1, <4>1, <4>2 DEF Publishing, Side
        <3>2. CASE u # t
            <4>1. Adding(u) /\ Publishing(g, u)
                BY <1>9, <2>5, <3>2 DEF Good, HeapInv
            <4>2. /\ New(u) \in Live' /\ h.parent[New(u)] = g.parent[New(u)]
                  /\ \A d \in Side : h.child[d][New(u)] = g.child[d][New(u)]
                BY <1>12, <3>2, <4>1
            <4>3. New(u)' = New(u) /\ todo'[u] = todo[u]
                BY <1>2, <1>9, <3>2
            <4>4. \A d, b, x : AddLeft(u, d, b, x) => AddLeft(u, d, b, x)'
                BY <4>3 DEF AddLeft
            <4> QED
                BY <1>2, <4>1, <4>2, <4>3, <4>4 DEF Publishing, Side
        <3> QED
            BY <3>1, <3>2
    <2> QED
        BY <2>1, <2>4, <2>5
<1> QED
    BY <1>1, <1>2, <1>18, <1>19, <1>20, <1>21, <1>22, <1>23 DEF HeapInv

\* addSnapshot either starts over or makes the node and what it will publish.
LEMMA AddSnapshotHeap ==
    ASSUME NEW g, Good(g), NEW t \in Thread, AddSnapshot(t)
    PROVE  \E h : HeapInv(h)'
<1> DEFINE n == reg[t].node
           k == op[t].key
<1>1. CASE Outside(n, k, Snapshot(n, k))
    <2>1. Retry(t) /\ UNCHANGED <<heap, todo>> /\ pc[t] \notin {"store", "idle"}
        BY <1>1 DEF AddSnapshot, heap
    <2>2. HeapInv(g)'
        BY <2>1, StartsOver
    <2> QED
        BY <2>2
<1>2. CASE ~Outside(n, k, Snapshot(n, k))
    <2>1. pc'[t] # "walk"
        <3>1. Proceed(t, "store", reg[t])
            BY <1>2 DEF AddSnapshot
        <3> QED
            BY <3>1 DEF Proceed, Goto, Good, TypeOK
    <2>2. PICK e \in Side : \E a, m : Placing(g, t, e, reg[t].node, a, m)
        BY <1>2, <2>1, PlacingEffect
    <2>3. PICK x : x = reg[t].node
        OBVIOUS
    <2>4. PICK a, m : Placing(g, t, e, x, a, m)
        BY <2>2, <2>3
    <2>5. PICK h : h = Hanging(g, e, x, m)
        OBVIOUS
    <2>6. HeapInv(h)'
        BY <2>4, <2>5, PlacedHeap
    <2> QED
        BY <2>6
<1> QED
    BY <1>1, <1>2

-----------------------------------------------------------------------------
(* The initial heap, and every step *)

\* The two sentinels of the constructor are a heap in order (main.cpp:92-103).
LEMMA InitHeap ==
    ASSUME Init
    PROVE  \E g : Good(g)
<1> DEFINE l == leftSentinel
           r == rightSentinel
<1>1. PICK g : g = [child |-> [e \in Side |-> link[e]],
                    near |-> [e \in Side |-> link[SnapshotField(e)]],
                    parent |-> link["parent"],
                    bound |-> [e \in Side |-> IF e = "left" THEN link["leftSnapshot"] ELSE link["left"]]]
    OBVIOUS
<1>2. TypeOK /\ LockInv
    BY InitTyped, InitDisciplined
<1>3. /\ l \in Node /\ r \in Node /\ l # r /\ l # NULL /\ r # NULL
      /\ value[l] \in Int /\ value[r] \in Int /\ value[r] < value[l]
    BY NodeAssumption
<1>4. \A x \in Ptr :
         /\ link["left"][x] = NULL
         /\ link["right"][x] = IF x = r THEN l ELSE NULL
         /\ link["parent"][x] = IF x = l THEN r ELSE NULL
         /\ link["leftSnapshot"][x] = IF x = l THEN r ELSE NULL
         /\ link["rightSnapshot"][x] = IF x = r THEN l ELSE NULL
    BY <1>3 DEF Init, Field
<1>5. /\ alloc = {l, r} /\ Live = {l, r} /\ l \in Ptr /\ r \in Ptr /\ NULL \in Ptr
      /\ \A x \in Ptr : ~marked[x]
    BY <1>3 DEF Init, Live, Ptr
<1>6. /\ \A x \in Ptr :
            /\ g.child["left"][x] = NULL /\ g.child["right"][x] = IF x = r THEN l ELSE NULL
            /\ g.near["left"][x] = IF x = l THEN r ELSE NULL
            /\ g.near["right"][x] = IF x = r THEN l ELSE NULL
            /\ g.parent[x] = IF x = l THEN r ELSE NULL
            /\ g.bound["left"][x] = IF x = l THEN r ELSE NULL
            /\ g.bound["right"][x] = NULL
    BY <1>1, <1>4 DEF Side, SnapshotField
<1>7. g \in Heap
    BY <1>1, <1>2 DEF TypeOK, Heap, Side, SnapshotField, Field
<1>8. Shape(g, Live)
    <2>1. Ordered(g, {l, r})
        BY <1>3, <1>5, <1>6 DEF Ordered, Side, Opp, End, Beside
    <2>2. Hung(g, {l, r}) /\ Bounded(g, {l, r})
        BY <1>3, <1>5, <1>6 DEF Hung, Bounded, Side, Opp, Beside
    <2>3. Rooted(g, {l, r})
        BY <1>3, <1>5, <1>6 DEF Rooted, Side
    <2>4. Gapped(g, {l, r})
        BY <1>3, <1>5, <1>6 DEF Gapped, Side, Opp, End
    <2> QED
        BY <1>3, <1>5, <2>1, <2>2, <2>3, <2>4 DEF Shape
<1>9. /\ \A t \in Thread : /\ pc[t] = "idle" /\ todo[t] = << >> /\ reg[t] = Blank /\ held[t] = {}
                           /\ PendingStores(t) = {} /\ ~Adding(t)
    BY DEF Init, PendingStores, Adding
<1>10. Settles(g)
    <2>1. \A f \in Field : \A x \in Live : link[f][x] = Final(g, f, x)
        BY <1>4, <1>5, <1>6 DEF Field, Final
    <2> QED
        BY <1>9, <2>1 DEF Settles
<1>11. NoStoreRace /\ GapsOwned(g) /\ OldHeld
    BY <1>9 DEF NoStoreRace, GapsOwned, OldHeld
<1>12. Shown = {l, r, NULL} /\ Seen = {l, r, NULL}
    BY <1>5, <1>9 DEF Shown, Seen
<1>13. LinksShown
    BY <1>3, <1>4, <1>5, <1>12 DEF LinksShown, TreeField, Ptr
<1>14. ASSUME NEW t \in Thread
       PROVE  /\ LocalsShown(reg[t]) /\ held[t] \subseteq Seen \ {NULL}
              /\ Knows(g, pc[t], op[t], reg[t], held[t])
              /\ Adding(t) => Publishing(g, t)
    <2>1. LocalsShown(Blank)
        BY <1>12 DEF LocalsShown, Blank
    <2> QED
        BY <1>9, <2>1, KnowsNothing
<1>15. HeapInv(g)
    BY <1>7, <1>8, <1>10, <1>11, <1>13, <1>14 DEF HeapInv
<1> QED
    BY <1>2, <1>15 DEF Good

\* Every step of a call leaves memory that settles to a heap in order.
LEMMA StepHeap ==
    ASSUME NEW g, Good(g), NEW t \in Thread, Step(t)
    PROVE  \E h : HeapInv(h)'
<1>1. CASE Walk(t) \/ Found(t) \/ MissSnapshot(t) \/ AddLock(t) \/ ReadParent(t) \/ LockParent(t)
           \/ Recheck(t) \/ RemovedMeanwhile(t)
    <2>1. HeapInv(g)'
        BY <1>1, SearchHeap
    <2> QED
        BY <2>1
<1>2. CASE LockNode(t) \/ ReadPred(t) \/ ReadSucc(t) \/ LockSnapshot(t) \/ LockRightNode(t)
           \/ LockChild(t) \/ LockLeft(t) \/ LockRight(t)
    <2>1. HeapInv(g)'
        BY <1>2, LockNodeHeap, ReadPredHeap, ReadSuccHeap, LockSnapshotHeap, LockRightNodeHeap, LockChildHeap
    <2> QED
        BY <2>1
<1>3. CASE ReadSuccParent(t) \/ LockSuccParent(t) \/ RecheckSucc(t) \/ LockSucc(t)
           \/ LockSuccRight(t) \/ LockSuccRightSnapshot(t)
    <2>1. HeapInv(g)'
        BY <1>3, ReadSuccParentHeap, LockSuccParentHeap, LockSuccHeap, LockSuccRightHeap,
           LockSuccRightSnapshotHeap
    <2> QED
        BY <2>1
<1>4. CASE DoStore(t)
    <2>1. HeapInv(g)'
        BY <1>4, StoreHeap
    <2> QED
        BY <2>1
<1>5. CASE AddSnapshot(t) \/ UnlinkLeaf(t) \/ UnlinkOneChild(t) \/ PromoteRight(t) \/ ApplyRemove(t)
    BY <1>5, AddSnapshotHeap, UnlinkLeafHeap, UnlinkOneChildHeap, PromoteRightHeap, ApplyRemoveHeap
<1> QED
    BY <1>1, <1>2, <1>3, <1>4, <1>5 DEF Step

\* So does a step of somebody else.
LEMMA IdleHeap ==
    ASSUME NEW g, Good(g), UNCHANGED vars
    PROVE  HeapInv(g)'
<1>1. /\ link' = link /\ marked' = marked /\ alloc' = alloc /\ todo' = todo /\ Live' = Live
      /\ pc' = pc /\ op' = op /\ reg' = reg /\ held' = held
    BY DEF vars, Live
<1>2. \A u \in Thread : /\ PendingStores(u)' = PendingStores(u) /\ New(u)' = New(u)
                        /\ Adding(u)' <=> Adding(u)
    BY <1>1 DEF PendingStores, New, Adding
<1>3. Shown' = Shown /\ Seen' = Seen
    BY <1>1, <1>2 DEF Shown, Seen
<1>4. (g \in Heap /\ Shape(g, Live) /\ Settles(g))'
    BY <1>1, <1>2 DEF Good, HeapInv, Settles
<1>5. (NoStoreRace /\ GapsOwned(g) /\ OldHeld /\ LinksShown)'
    BY <1>1, <1>2, <1>3 DEF Good, HeapInv, NoStoreRace, GapsOwned, OldHeld, LinksShown, Owns
<1>6. ASSUME NEW u \in Thread
      PROVE  (/\ LocalsShown(reg[u]) /\ held[u] \subseteq Seen \ {NULL}
              /\ Knows(g, pc[u], op[u], reg[u], held[u])
              /\ Adding(u) => Publishing(g, u))'
    <2>1. (LocalsShown(reg[u]) /\ held[u] \subseteq Seen \ {NULL})'
        BY <1>1, <1>3 DEF Good, HeapInv, LocalsShown
    <2>2. Knows(g, pc[u], op[u], reg[u], held[u])'
        <3>1. PICK l, o, r, H : l = pc[u] /\ o = op[u] /\ r = reg[u] /\ H = held[u]
            OBVIOUS
        <3>2. Knows(g, l, o, r, H)
            BY <3>1, KnownHere
        <3>3. Knows(g, l, o, r, H)'
            BY <1>1, <3>2, KnowsKept
        <3> QED
            BY <1>1, <3>1, <3>3
    <2>3. (Adding(u) => Publishing(g, u))'
        BY <1>1, <1>2 DEF Good, HeapInv, Publishing, AddLeft
    <2> QED
        BY <2>1, <2>2, <2>3
<1> QED
    BY <1>4, <1>5, <1>6 DEF HeapInv

\* The invariant is inductive.
LEMMA NextHeap == InOrder /\ [Next]_vars => InOrder'
<1> SUFFICES ASSUME InOrder, [Next]_vars PROVE InOrder'
    OBVIOUS
<1>1. PICK g : Good(g)
    BY DEF InOrder
<1>2. (TypeOK /\ LockInv)'
    BY <1>1, NextTyped, NextDisciplined DEF Good
<1>3. \E h : HeapInv(h)'
    <2>1. CASE UNCHANGED vars
        <3>1. HeapInv(g)'
            BY <1>1, <2>1, IdleHeap
        <3> QED
            BY <3>1
    <2>2. CASE Next
        <3>1. PICK t \in Thread : Step(t) \/ \E o \in S!Op : Call(t, o)
            BY <2>2 DEF Next
        <3>2. CASE Step(t)
            BY <1>1, <3>2, StepHeap
        <3>3. CASE \E o \in S!Op : Call(t, o)
            <4>1. HeapInv(g)'
                BY <1>1, <3>3, CallHeap
            <4> QED
                BY <4>1
        <3> QED
            BY <3>1, <3>2, <3>3
    <2> QED
        BY <2>1, <2>2
<1>4. PICK h : HeapInv(h)'
    BY <1>3
<1>5. Good(h)'
    BY <1>2, <1>4 DEF Good
<1> QED
    BY <1>5 DEF InOrder

-----------------------------------------------------------------------------
(* What the heap being in order says *)

\* Live nodes have different values.
LEMMA OneNodePerKey == ASSUME NEW g, Good(g) PROVE NoDuplicate
  BY LiveFacts DEF Shape, NoDuplicate

\* A pending store connects live nodes.
LEMMA TargetsLive == ASSUME NEW g, Good(g) PROVE NoDeadTarget
<1> SUFFICES ASSUME NEW t \in Thread, NEW w \in PendingStores(t)
             PROVE  ~marked[w.n] /\ ~marked[w.v]
    BY DEF NoDeadTarget
<1>1. /\ w.n \in Live /\ w.f \in Field /\ Final(g, w.f, w.n) = w.v
      /\ \A e \in Side : w.f = SnapshotField(e) => w.n # End(e)
    BY Pending DEF Store, Good, HeapInv, GapsOwned
<1>2. ~marked[NULL] /\ \A x \in Live : ~marked[x]
    BY DEF Good, HeapInv, LinksShown, Live
<1>3. w.v \in Live \cup {NULL}
    <2>1. CASE w.f \in Side
        <3>1. w.v = g.child[w.f][w.n]
            BY <1>1, <2>1, Fields
        <3> QED
            BY <1>1, <2>1, <3>1, LiveFacts
    <2>2. CASE w.f = "parent"
        BY <1>1, <2>2, LiveFacts, Fields DEF Shape, Rooted
    <2>3. CASE w.f \notin TreeField
        <3>1. PICK e \in Side : w.f = SnapshotField(e)
            BY <1>1, <2>3, Fields
        <3>2. w.n \in Live \ {End(e)} /\ g.near[e][w.n] = w.v
            BY <1>1, <3>1, Fields
        <3> QED
            BY <3>2, LiveFacts
    <2> QED
        BY <2>1, <2>2, <2>3, Fields
<1> QED
    BY <1>1, <1>2, <1>3

\* What a thread is about to lock is a node.
LEMMA WantsNonNull ==
    ASSUME NEW g, Good(g), NEW t \in Thread
    PROVE  NULL \notin Wants(t)
<1> DEFINE r == reg[t]
<1>1. Knows(g, pc[t], op[t], r, held[t])
    BY KnownHere
<1>2. CASE pc[t] \in {"addLock", "lockParent", "lockNode"}
    BY <1>1, <1>2 DEF Wants, Knows, Calling, RemovePlaces
<1>3. CASE pc[t] = "lockChild"
    BY <1>1, <1>3, Places DEF Wants, OnlyChild
<1>4. CASE pc[t] = "lockSnapshot"
    <2>1. EndsKnown(g, r, held[t])
        BY <1>1, <1>4, Places
    <2> QED
        BY <1>4, <2>1 DEF Wants, SnapshotToLock, EndsKnown
<1>5. CASE pc[t] \in {"lockLeft", "lockRight", "lockRightNode"}
    <2>1. r.left # NULL /\ r.right # NULL
        BY <1>1, <1>5, Places
    <2>2. pc[t] = "lockRightNode" => r.rightNode # NULL
        BY <1>1, Places
    <2> QED
        BY <1>5, <2>1, <2>2 DEF Wants
<1>6. CASE pc[t] \in {"lockSuccParent", "lockSucc"}
    <2>1. DeepKnown(g, r, held[t]) /\ r.succParent # NULL
        BY <1>1, <1>6, Places
    <2> QED
        BY <1>6, <2>1 DEF Wants, DeepKnown, PredKnown
<1>7. CASE pc[t] = "lockSuccRight"
    BY <1>7 DEF Wants
<1>8. CASE pc[t] = "lockSuccRightSnapshot"
    BY <1>1, <1>8, Places DEF Wants
<1>9. CASE pc[t] \notin {"addLock", "lockParent", "lockNode", "lockChild", "lockSnapshot",
                         "lockLeft", "lockRight", "lockRightNode", "lockSuccParent", "lockSucc",
                         "lockSuccRight", "lockSuccRightSnapshot"}
    BY <1>9 DEF Wants
<1> QED
    BY <1>2, <1>3, <1>4, <1>5, <1>6, <1>7, <1>8, <1>9

\* So is whatever it dereferences.
LEMMA Dereferences == ASSUME NEW g, Good(g) PROVE NoNullDereference
<1> SUFFICES ASSUME NEW t \in Thread
             PROVE  /\ NULL \notin Wants(t)
                    /\ pc[t] # "idle" => reg[t].node # NULL
                    /\ pc[t] = "miss" => Snapshot(reg[t].node, op[t].key) # NULL
                    /\ pc[t] = "readSuccParent" => reg[t].leftNode # NULL
                    /\ \A i \in DOMAIN todo[t] : todo[t][i].n # NULL
    BY DEF NoNullDereference
<1> DEFINE r == reg[t]
           n == r.node
<1>1. /\ Knows(g, pc[t], op[t], r, held[t]) /\ n \in Shown /\ Shown \subseteq Seen
    BY KnownHere DEF LocalsShown
<1>2. pc[t] # "idle" => n # NULL
    BY <1>1 DEF Knows, Calling
<1>3. ASSUME pc[t] = "miss" PROVE Snapshot(n, op[t].key) # NULL
    <2>1. op[t] \in S!Op /\ op[t].key # value[n] /\ n \in Seen \ {NULL}
        BY <1>1, <1>2, <1>3 DEF Knows, Calling
    <2>2. /\ n # rightSentinel => link["leftSnapshot"][n] # NULL
          /\ n # leftSentinel => link["rightSnapshot"][n] # NULL
        BY <2>1, ReadShown
    <2>3. value[rightSentinel] < op[t].key /\ op[t].key < value[leftSentinel] /\ op[t].key \in Int
          /\ value[rightSentinel] \in Int /\ value[leftSentinel] \in Int
        BY <2>1, NodeAssumption DEF S!Op
    <2> QED
        BY <2>2, <2>3 DEF Snapshot, LeftSnapshot, RightSnapshot
<1>4. ASSUME pc[t] = "readSuccParent" PROVE r.leftNode # NULL
    <2>1. DeepKnown(g, r, held[t])
        BY <1>1, <1>4, Places
    <2> QED
        BY <2>1 DEF DeepKnown, PredKnown
<1>5. ASSUME NEW i \in DOMAIN todo[t] PROVE todo[t][i].n # NULL
    <2>1. todo[t][i] \in PendingStores(t)
        BY DEF PendingStores
    <2> QED
        BY <2>1, Pending, LiveFacts
<1> QED
    BY <1>2, <1>3, <1>4, <1>5, WantsNonNull

\* The snapshots across a gap that t owns agree.
LEMMA BothAgree ==
    ASSUME NEW g, Good(g), NEW t \in Thread, todo[t] = << >>, NEW e \in Side, NEW y, NEW m,
           Owns(g, held[t], e, y), g.near[e][y] = m, y \in held[t], y \in Shown
    PROVE  link[SnapshotField(e)][y] = m /\ link[SnapshotField(Opp(e))][m] = y
<1>1. Owns(g, held[t], Opp(e), m) /\ g.near[Opp(e)][m] = y /\ Opp(e) \in Side
    BY OwnsBack, Sides
<1>2. link[SnapshotField(e)][y] = m
    BY SnapshotAgrees
<1>3. link[SnapshotField(Opp(e))][m] = y
    BY <1>1, SnapshotAgrees
<1> QED
    BY <1>2, <1>3

MarkPlaces == {"unlinkLeaf", "unlinkOneChild", "promoteRight", "applyRemove"}

\* The neighbours of the node about to be marked.
LEMMA MarkNeighbours ==
    ASSUME NEW g, Good(g), NEW t \in Thread, pc[t] \in MarkPlaces, NEW r, r = reg[t]
    PROVE  /\ Neighbour(g, held[t], "left", r.node, r.rightNode)
           /\ Neighbour(g, held[t], "right", r.node, r.leftNode)
<1>1. pc[t] \in NodePlaces
    BY DEF MarkPlaces, NodePlaces, OnePlaces, TwoPlaces, PredPlaces, DeepPlaces, SuccParentPlaces,
           SuccPlaces
<1>2. PICK H : H = held[t]
    OBVIOUS
<1>3. Knows(g, pc[t], op[t], r, H)
    BY <1>2, KnownHere
<1>4. CASE pc[t] = "unlinkLeaf"
    <2>1. r.left = NULL /\ r.right = NULL /\ EndsKnown(g, r, H)
        BY <1>3, <1>4, Places
    <2> QED
        BY <1>2, <2>1 DEF EndsKnown
<1>5. CASE pc[t] = "unlinkOneChild"
    BY <1>2, <1>3, <1>5, Places
<1>6. CASE pc[t] = "promoteRight"
    <2>1. Base(g, op[t], r) /\ PredKnown(g, r, H) /\ r.leftNode = r.right /\ g.child["left"][r.right] = NULL
        BY <1>3, <1>6, Places
    <2>2. r.node \in Live /\ g.child["right"][r.node] = r.right /\ r.right # NULL /\ Shape(g, Live)
        BY <2>1, LiveFacts DEF Base, PredKnown
    <2>3. g.near["right"][r.node] = r.right
        BY <2>1, <2>2, Successor
    <2>4. r.right \in H /\ r.node # End("right")
        BY <1>1, <1>2, <1>6, KnownHere, LockedTwo, NodeHeld
    <2>5. Neighbour(g, H, "right", r.node, r.leftNode)
        BY <2>1, <2>2, <2>3, <2>4 DEF Neighbour, Owns, Opp
    <2> QED
        BY <1>2, <2>1, <2>5 DEF PredKnown
<1>7. CASE pc[t] = "applyRemove"
    <2>1. SuccKnown(g, r, H)
        BY <1>3, <1>7, Places
    <2> QED
        BY <1>2, <2>1 DEF SuccKnown, DeepKnown, PredKnown
<1> QED
    BY <1>4, <1>5, <1>6, <1>7 DEF MarkPlaces

\* Where remove replaces the node, what it read of the successor is so.
LEMMA FreshSuccessor ==
    ASSUME NEW g, Good(g), NEW t \in Thread, pc[t] = "applyRemove", NEW r, r = reg[t],
           NEW s, s = r.leftNode
    PROVE  /\ Parent(s) = r.succParent /\ Left(s) = NULL /\ Right(s) = r.succRight
           /\ RightSnapshot(s) = r.succRightSnapshot /\ Left(r.succParent) = s
<1>1. pc[t] \in NodePlaces /\ pc[t] \in MarkPlaces
    BY DEF MarkPlaces, NodePlaces, TwoPlaces, PredPlaces, DeepPlaces, SuccParentPlaces, SuccPlaces
<1>2. PICK H, n, p, l, q, c, b, a, f :
         /\ H = held[t] /\ n = r.node /\ p = r.parent /\ l = r.left /\ q = r.succParent
         /\ a = r.rightNode /\ b = r.succRightSnapshot /\ c = r.succRight
         /\ f = IF r.leftChild THEN "left" ELSE "right"
    OBVIOUS
<1>3. Knows(g, "applyRemove", op[t], r, H) /\ Shape(g, Live) /\ todo[t] = << >>
    BY <1>1, <1>2, NodeHeld
<1>4. /\ r.left # NULL /\ r.right # NULL
      /\ Neighbour(g, H, "left", n, a) /\ Neighbour(g, H, "right", n, s)
      /\ g.child["left"][r.right] # NULL /\ g.parent[s] = q /\ g.child["right"][s] = c
      /\ Neighbour(g, H, "right", s, b)
    BY <1>2, <1>3, Places DEF PredKnown, DeepKnown, SuccKnown
<1>5. Around(g, Live, f, n, p, l, r.right, s, a)
    <2>1. g.near["left"][n] = a /\ g.near["right"][n] = s
        BY <1>4 DEF Neighbour
    <2> QED
        BY <1>1, <1>2, <1>4, <2>1, AroundHeld
<1>6. s \in Live /\ g.child["left"][s] = NULL
    BY <1>5, AroundFacts
<1>7. s # r.right
    BY <1>4, <1>6
<1>8. q \in Live /\ g.child["left"][q] = s
    BY <1>4, <1>5, <1>7, DeepFacts
<1>9. s \in H /\ q \in H
    BY <1>2, KnownHere, LockedTwo
<1>10. Free(t, s) /\ Free(t, q)
    BY <1>2, <1>9, HeldFree
<1>11. /\ link["left"][s] = NULL /\ link["right"][s] = c /\ link["parent"][s] = q
       /\ link["left"][q] = s
    BY <1>3, <1>4, <1>6, <1>8, <1>10, TreeAgrees DEF Side
<1>12. link["rightSnapshot"][s] = b
    <2>1. Owns(g, held[t], "right", s) /\ g.near["right"][s] = b /\ s \in held[t]
        BY <1>2, <1>4, <1>9 DEF Neighbour
    <2>2. link[SnapshotField("right")][s] = b
        BY <1>3, <2>1, SnapshotAgrees DEF Side
    <2> QED
        BY <2>2 DEF SnapshotField
<1> QED
    BY <1>2, <1>11, <1>12 DEF Parent, Left, Right, RightSnapshot

\* Where remove marks the node, what it read around the node is so.
LEMMA FreshReads == ASSUME NEW g, Good(g) PROVE FreshWhenMarking
<1>1. ASSUME NEW t \in Thread, pc[t] \in MarkPlaces, NEW r, r = reg[t], NEW n, n = r.node
      PROVE  /\ ~marked[n] /\ ~marked[r.parent]
             /\ Parent(n) = r.parent /\ Left(n) = r.left /\ Right(n) = r.right
             /\ link[IF r.leftChild THEN "left" ELSE "right"][r.parent] = n
             /\ LeftSnapshot(n) = r.rightNode /\ RightSnapshot(r.rightNode) = n
             /\ RightSnapshot(n) = r.leftNode /\ LeftSnapshot(r.leftNode) = n
    <2>1. pc[t] \in NodePlaces
        BY <1>1 DEF MarkPlaces, NodePlaces, OnePlaces, TwoPlaces, PredPlaces, DeepPlaces,
                    SuccParentPlaces, SuccPlaces
    <2>2. /\ Base(g, op[t], r) /\ n \in held[t] /\ r.parent \in held[t] /\ todo[t] = << >>
          /\ n \in Live /\ LocalsShown(r)
        BY <1>1, <2>1, NodeHeld
    <2>3. /\ n \in Shown /\ r.parent \in Live /\ g.parent[n] = r.parent
          /\ g.child["left"][n] = r.left /\ g.child["right"][n] = r.right
        BY <1>1, <2>2, BaseFacts DEF LocalsShown, Base
    <2>4. Free(t, n) /\ Free(t, r.parent)
        BY <2>2, HeldFree
    <2>5. link["left"][n] = r.left /\ link["right"][n] = r.right /\ link["parent"][n] = r.parent
        BY <2>2, <2>3, <2>4, TreeAgrees DEF Side
    <2>6. link[IF r.leftChild THEN "left" ELSE "right"][r.parent] = n
        BY <1>1, <2>1, <2>2, <2>3, <2>4, TreeAgrees, HangsOn
    <2>7. /\ Neighbour(g, held[t], "left", n, r.rightNode)
          /\ Neighbour(g, held[t], "right", n, r.leftNode)
        BY <1>1, MarkNeighbours
    <2>8. link["leftSnapshot"][n] = r.rightNode /\ link["rightSnapshot"][r.rightNode] = n
        <3>1. link[SnapshotField("left")][n] = r.rightNode
              /\ link[SnapshotField(Opp("left"))][r.rightNode] = n
            <4>1. PICK e, m : e = "left" /\ m = r.rightNode
                OBVIOUS
            <4>2. e \in Side /\ Owns(g, held[t], e, n) /\ g.near[e][n] = m
                BY <2>7, <4>1 DEF Side, Neighbour
            <4>3. link[SnapshotField(e)][n] = m /\ link[SnapshotField(Opp(e))][m] = n
                BY <2>2, <2>3, <4>2, BothAgree
            <4> QED
                BY <4>1, <4>3
        <3> QED
            BY <3>1 DEF SnapshotField, Opp
    <2>9. link["rightSnapshot"][n] = r.leftNode /\ link["leftSnapshot"][r.leftNode] = n
        <3>1. link[SnapshotField("right")][n] = r.leftNode
              /\ link[SnapshotField(Opp("right"))][r.leftNode] = n
            <4>1. PICK e, m : e = "right" /\ m = r.leftNode
                OBVIOUS
            <4>2. e \in Side /\ Owns(g, held[t], e, n) /\ g.near[e][n] = m
                BY <2>7, <4>1 DEF Side, Neighbour
            <4>3. link[SnapshotField(e)][n] = m /\ link[SnapshotField(Opp(e))][m] = n
                BY <2>2, <2>3, <4>2, BothAgree
            <4> QED
                BY <4>1, <4>3
        <3> QED
            BY <3>1 DEF SnapshotField, Opp
    <2>10. ~marked[n] /\ ~marked[r.parent]
        BY <2>2, <2>3, LiveFacts
    <2> QED
        BY <2>5, <2>6, <2>8, <2>9, <2>10 DEF Parent, Left, Right, LeftSnapshot, RightSnapshot
<1> QED
    BY <1>1, FreshSuccessor DEF FreshWhenMarking, MarkPlaces

\* What the fields of live nodes hold when no update is half done.
LEMMA SettledFields ==
    ASSUME NEW g, Good(g), Settled
    PROVE  \A x \in Live : /\ Left(x) = g.child["left"][x] /\ Right(x) = g.child["right"][x]
                           /\ Parent(x) = g.parent[x]
                           /\ LeftSnapshot(x) = g.near["left"][x]
                           /\ RightSnapshot(x) = g.near["right"][x]
<1>1. \A f \in Field : \A x \in Live : link[f][x] = Final(g, f, x)
    <2>1. \A t \in Thread : PendingStores(t) = {}
        BY NonePending DEF Settled
    <2> QED
        BY <2>1 DEF Good, HeapInv, Settles
<1> QED
    BY <1>1 DEF Final, Field, Left, Right, Parent, LeftSnapshot, RightSnapshot

\* When no store is pending memory is the heap itself: the tree and the list.
LEMMA SettledHeap ==
    ASSUME NEW g, Good(g), Settled
    PROVE  ChildrenPointBack /\ SnapshotShape
<1>1. \A x \in Live : /\ Left(x) = g.child["left"][x] /\ Right(x) = g.child["right"][x]
                      /\ Parent(x) = g.parent[x]
                      /\ LeftSnapshot(x) = g.near["left"][x]
                      /\ RightSnapshot(x) = g.near["right"][x]
    BY SettledFields
<1>2. ChildrenPointBack
    <2> SUFFICES ASSUME NEW n \in Live, NEW c \in {Left(n), Right(n)} \ {NULL}
                 PROVE  c \in Live /\ Parent(c) = n
        BY DEF ChildrenPointBack
    <2>1. PICK d \in Side : c = g.child[d][n]
        BY <1>1 DEF Side
    <2>2. c \in Live /\ g.parent[c] = n
        BY <2>1, LiveFacts DEF Shape, Hung
    <2> QED
        BY <1>1, <2>2
<1>3. SnapshotShape
    <2> SUFFICES ASSUME NEW a \in Live, NEW b \in Live, value[a] < value[b],
                        \A c \in Live : ~(value[a] < value[c] /\ value[c] < value[b])
                 PROVE  RightSnapshot(a) = b /\ LeftSnapshot(b) = a
        BY DEF SnapshotShape
    <2>1. \A x \in Live : value[x] \in Int
        BY LiveFacts, NodeAssumption
    <2>2. value[b] <= value[leftSentinel] /\ leftSentinel \in Live
        <3>1. b # leftSentinel => Beside("right", leftSentinel, b)
            BY LiveFacts DEF Shape, Ordered, Side, End
        <3> QED
            BY <2>1, <3>1, LiveFacts DEF Beside
    <2>3. a # End("right")
        BY <2>1, <2>2 DEF End
    <2>4. PICK y : y = g.near["right"][a]
        OBVIOUS
    <2>5. /\ y \in Live /\ Beside("right", y, a) /\ g.near["left"][y] = a
          /\ ~(Beside("right", y, b) /\ Beside("right", b, a))
        <3>1. "right" \in Side /\ Opp("right") = "left"
            BY DEF Side, Opp
        <3> QED
            BY <2>3, <2>4, <3>1, LiveFacts DEF Shape, Ordered
    <2>6. value[y] = value[b]
        BY <2>1, <2>5 DEF Beside
    <2>7. y = b
        BY <2>5, <2>6, LiveFacts DEF Shape
    <2> QED
        BY <1>1, <2>4, <2>5, <2>7
<1> QED
    BY <1>2, <1>3

-----------------------------------------------------------------------------
(* Searches: induction along the way from the root *)

\* The least number principle.
LEMMA Least ==
    ASSUME NEW T \in SUBSET Nat, T # {}
    PROVE  \E m \in T : \A i \in T : ~(i < m)
<1>1. PICK m \in T : \A y \in T : ~(<<y, m>> \in OpToRel(<, Nat))
    BY NatLessThanWellFounded, WFMin
<1>2. \A y \in T : ~(y < m)
    BY <1>1 DEF OpToRel
<1> QED
    BY <1>2

\* f goes from a by s, C times: there is such an f.
Traces(f, a, s, C, D) ==
    f \in [0 .. C -> D] /\ \A i \in 0 .. C : f[i] = IF i = 0 THEN a ELSE s[f[i - 1]]

LEMMA WayExists ==
    ASSUME NEW D, NEW a \in D, NEW s \in [D -> D], NEW C \in Nat
    PROVE  \E f : Traces(f, a, s, C, D)
<1> DEFINE Way(m) == \E f \in [0 .. m -> D] :
                         \A i \in 0 .. m : f[i] = IF i = 0 THEN a ELSE s[f[i - 1]]
           Bad == {m \in Nat : ~Way(m)}
<1>1. Way(0)
    <2> DEFINE f == [i \in 0 .. 0 |-> a]
    <2>1. f \in [0 .. 0 -> D]
        OBVIOUS
    <2>2. \A i \in 0 .. 0 : f[i] = IF i = 0 THEN a ELSE s[f[i - 1]]
        OBVIOUS
    <2> QED
        BY <2>1, <2>2
<1>2. ASSUME NEW m \in Nat, Way(m) PROVE Way(m + 1)
    <2>1. PICK f \in [0 .. m -> D] : \A i \in 0 .. m : f[i] = IF i = 0 THEN a ELSE s[f[i - 1]]
        BY <1>2
    <2> DEFINE h == [i \in 0 .. m + 1 |-> IF i = m + 1 THEN s[f[m]] ELSE f[i]]
    <2>2. f[m] \in D
        OBVIOUS
    <2>3. h \in [0 .. m + 1 -> D]
        BY <2>2
    <2>4. \A i \in 0 .. m + 1 : h[i] = IF i = 0 THEN a ELSE s[h[i - 1]]
        <3> SUFFICES ASSUME NEW i \in 0 .. m + 1
                     PROVE  h[i] = IF i = 0 THEN a ELSE s[h[i - 1]]
            OBVIOUS
        <3>1. CASE i = m + 1
            BY <3>1
        <3>2. CASE i \in 0 .. m
            <4>1. i # 0 => i - 1 \in 0 .. m /\ h[i - 1] = f[i - 1]
                BY <3>2
            <4> QED
                BY <2>1, <3>2, <4>1
        <3> QED
            BY <3>1, <3>2
    <2> HIDE DEF h
    <2> QED
        BY <2>3, <2>4
<1>3. Way(C)
    <2> HIDE DEF Way
    <2> SUFFICES ASSUME Bad # {} PROVE FALSE
        OBVIOUS
    <2>1. PICK m \in Bad : \A i \in Bad : ~(i < m)
        BY Least
    <2>2. m # 0
        BY <1>1
    <2>3. m - 1 \in Nat /\ Way(m - 1)
        BY <2>1, <2>2
    <2> QED
        BY <1>2, <2>1, <2>3
<1> QED
    BY <1>3 DEF Traces

\* The nodes that a search for k is at, the last of which it returns (main.cpp:115-131).
LEMMA WayOf ==
    ASSUME TypeOK, IsFiniteSet(Node), NEW k
    PROVE  \E w : /\ w[0] = root /\ Find(k) = w[Cardinality(Node)]
                  /\ \A i \in 1 .. Cardinality(Node) :
                        w[i] = IF w[i - 1] = NULL \/ value[w[i - 1]] = k THEN w[i - 1]
                               ELSE Child(w[i - 1], k)
<1> DEFINE C == Cardinality(Node)
           s == [n \in Ptr |-> IF n = NULL \/ value[n] = k THEN n ELSE Child(n, k)]
           IsWay(f) == f = [i \in 0 .. C |->
                              IF i = 0 THEN root
                              ELSE IF f[i - 1] = NULL \/ value[f[i - 1]] = k THEN f[i - 1]
                                   ELSE Child(f[i - 1], k)]
<1>1. C \in Nat /\ root \in Ptr /\ \A n \in Node : Child(n, k) \in Ptr
    <2>1. C \in Nat
        BY FS_CardinalityType
    <2>2. \A n \in Node : Left(n) \in Ptr /\ Right(n) \in Ptr
        BY DEF TypeOK, Left, Right, Field
    <2> QED
        BY <2>1, <2>2, NodeAssumption DEF Child, root, Ptr
<1>2. s \in [Ptr -> Ptr]
    BY <1>1 DEF Ptr
<1>3. PICK f : Traces(f, root, s, C, Ptr)
    <2> HIDE DEF s, C, Ptr, root
    <2> QED
        BY <1>1, <1>2, WayExists
<1>4. \A i \in 0 .. C : f[i] = IF i = 0 THEN root
                               ELSE IF f[i - 1] = NULL \/ value[f[i - 1]] = k THEN f[i - 1]
                               ELSE Child(f[i - 1], k)
    <2>1. ASSUME NEW i \in 1 .. C PROVE f[i - 1] \in Ptr /\ f[i] = s[f[i - 1]]
        <3> HIDE DEF s, C
        <3>1. i - 1 \in 0 .. C /\ i \in 0 .. C /\ i # 0
            BY <1>1
        <3> QED
            BY <1>3, <3>1 DEF Traces
    <2>2. f[0] = root
        <3> HIDE DEF s, C
        <3> QED
            BY <1>1, <1>3 DEF Traces
    <2>3. \A n \in Ptr : s[n] = IF n = NULL \/ value[n] = k THEN n ELSE Child(n, k)
        OBVIOUS
    <2> HIDE DEF s, C
    <2> TAKE i \in 0 .. C
    <2>4. i # 0 => i \in 1 .. C
        BY <1>1
    <2> QED
        BY <2>1, <2>2, <2>3, <2>4
<1>5. IsWay(f)
    <2> HIDE DEF s, C
    <2>1. f = [i \in 0 .. C |-> f[i]]
        BY <1>3 DEF Traces
    <2> QED
        BY <1>4, <2>1
<1>6. Find(k) = (CHOOSE h : IsWay(h))[C]
    BY Zenon DEF Find
<1>7. PICK w : IsWay(w) /\ Find(k) = w[C]
    <2> HIDE DEF IsWay
    <2> QED
        BY <1>5, <1>6, Zenon
<1> HIDE DEF s, C
<1>8. /\ w[0] = root
      /\ \A i \in 1 .. C : w[i] = IF w[i - 1] = NULL \/ value[w[i - 1]] = k THEN w[i - 1]
                                  ELSE Child(w[i - 1], k)
    BY <1>1, <1>7
<1> QED
    BY <1>7, <1>8 DEF C

\* The live nodes between the bounds of n, where the subtree of n lies.
Inside(g, n) ==
    {z \in Live : \A e \in Side : g.bound[e][n] # NULL => Beside(e, g.bound[e][n], z)}

\* All are below the root but its parent.
LEMMA InsideRoot ==
    ASSUME NEW g, Good(g), NEW x \in Live \ {rightSentinel}
    PROVE  leftSentinel \in Live /\ x \in Inside(g, leftSentinel)
<1>1. /\ {leftSentinel, rightSentinel} \subseteq Live /\ leftSentinel # rightSentinel
      /\ \A z \in Live : value[z] \in Int
    BY LiveFacts, NodeAssumption DEF Shape
<1>2. PICK e \in Side : g.child[e][rightSentinel] = leftSentinel
    BY <1>1, LiveFacts DEF Shape, Rooted
<1>3. g.bound[Opp(e)][leftSentinel] = rightSentinel
    BY <1>1, <1>2, LiveFacts, NodeAssumption DEF Shape, Hung
<1>4. \A d \in Side : g.bound[d][leftSentinel] # NULL =>
          g.bound[d][leftSentinel] \in Live /\ Beside(d, g.bound[d][leftSentinel], leftSentinel)
    BY <1>1, LiveFacts DEF Shape, Bounded
<1>5. g.bound["right"][leftSentinel] = NULL
    <2>1. \A y \in Live \ {leftSentinel} : value[y] < value[leftSentinel]
        BY <1>1, LiveFacts DEF Shape, Ordered, Side, End, Beside
    <2> QED
        BY <1>1, <1>4, <2>1 DEF Beside, Side
<1>6. g.bound["left"][leftSentinel] = rightSentinel
    <2>1. Opp(e) # "right"
        BY <1>1, <1>3, <1>5, NodeAssumption
    <2> QED
        BY <1>3, <2>1 DEF Side, Opp
<1>7. Beside("left", rightSentinel, x)
    BY LiveFacts DEF Shape, Ordered, Side, End
<1> QED
    BY <1>1, <1>5, <1>6, <1>7 DEF Inside, Side

\* A search that is not at its end goes on to a smaller subtree.
LEMMA Descends ==
    ASSUME NEW g, Good(g), NEW n \in Live, NEW x \in Inside(g, n), NEW e \in Side,
           Beside(e, x, n)
    PROVE  /\ g.child[e][n] \in Live /\ x \in Inside(g, g.child[e][n])
           /\ Inside(g, g.child[e][n]) \subseteq Inside(g, n) \ {n}
           /\ n \in Inside(g, n)
<1>1. /\ x \in Live /\ NULL \notin Live /\ \A z \in Live : value[z] \in Int
      /\ Opp(e) \in Side /\ \A d \in Side : d \in {e, Opp(e)}
    BY LiveFacts, NodeAssumption DEF Inside, Side, Opp, Shape
<1>2. n # End(e)
    <2>1. x # End(e) => Beside(e, End(e), x)
        BY <1>1, LiveFacts DEF Shape, Ordered
    <2> QED
        BY <1>1, <2>1 DEF Beside
<1>3. g.child[e][n] # NULL
    <2> SUFFICES ASSUME g.child[e][n] = NULL PROVE FALSE
        OBVIOUS
    <2> DEFINE y == g.near[e][n]
    <2>1. y = g.bound[e][n]
        BY LiveFacts DEF Shape, Gapped
    <2>2. y \in Live /\ ~(Beside(e, y, x) /\ Beside(e, x, n))
        BY <1>1, <1>2, LiveFacts DEF Shape, Ordered
    <2>3. Beside(e, y, x)
        BY <1>1, <2>1, <2>2 DEF Inside
    <2> QED
        BY <2>2, <2>3
<1> DEFINE c == g.child[e][n]
<1>4. c \in Live /\ g.bound[Opp(e)][c] = n /\ g.bound[e][c] = g.bound[e][n]
    BY <1>3, LiveFacts DEF Shape, Hung
<1>5. \A d \in Side : g.bound[d][n] # NULL =>
          g.bound[d][n] \in Live /\ Beside(d, g.bound[d][n], n)
    BY LiveFacts DEF Shape, Bounded
<1>6. n \in Inside(g, n)
    BY <1>5 DEF Inside
<1>7. \A z \in Live : z \in Inside(g, c) <=>
          Beside(Opp(e), n, z) /\ (g.bound[e][n] # NULL => Beside(e, g.bound[e][n], z))
    BY <1>1, <1>4 DEF Inside
<1>8. x \in Inside(g, c)
    <2>1. Beside(Opp(e), n, x)
        BY <1>1 DEF Beside, Opp, Side
    <2>2. g.bound[e][n] # NULL => Beside(e, g.bound[e][n], x)
        BY DEF Inside
    <2> QED
        BY <1>1, <1>7, <2>1, <2>2
<1>9. ASSUME NEW z \in Inside(g, c) PROVE z \in Inside(g, n) \ {n}
    <2>1. /\ z \in Live /\ Beside(Opp(e), n, z)
          /\ g.bound[e][n] # NULL => Beside(e, g.bound[e][n], z)
        BY <1>7 DEF Inside
    <2>2. g.bound[Opp(e)][n] # NULL => Beside(Opp(e), g.bound[Opp(e)][n], z)
        BY <1>1, <1>5, <2>1 DEF Beside
    <2>3. z # n
        BY <1>1, <2>1 DEF Beside
    <2> QED
        BY <1>1, <2>1, <2>2, <2>3 DEF Inside
<1> QED
    BY <1>4, <1>6, <1>8, <1>9

\* A search for the value of a live node ends at it: each step leads to a smaller
\* subtree that the node is inside of (main.cpp:115-131).
LEMMA SearchFinds ==
    ASSUME NEW g, Good(g), Settled, IsFiniteSet(Node), NEW x \in Live \ {rightSentinel}
    PROVE  Find(value[x]) = x
<1>0. PICK k : k = value[x]
    OBVIOUS
<1>1. PICK C : C = Cardinality(Node) /\ C \in Nat
    BY FS_CardinalityType
<1>2. PICK w : /\ w[0] = root /\ Find(k) = w[C]
               /\ \A i \in 1 .. C : w[i] = IF w[i - 1] = NULL \/ value[w[i - 1]] = k THEN w[i - 1]
                                           ELSE Child(w[i - 1], k)
    BY <1>1, WayOf DEF Good
<1> DEFINE Close(i) ==
        \/ w[i] = x
        \/ /\ w[i] \in Live /\ x \in Inside(g, w[i])
           /\ Cardinality(Inside(g, w[i])) + i <= C
<1>3. /\ x \in Live /\ NULL \notin Live /\ Live \subseteq Node
      /\ \A z \in Live : value[z] \in Int
      /\ \A z \in Live : z # x => value[z] # k
    BY <1>0, LiveFacts, NodeAssumption DEF Shape
<1>4. \A n \in Live : /\ IsFiniteSet(Inside(g, n)) /\ Cardinality(Inside(g, n)) \in Nat
                      /\ Cardinality(Inside(g, n)) <= C
    <2> TAKE n \in Live
    <2>1. Inside(g, n) \in SUBSET Node
        BY <1>3 DEF Inside
    <2> QED
        BY <1>1, <2>1, FS_Subset, FS_CardinalityType
<1>5. Close(0)
    BY <1>1, <1>2, <1>4, InsideRoot DEF root
<1>6. ASSUME NEW i \in 1 .. C, Close(i - 1) PROVE Close(i)
    <2>1. PICK n : n = w[i - 1]
        OBVIOUS
    <2>2. CASE n = x
        BY <1>0, <1>2, <1>3, <2>1, <2>2
    <2>3. CASE n # x
        <3>1. n \in Live /\ x \in Inside(g, n) /\ Cardinality(Inside(g, n)) + i - 1 <= C
            BY <1>1, <1>4, <1>6, <2>1, <2>3
        <3>2. w[i] = Child(n, k) /\ value[n] # k
            BY <1>2, <1>3, <2>1, <2>3, <3>1
        <3>3. PICK e \in Side : Beside(e, x, n) /\ Child(n, k) = g.child[e][n]
            BY <1>0, <1>3, <3>1, <3>2, SettledFields DEF Side, Beside, Child
        <3>4. PICK c : c = g.child[e][n]
            OBVIOUS
        <3>5. /\ c \in Live /\ x \in Inside(g, c)
              /\ Inside(g, c) \subseteq Inside(g, n) \ {n} /\ n \in Inside(g, n)
            BY <3>1, <3>3, <3>4, Descends
        <3>6. Cardinality(Inside(g, c)) < Cardinality(Inside(g, n))
            <4>1. Inside(g, c) \in SUBSET Inside(g, n) /\ Inside(g, c) # Inside(g, n)
                BY <3>5
            <4> QED
                BY <1>4, <3>1, <3>5, <4>1, FS_Subset
        <3>7. Cardinality(Inside(g, c)) + i <= C
            BY <1>1, <1>4, <3>1, <3>5, <3>6
        <3> QED
            BY <3>2, <3>3, <3>4, <3>5, <3>7
    <2> QED
        BY <2>2, <2>3
<1>7. Close(C)
    <2> HIDE DEF Close
    <2> DEFINE Far == {i \in Nat : i <= C /\ ~Close(i)}
    <2> SUFFICES ASSUME Far # {} PROVE FALSE
        BY <1>1
    <2>1. PICK i \in Far : \A j \in Far : ~(j < i)
        BY Least
    <2>2. i # 0 /\ i \in 1 .. C /\ i - 1 \in Nat
        BY <1>1, <1>5, <2>1
    <2>3. Close(i - 1)
        BY <1>1, <2>1, <2>2
    <2> QED
        BY <1>6, <2>1, <2>2, <2>3
<1>8. w[C] = x
    <2> SUFFICES ASSUME w[C] # x PROVE FALSE
        OBVIOUS
    <2>1. w[C] \in Live /\ x \in Inside(g, w[C]) /\ Cardinality(Inside(g, w[C])) + C <= C
        BY <1>7
    <2>2. Cardinality(Inside(g, w[C])) = 0
        BY <1>1, <1>4, <2>1
    <2> QED
        BY <1>4, <2>1, <2>2, FS_EmptySet
<1> QED
    BY <1>0, <1>2, <1>8
\* Every node is inside its own bounds.
LEMMA InsideSelf ==
    ASSUME NEW g, Good(g), NEW n \in Live
    PROVE  n \in Inside(g, n)
    BY LiveFacts DEF Shape, Bounded, Inside

\* Its child on side e, if it has one, is inside them too.
LEMMA InsideChild ==
    ASSUME NEW g, Good(g), NEW n \in Live, NEW e \in Side, g.child[e][n] # NULL
    PROVE  g.child[e][n] \in Inside(g, n) /\ Beside(e, g.child[e][n], n)
<1> DEFINE c == g.child[e][n]
<1>1. /\ c \in Live /\ g.bound[e][c] = g.bound[e][n] /\ Beside(e, c, n)
    BY LiveFacts, ChildOf
<1>2. \A z \in Live : \A d \in Side : g.bound[d][z] # NULL =>
          g.bound[d][z] \in Live /\ Beside(d, g.bound[d][z], z)
    BY LiveFacts DEF Shape, Bounded
<1>3. \A z \in Live : value[z] \in Int
    BY LiveFacts, NodeAssumption DEF Shape
<1>4. ASSUME NEW d \in Side, g.bound[d][n] # NULL
      PROVE  Beside(d, g.bound[d][n], c)
    <2>1. CASE d = e
        BY <1>1, <1>2, <1>4, <2>1
    <2>2. CASE d # e
        BY <1>1, <1>2, <1>3, <1>4, <2>2 DEF Beside, Side
    <2> QED
        BY <2>1, <2>2
<1> QED
    BY <1>1, <1>4 DEF Inside

\* A search ends at a live node with its key or past a leaf (main.cpp:115-131).
LEMMA SearchEnds ==
    ASSUME NEW g, Good(g), Settled, IsFiniteSet(Node), NEW k \in Int
    PROVE  Find(k) # NULL => Find(k) \in Live /\ value[Find(k)] = k
<1>1. PICK C : C = Cardinality(Node) /\ C \in Nat
    BY FS_CardinalityType
<1>2. PICK w : /\ w[0] = root /\ Find(k) = w[C]
               /\ \A i \in 1 .. C : w[i] = IF w[i - 1] = NULL \/ value[w[i - 1]] = k THEN w[i - 1]
                                           ELSE Child(w[i - 1], k)
    BY <1>1, WayOf DEF Good
<1> DEFINE Past(i) ==
        w[i] # NULL =>
            w[i] \in Live /\ (value[w[i]] = k \/ Cardinality(Inside(g, w[i])) + i <= C)
<1>3. /\ NULL \notin Live /\ Live \subseteq Node /\ rightSentinel \in Live
      /\ \A z \in Live : value[z] \in Int
    BY LiveFacts, NodeAssumption DEF Shape
<1>4. \A n \in Live : /\ IsFiniteSet(Inside(g, n)) /\ Cardinality(Inside(g, n)) \in Nat
                      /\ Cardinality(Inside(g, n)) <= C
    <2> TAKE n \in Live
    <2>1. Inside(g, n) \in SUBSET Node
        BY <1>3 DEF Inside
    <2> QED
        BY <1>1, <2>1, FS_Subset, FS_CardinalityType
<1>5. Past(0)
    <2>1. w[0] \in Live
        BY <1>2, LiveFacts DEF root
    <2>2. Cardinality(Inside(g, w[0])) \in Nat /\ Cardinality(Inside(g, w[0])) <= C
        BY <1>4, <2>1
    <2> QED
        BY <1>1, <2>1, <2>2
<1>6. ASSUME NEW i \in 1 .. C, Past(i - 1) PROVE Past(i)
    <2>1. PICK n : n = w[i - 1]
        OBVIOUS
    <2>2. CASE n = NULL \/ value[n] = k
        BY <1>2, <1>6, <2>1, <2>2
    <2>3. CASE n # NULL /\ value[n] # k
        <3>1. n \in Live /\ Cardinality(Inside(g, n)) + i - 1 <= C
            BY <1>1, <1>4, <1>6, <2>1, <2>3
        <3>2. w[i] = Child(n, k)
            BY <1>2, <2>1, <2>3
        <3>3. PICK e \in Side : Child(n, k) = g.child[e][n]
            BY <3>1, SettledFields DEF Side, Child
        <3>4. PICK c : c = g.child[e][n]
            OBVIOUS
        <3> SUFFICES ASSUME c # NULL PROVE c \in Live /\ Cardinality(Inside(g, c)) + i <= C
            BY <3>2, <3>3, <3>4
        <3>5. /\ c \in Live
              /\ Inside(g, c) \subseteq Inside(g, n) \ {n} /\ n \in Inside(g, n)
            <4>1. c \in Inside(g, n) /\ Beside(e, c, n)
                BY <3>1, <3>4, InsideChild
            <4> QED
                BY <3>1, <3>4, <4>1, Descends
        <3>6. Cardinality(Inside(g, c)) < Cardinality(Inside(g, n))
            <4>1. Inside(g, c) \in SUBSET Inside(g, n) /\ Inside(g, c) # Inside(g, n)
                BY <3>5
            <4> QED
                BY <1>4, <3>1, <3>5, <4>1, FS_Subset
        <3> QED
            BY <1>1, <1>4, <3>1, <3>5, <3>6
    <2> QED
        BY <2>2, <2>3
<1>7. Past(C)
    <2> HIDE DEF Past
    <2> DEFINE Far == {i \in Nat : i <= C /\ ~Past(i)}
    <2> SUFFICES ASSUME Far # {} PROVE FALSE
        BY <1>1
    <2>1. PICK i \in Far : \A j \in Far : ~(j < i)
        BY Least
    <2>2. i # 0 /\ i \in 1 .. C /\ i - 1 \in Nat
        BY <1>1, <1>5, <2>1
    <2>3. Past(i - 1)
        BY <1>1, <2>1, <2>2
    <2> QED
        BY <1>6, <2>1, <2>2, <2>3
<1> SUFFICES ASSUME w[C] # NULL PROVE w[C] \in Live /\ value[w[C]] = k
    BY <1>2
<1>8. w[C] \in Live /\ (value[w[C]] = k \/ Cardinality(Inside(g, w[C])) + C <= C)
    BY <1>7
<1>9. Cardinality(Inside(g, w[C])) # 0
    BY <1>4, <1>8, InsideSelf, FS_EmptySet
<1> QED
    BY <1>1, <1>4, <1>8, <1>9

-----------------------------------------------------------------------------
(* The theorems *)

\* At every moment the pointers in memory, once the pending stores of all threads
\* are made, form a binary search tree and a list in key order over the unmarked
\* nodes, and every call knows what its locks protect (main.cpp:107-453).
THEOREM HeapInOrder == Spec => []InOrder
<1>1. Init => InOrder
    BY InitHeap DEF InOrder
<1> QED
    BY <1>1, NextHeap, PTL DEF Spec

\* A key has at most one unmarked node, for any number of threads and keys: two adds
\* of one key cannot both find its place free (main.cpp:135-164).
THEOREM Unique == Spec => []NoDuplicate
<1>1. InOrder => NoDuplicate
    BY OneNodePerKey DEF InOrder
<1> QED
    BY <1>1, HeapInOrder, PTL

\* add, remove and contains dereference and lock no null pointer, whatever the
\* other threads did since the pointer was read (main.cpp:119-144, 252-419).
THEOREM SafeDereferences == Spec => []NoNullDereference
<1>1. InOrder => NoNullDereference
    BY Dereferences DEF InOrder
<1> QED
    BY <1>1, HeapInOrder, PTL

\* When remove marks a node, all it has read of its surroundings, by whatever
\* mixture of locked and unlocked reads, is true (main.cpp:266-434).
THEOREM FreshMarks == Spec => []FreshWhenMarking
<1>1. InOrder => FreshWhenMarking
    BY FreshReads DEF InOrder
<1> QED
    BY <1>1, HeapInOrder, PTL

\* Two threads never have stores to the same pointer pending: although no lock is
\* that of the snapshots, their writers exclude each other (main.cpp:152-164, 435-451).
THEOREM StoresApart == Spec => []NoStoreRace
<1>1. InOrder => NoStoreRace
    BY DEF InOrder, Good, HeapInv
<1> QED
    BY <1>1, HeapInOrder, PTL

\* No store links a removed node back in or hangs a node under a removed one
\* (main.cpp:152-164, 435-451).
THEOREM TargetsAlive == Spec => []NoDeadTarget
<1>1. InOrder => NoDeadTarget
    BY TargetsLive DEF InOrder
<1> QED
    BY <1>1, HeapInOrder, PTL

\* Whenever no update is half done, children point back to their parents, a search
\* finds every unmarked node, and the snapshots link them in key order both ways
\* (main.cpp:115-131, 152-164, 435-451).
THEOREM SettledShape ==
    ASSUME IsFiniteSet(Node)
    PROVE  Spec => []Consistent
<1>1. InOrder => Consistent
    <2> SUFFICES ASSUME InOrder, Settled PROVE TreeShape /\ SnapshotShape
        BY DEF Consistent
    <2>1. PICK g : Good(g)
        BY DEF InOrder
    <2> QED
        BY <2>1, SettledHeap, SearchFinds DEF TreeShape
<1> QED
    BY <1>1, HeapInOrder, PTL

-----------------------------------------------------------------------------
(* The tree as a set of keys *)

\* What a step of t is to KeySet: nothing, an answer, or a change of the set.
Goes(t) ==
    /\ pc[t] # "idle" /\ op' = op /\ result' = result /\ Live' = Live
    /\ \E l \in Location \ {"idle"} :
          pc' = [pc EXCEPT ![t] = l] /\ (l = "store" <=> pc[t] = "store")

Answers(t) ==
    /\ pc[t] # "idle" /\ Live' = Live /\ pc' = [pc EXCEPT ![t] = "idle"]
    /\ op' = [op EXCEPT ![t] = NoOp]
    /\ \E a \in S!Answer :
          /\ result' = [result EXCEPT ![t] = a]
          /\ op[t].type = "add"    => (a = "absent"  <=> pc[t] = "store")
          /\ op[t].type = "remove" => (a = "present" <=> pc[t] = "store")

Changes(t) ==
    /\ pc[t] \notin {"idle", "store"} /\ pc' = [pc EXCEPT ![t] = "store"]
    /\ op' = op /\ result' = result
    /\ Keys(Live)' = S!After(Keys(Live), op[t]) /\ Keys(Live)' # Keys(Live)

\* The kinds of step that go on.
LEMMA Going ==
    ASSUME TypeOK, NEW t \in Thread, pc[t] \notin {"idle", "store"}, heap' = heap
    PROVE  /\ \A l \in Location \ {"idle", "store"} : \A r : Proceed(t, l, r) => Goes(t)
           /\ Retry(t) => Goes(t)
<1>1. Live' = Live
    BY DEF heap, Live
<1> QED
    BY <1>1 DEF Proceed, Retry, Goto, Goes, Location

\* Those that lock.
LEMMA GoingLocked ==
    ASSUME TypeOK, NEW t \in Thread, pc[t] \notin {"idle", "store"},
           NEW l \in Location \ {"idle", "store"}, NEW n, NEW stale,
           Lock(t, n, l) \/ TryLock(t, n, stale, l)
    PROVE  Goes(t)
<1>1. CASE Lock(t, n, l)
    BY <1>1, Going DEF Lock
<1>2. CASE Retry(t) /\ UNCHANGED <<heap, leaked, todo>>
    BY <1>2, Going
<1> QED
    BY <1>1, <1>2 DEF TryLock

\* The kind of step that answers.
LEMMA Answering ==
    ASSUME NEW t \in Thread, pc[t] # "idle", heap' = heap, NEW a \in S!Answer, NEW kept,
           Return(t, a, kept),
           op[t].type = "add"    => (a = "absent"  <=> pc[t] = "store"),
           op[t].type = "remove" => (a = "present" <=> pc[t] = "store")
    PROVE  Answers(t)
<1>1. Live' = Live
    BY DEF heap, Live
<1> QED
    BY <1>1 DEF Return, Goto, Answers

\* A step of add or remove that is not the one that counts.
LEMMA StepKinds ==
    ASSUME NEW g, Good(g), NEW t \in Thread, Step(t),
           ~AddSnapshot(t), ~UnlinkLeaf(t), ~UnlinkOneChild(t), ~PromoteRight(t), ~ApplyRemove(t)
    PROVE  Goes(t) \/ Answers(t)
<1> DEFINE r == reg[t]
<1>1. TypeOK /\ Calling(pc[t], op[t], r)
    BY KnownHere DEF Good, Knows
<1>2. S!Answer = {"present", "absent"}
    BY DEF S!Answer
<1>3. CASE Walk(t)
    <2>1. Proceed(t, "walk", [r EXCEPT !.node = Child(r.node, op[t].key)])
          \/ Proceed(t, IF op[t].type = "add" THEN "addLock" ELSE "miss", r)
        BY <1>3 DEF Walk
    <2>2. pc[t] = "walk" /\ heap' = heap
        BY <1>3 DEF Walk
    <2> QED
        BY <1>1, <2>1, <2>2, Going DEF Location
<1>4. CASE Found(t)
    BY <1>2, <1>4, Answering DEF Found
<1>5. CASE MissSnapshot(t)
    <2>1. op[t].type # "add" /\ pc[t] = "miss" /\ heap' = heap
        BY <1>1, <1>5 DEF MissSnapshot, Calling
    <2>2. Retry(t) \/ Return(t, "absent", leaked[t])
        BY <1>5 DEF MissSnapshot
    <2> QED
        BY <1>1, <1>2, <2>1, <2>2, Going, Answering
<1>6. CASE AddLock(t)
    BY <1>1, <1>6, GoingLocked DEF AddLock, Location
<1>7. CASE ReadParent(t) \/ LockParent(t)
    <2>1. Proceed(t, "lockParent", [r EXCEPT !.parent = Parent(r.node)])
          \/ Proceed(t, IF Parent(r.node) # r.parent THEN "recheck" ELSE "lockNode", r)
        BY <1>7 DEF ReadParent, LockParent
    <2>2. pc[t] \in {"walk", "lockParent"} /\ heap' = heap
        BY <1>7 DEF ReadParent, LockParent
    <2> QED
        BY <1>1, <2>1, <2>2, Going DEF Location
<1>8. CASE Recheck(t)
    <2>1. op[t].type = "remove" /\ pc[t] = "recheck" /\ heap' = heap
        BY <1>1, <1>8 DEF Recheck, Calling, RemovePlaces
    <2>2. Retry(t) \/ Return(t, "absent", held[t])
        BY <1>8 DEF Recheck
    <2> QED
        BY <1>1, <1>2, <2>1, <2>2, Going, Answering
<1>9. CASE RemovedMeanwhile(t)
    <2>1. op[t].type = "remove" /\ pc[t] = "lockNode" /\ heap' = heap
        BY <1>1, <1>9 DEF RemovedMeanwhile, Calling, RemovePlaces
    <2>2. Return(t, "absent", leaked[t])
        BY <1>9 DEF RemovedMeanwhile
    <2> QED
        BY <1>2, <2>1, <2>2, Answering
<1>10. CASE DoStore(t)
    <2>1. /\ pc[t] = "store" /\ Live' = Live
          /\ op[t].type \in {"add", "remove"}
        BY <1>1, <1>10 DEF DoStore, Live, Calling
    <2>2. CASE UNCHANGED <<held, pc, op, reg, result>>
        <3>1. pc' = [pc EXCEPT ![t] = "store"]
            BY <1>1, <2>1, <2>2 DEF TypeOK
        <3> QED
            BY <2>1, <2>2, <3>1 DEF Goes, Location
    <2>3. CASE Return(t, IF op[t].type = "add" THEN "absent" ELSE "present", leaked[t])
        BY <1>2, <2>1, <2>3 DEF Return, Goto, Answers
    <2> QED
        BY <1>10, <2>2, <2>3 DEF DoStore
<1>11. CASE LockNode(t) \/ ReadPred(t) \/ ReadSucc(t) \/ ReadSuccParent(t)
    <2>1. \E l \in Location \ {"idle", "store"} : \E x : Proceed(t, l, x)
        BY <1>11 DEF LockNode, ReadPred, ReadSucc, ReadSuccParent, Location
    <2>2. pc[t] \in {"lockNode", "readPred", "readSucc", "readSuccParent"} /\ heap' = heap
        BY <1>11 DEF LockNode, ReadPred, ReadSucc, ReadSuccParent
    <2> QED
        BY <1>1, <2>1, <2>2, Going
<1>12. CASE LockChild(t) \/ LockLeft(t) \/ LockRight(t) \/ LockSnapshot(t) \/ LockRightNode(t)
    BY <1>1, <1>12, GoingLocked
       DEF LockChild, LockLeft, LockRight, LockSnapshot, LockRightNode, Location
<1>13. CASE LockSuccParent(t) \/ LockSucc(t) \/ LockSuccRightSnapshot(t)
    BY <1>1, <1>13, GoingLocked DEF LockSuccParent, LockSucc, LockSuccRightSnapshot, Location
<1>14. CASE RecheckSucc(t) \/ LockSuccRight(t)
    <2>1. Retry(t) \/ \E l \in Location \ {"idle", "store"} : \E x : Proceed(t, l, x)
        BY <1>14 DEF RecheckSucc, LockSuccRight, Location
    <2>2. pc[t] \in {"recheckSucc", "lockSuccRight"} /\ heap' = heap
        BY <1>14 DEF RecheckSucc, LockSuccRight
    <2> QED
        BY <1>1, <2>1, <2>2, Going
<1> QED
    BY <1>3, <1>4, <1>5, <1>6, <1>7, <1>8, <1>9, <1>10, <1>11, <1>12, <1>13, <1>14 DEF Step

\* A node is added for a key that no live node has (main.cpp:143-150).
LEMMA AddChanges ==
    ASSUME NEW g, Good(g), NEW t \in Thread, AddSnapshot(t)
    PROVE  Goes(t) \/ Changes(t)
<1> DEFINE x == reg[t].node
           k == op[t].key
<1>1. pc[t] = "addSnapshot" /\ TypeOK
    BY DEF AddSnapshot, Good
<1>2. CASE Outside(x, k, Snapshot(x, k))
    <2>1. Retry(t) /\ heap' = heap
        BY <1>2 DEF AddSnapshot, heap
    <2> QED
        BY <1>1, <2>1, Going
<1>3. CASE ~Outside(x, k, Snapshot(x, k))
    <2>1. Proceed(t, "store", reg[t])
        BY <1>3 DEF AddSnapshot
    <2>2. pc' = [pc EXCEPT ![t] = "store"] /\ op' = op /\ result' = result /\ pc'[t] # "walk"
        BY <1>1, <2>1 DEF Proceed, Goto, TypeOK
    <2>3. PICK n, e, a, m : e \in Side /\ Placing(g, t, e, n, a, m)
        BY <1>3, <2>2, PlacingEffect
    <2>4. /\ n \in Live \ {End(e)} /\ op[t] \in S!Op /\ op[t].type = "add"
          /\ m \in Node \ alloc /\ value[m] = op[t].key /\ Beside(e, a, m) /\ Beside(e, m, n)
          /\ g.near[e][n] = a /\ Live' = Live \cup {m}
        BY <2>3 DEF Placing
    <2>5. m \notin {leftSentinel, rightSentinel} /\ Live \subseteq Node /\ m \notin Live
        BY <2>4, LiveFacts
    <2>6. ASSUME NEW z \in Live PROVE value[z] # op[t].key
        <3> SUFFICES ASSUME value[z] = value[m] PROVE FALSE
            BY <2>4
        <3>1. Beside(e, a, z) /\ Beside(e, z, n)
            BY <2>4 DEF Beside
        <3>2. ~(Beside(e, g.near[e][n], z) /\ Beside(e, z, n))
            BY <2>3, <2>4, LiveFacts DEF Shape, Ordered
        <3> QED
            BY <2>4, <3>1, <3>2
    <2>7. op[t].key \notin Keys(Live) /\ Keys(Live)' = Keys(Live) \cup {op[t].key}
        BY <2>4, <2>5, <2>6 DEF Keys
    <2>8. S!After(Keys(Live), op[t]) = Keys(Live) \cup {op[t].key}
        BY <2>4 DEF S!After
    <2> QED
        BY <1>1, <2>2, <2>7, <2>8 DEF Changes
<1> QED
    BY <1>2, <1>3

\* A node is marked, and no other live node has its key (main.cpp:266-434).
LEMMA RemoveChanges ==
    ASSUME NEW g, Good(g), NEW t \in Thread, NEW l \in NodePlaces, NEW stores, Mark(t, l, stores)
    PROVE  Changes(t)
<1> DEFINE n == reg[t].node
<1>1. /\ n \in Live /\ Live' = Live \ {n} /\ pc[t] = l /\ op' = op
      /\ op[t].type = "remove" /\ op[t] \in S!Op
    BY MarkEffect
<1>2. pc' = [pc EXCEPT ![t] = "store"] /\ result' = result
    BY DEF Mark, Proceed, Goto
<1>3. n \notin {leftSentinel, rightSentinel} /\ op[t].key = value[n]
    BY <1>1, NodeHeld DEF Base
<1>4. \A z \in Live : z # n => value[z] # value[n]
    BY <1>1, LiveFacts DEF Shape
<1>5. value[n] \in Keys(Live) /\ Keys(Live)' = Keys(Live) \ {value[n]}
    BY <1>1, <1>3, <1>4 DEF Keys
<1>6. S!After(Keys(Live), op[t]) = Keys(Live) \ {value[n]}
    BY <1>1, <1>3 DEF S!After
<1>7. pc[t] \notin {"idle", "store"}
    BY <1>1 DEF NodePlaces, OnePlaces, TwoPlaces, PredPlaces, DeepPlaces, SuccParentPlaces, SuccPlaces
<1> QED
    BY <1>1, <1>2, <1>5, <1>6, <1>7 DEF Changes

\* Between calls a thread has no call.
IdleOp == \A t \in Thread : pc[t] = "idle" => op[t] = NoOp

\* Every step of a call is one of the three kinds.
LEMMA StepIs ==
    ASSUME NEW g, Good(g), NEW t \in Thread, Step(t)
    PROVE  Goes(t) \/ Answers(t) \/ Changes(t)
<1>1. CASE AddSnapshot(t)
    BY <1>1, AddChanges
<1>2. CASE UnlinkLeaf(t) \/ UnlinkOneChild(t) \/ PromoteRight(t) \/ ApplyRemove(t)
    <2>1. {"unlinkLeaf", "unlinkOneChild", "promoteRight", "applyRemove"} \subseteq NodePlaces
        BY DEF NodePlaces, OnePlaces, TwoPlaces, PredPlaces, DeepPlaces, SuccParentPlaces, SuccPlaces
    <2> QED
        BY <1>2, <2>1, RemoveChanges DEF UnlinkLeaf, UnlinkOneChild, PromoteRight, ApplyRemove
<1> QED
    BY <1>1, <1>2, StepKinds

\* No step leaves a call to a thread that has returned.
LEMMA IdleKept == InOrder /\ IdleOp /\ [Next]_vars => IdleOp'
<1> SUFFICES ASSUME InOrder, IdleOp, [Next]_vars PROVE IdleOp'
    OBVIOUS
<1>1. PICK g : Good(g)
    BY DEF InOrder
<1>2. TypeOK
    BY <1>1 DEF Good
<1>3. CASE UNCHANGED vars
    BY <1>3 DEF vars, IdleOp
<1>4. ASSUME NEW t \in Thread, Step(t) PROVE IdleOp'
    BY <1>1, <1>2, <1>4, StepIs DEF Goes, Answers, Changes, IdleOp, TypeOK
<1>5. ASSUME NEW t \in Thread, NEW o, Call(t, o) PROVE IdleOp'
    BY <1>2, <1>5 DEF Call, Goto, IdleOp, TypeOK
<1> QED
    BY <1>3, <1>4, <1>5 DEF Next

-----------------------------------------------------------------------------
(* Each step of the tree is one of KeySet, or none *)

\* What took is, seen from KeySet.
Took == [t \in Thread |-> pc[t] = "store"]

\* took changes only with the stores of the thread that moves.
LEMMA TookAfter ==
    ASSUME TypeOK, NEW t \in Thread, NEW l \in Location, pc' = [pc EXCEPT ![t] = l]
    PROVE  /\ (l = "store" <=> pc[t] = "store") => Took' = Took
           /\ l = "store" => Took' = [Took EXCEPT ![t] = TRUE]
           /\ l # "store" => Took' = [Took EXCEPT ![t] = FALSE]
<1>1. \A u \in Thread : pc'[u] = IF u = t THEN l ELSE pc[u]
    BY DEF TypeOK
<1>2. ASSUME l = "store" <=> pc[t] = "store" PROVE Took' = Took
    <2>1. \A u \in Thread : (pc'[u] = "store") = (pc[u] = "store")
        BY <1>1, <1>2
    <2> QED
        BY <2>1 DEF Took
<1>3. ASSUME l = "store" PROVE Took' = [Took EXCEPT ![t] = TRUE]
    <2>1. \A u \in Thread : (pc'[u] = "store") = (IF u = t THEN TRUE ELSE pc[u] = "store")
        BY <1>1, <1>3
    <2> QED
        BY <2>1 DEF Took
<1>4. ASSUME l # "store" PROVE Took' = [Took EXCEPT ![t] = FALSE]
    <2>1. \A u \in Thread : (pc'[u] = "store") = (IF u = t THEN FALSE ELSE pc[u] = "store")
        BY <1>1, <1>4
    <2> QED
        BY <2>1 DEF Took
<1> QED
    BY <1>2, <1>3, <1>4

\* The initial set is empty.
LEMMA InitIsKeySet == Init => K!Init
<1> SUFFICES ASSUME Init PROVE K!Init
    OBVIOUS
<1>1. Keys(Live) = {}
    <2>1. Live = {leftSentinel, rightSentinel} \cap Live
        BY DEF Init, Live
    <2> QED
        BY <2>1 DEF Keys
<1>2. \A t \in Thread : (pc[t] = "store") = FALSE
    BY DEF Init
<1> QED
    BY <1>1, <1>2 DEF Init, K!Init

\* A call of the tree is a call of the set.
LEMMA CallIsBegin ==
    ASSUME TypeOK, IdleOp, NEW t \in Thread, NEW o \in S!Op, Call(t, o)
    PROVE  K!Begin(t, o) /\ o \in K!Op
<1>1. op[t] = NoOp /\ op' = [op EXCEPT ![t] = o] /\ result' = result /\ Keys(Live)' = Keys(Live)
    BY DEF Call, IdleOp, Live, Keys, heap
<1>2. Took' = Took
    BY TookAfter DEF Call, Goto, Location
<1>3. o \in K!Op
    BY DEF S!Op, K!Op, S!OpType, K!OpType
<1> QED
    BY <1>1, <1>2, <1>3 DEF K!Begin, Took

\* A step of a call is the corresponding step of the set, or none.
LEMMA StepIsKeySet ==
    ASSUME NEW g, Good(g), NEW t \in Thread, Step(t)
    PROVE  UNCHANGED <<Keys(Live), op, Took, result>> \/ K!Change(t) \/ K!End(t)
<1>1. TypeOK /\ Calling(pc[t], op[t], reg[t])
    BY KnownHere DEF Good, Knows
<1>2. pc[t] # "idle" => op[t] \in S!Op /\ op[t] # NoOp
    BY <1>1 DEF Calling, S!Op, S!OpType, NoOp
<1>3. CASE Goes(t)
    <2>1. Took' = Took
        BY <1>1, <1>3, TookAfter DEF Goes
    <2> QED
        BY <1>3, <2>1 DEF Goes, Keys
<1>4. CASE Answers(t)
    <2>1. Took' = [Took EXCEPT ![t] = FALSE]
        BY <1>1, <1>4, TookAfter DEF Answers, Location
    <2>2. Keys(Live)' = Keys(Live)
        BY <1>4 DEF Answers, Keys
    <2>3. PICK a \in S!Answer :
             /\ result' = [result EXCEPT ![t] = a]
             /\ op[t].type = "add"    => (a = "absent"  <=> pc[t] = "store")
             /\ op[t].type = "remove" => (a = "present" <=> pc[t] = "store")
        BY <1>4 DEF Answers
    <2>4. Took[t] = (pc[t] = "store")
        BY DEF Took
    <2>5. /\ op[t].type = "add"    => (a = "absent")  = Took[t]
          /\ op[t].type = "remove" => (a = "present") = Took[t]
        BY <2>3, <2>4
    <2>6. op[t] # NoOp /\ op' = [op EXCEPT ![t] = NoOp] /\ a \in K!Answer
        BY <1>2, <1>4, <2>3 DEF Answers, S!Answer, K!Answer
    <2> QED
        BY <2>1, <2>2, <2>3, <2>5, <2>6 DEF K!End, Took
<1>5. CASE Changes(t)
    <2>1. Took' = [Took EXCEPT ![t] = TRUE] /\ ~Took[t]
        BY <1>1, <1>5, TookAfter DEF Changes, Location, Took
    <2>2. /\ op[t] # NoOp /\ op' = op /\ result' = result
          /\ Keys(Live)' = K!After(Keys(Live), op[t]) /\ Keys(Live)' # Keys(Live)
        BY <1>2, <1>5 DEF Changes, S!After, K!After
    <2> QED
        BY <2>1, <2>2 DEF K!Change, Took
<1> QED
    BY <1>3, <1>4, <1>5, StepIs

\* So every step of the tree is one of the set, or none.
LEMMA NextIsKeySet == InOrder /\ IdleOp /\ [Next]_vars => [K!Next]_(K!setVars)
<1> SUFFICES ASSUME InOrder, IdleOp, [Next]_vars PROVE [K!Next]_(K!setVars)
    OBVIOUS
<1>1. PICK g : Good(g)
    BY DEF InOrder
<1>2. TypeOK
    BY <1>1 DEF Good
<1>3. CASE UNCHANGED vars
    BY <1>3 DEF vars, K!setVars, Keys, Live
<1>4. ASSUME NEW t \in Thread, Step(t) PROVE [K!Next]_(K!setVars)
    BY <1>1, <1>4, StepIsKeySet DEF K!Next, K!setVars, Took
<1>5. ASSUME NEW t \in Thread, NEW o \in S!Op, Call(t, o) PROVE K!Next
    BY <1>2, <1>5, CallIsBegin DEF K!Next
<1> QED
    BY <1>3, <1>4, <1>5 DEF Next

\* Seen as a set of keys the tree makes at most one change per call, at one
\* instant: add when it constructs a node, for a key that is not there, remove when
\* it marks one; and add and remove answer whether they did (main.cpp:107-453).
THEOREM TreeIsKeySet == Spec => ImplementsKeySet
<1>1. Init => IdleOp
    BY DEF Init, IdleOp
<1>2. Spec => []IdleOp
    BY <1>1, IdleKept, HeapInOrder, PTL DEF Spec
<1> QED
    BY <1>2, InitIsKeySet, NextIsKeySet, HeapInOrder, PTL DEF Spec, ImplementsKeySet, K!Spec

-----------------------------------------------------------------------------
(* The test program *)

\* The program of TestCase.tla only ever does to the tree what PaVT.tla allows, so what is
\* proved of the tree holds in the program too.
PopulationOK == toAdd \in Seq(Key)

LEMMA StartsTyped == TestInit => PopulationOK
    BY TestCaseAssumption DEF TestInit, PopulationOK

LEMMA StaysTyped == PopulationOK /\ [TestNext]_testVars => PopulationOK'
<1> SUFFICES ASSUME PopulationOK, [TestNext]_testVars PROVE PopulationOK'
    OBVIOUS
<1>1. CASE Populate
    BY <1>1 DEF Populate, PopulationOK
<1>2. CASE UNCHANGED toAdd
    BY <1>2 DEF PopulationOK
<1> QED
    BY <1>1, <1>2 DEF TestNext, testVars, Spawn, Work, InCall, Join, Exited

\* A step of the program is a step of the tree or leaves it alone.
LEMMA TestStep == PopulationOK /\ [TestNext]_testVars => [Next]_vars
<1> SUFFICES ASSUME PopulationOK, [TestNext]_testVars PROVE [Next]_vars
    OBVIOUS
<1>1. CASE Populate
    <2>1. populator \in Thread
        BY TestCaseAssumption DEF populator
    <2>2. Head(toAdd) \in Key
        BY <1>1 DEF Populate, PopulationOK
    <2>3. [type |-> "add", key |-> Head(toAdd)] \in S!Op
        BY <2>2 DEF S!Op, S!OpType
    <2> QED
        BY <1>1, <2>1, <2>3 DEF Populate, Next
<1>2. ASSUME NEW t \in Thread, Work(t) PROVE Next
    <2>1. Menu[t] \subseteq S!Op
        BY TestCaseAssumption
    <2> QED
        BY <1>2, <2>1 DEF Work, Next
<1>3. ASSUME NEW t \in Thread, InCall(t) PROVE Next
    BY <1>3 DEF InCall, Next
<1>4. CASE UNCHANGED vars
    BY <1>4
<1> QED
    BY <1>1, <1>2, <1>3, <1>4 DEF TestNext, testVars, Spawn, Join, Exited

\* populateTree, work and the joins (main.cpp:563-660) drive the tree through
\* its operations alone: every run of the program is a run of the tree.
THEOREM ProgramRunsTree == TestSpec => Spec
<1>1. TestInit => Init
    BY DEF TestInit
<1> QED
    BY StartsTyped, StaysTyped, TestStep, <1>1, PTL DEF TestSpec, Spec

\* Hence in the program, too, only the owner of a node's mutex changes its
\* tree pointers and its mark.
THEOREM ProgramGuarding == TestSpec => GuardedWrites
    BY ProgramRunsTree, Guarding, PTL

\* Whatever the lists of the workers: no key has two unmarked nodes, no null
\* pointer is followed, remove marks on true knowledge of its surroundings, and no
\* store races with another or hits a removed node (main.cpp:107-453).
THEOREM ProgramSafe ==
    TestSpec => [](/\ NoDuplicate /\ NoNullDereference /\ FreshWhenMarking
                   /\ NoStoreRace /\ NoDeadTarget)
    BY ProgramRunsTree, Unique, SafeDereferences, FreshMarks, StoresApart, TargetsAlive, PTL

\* The workers of the program see a set of keys that each call changes once at
\* most (main.cpp:563-660).
THEOREM ProgramIsKeySet == TestSpec => ImplementsKeySet
    BY ProgramRunsTree, TreeIsKeySet, PTL
=============================================================================
