------------------------------ MODULE PaVTMutex ------------------------------
(***************************************************************************)
(* The mutexes of the test program, counted.                               *)
(*                                                                         *)
(* Every node has a recursive_mutex (main.cpp:55). remove may lock one     *)
(* node under several names: the neighbour may be the only child, the      *)
(* predecessor the left child, the successor's parent the right child. The *)
(* mutex is free again only when each of these locks has been undone.      *)
(* PaVT.tla keeps the set of nodes a thread owns and empties it at the end *)
(* of an attempt; here each lock() adds one to a count and each unlock()   *)
(* that the code has at that exit takes one away.                          *)
(***************************************************************************)
EXTENDS TestCase

VARIABLE count  \* count[t][n]: lock() calls of t on n's mutex less its unlock() calls

mutexVars == <<testVars, count>>

MutexInit ==
    /\ TestInit
    /\ count = [t \in Thread |-> [n \in Ptr |-> 0]]

-----------------------------------------------------------------------------
(* The unlock() calls of the code, in its order, by the names it uses *)

\* What every exit of the branch for two children ends with (333-337, 440-449).
UnlocksOfTwo(r) == <<r.rightNode, r.right, r.left, r.node, r.parent>>

\* Mutant of UnlocksOfSucc: a mutex locked under two names is unlocked once.
UnlocksOfSuccOnce(r) ==
    (IF r.succRight = NULL THEN << >> ELSE <<r.succRight>>)
    \o <<r.leftNode>> \o (IF r.succParent = r.right THEN << >> ELSE <<r.succParent>>)

\* From succRight on up to succParent (428-437, 407-409).
UnlocksOfSucc(r) ==
    (IF r.succRight = NULL THEN << >> ELSE <<r.succRight>>) \o <<r.leftNode, r.succParent>>

\* The way out of remove after its last store (317-319, 422-449).
UnlocksWhenDone(r) ==
    IF r.left = NULL /\ r.right = NULL THEN <<r.node, r.parent>>
    ELSE IF NULL \in {r.left, r.right}
         THEN <<SnapshotToLock(r), OnlyChild(r), r.node, r.parent>>
    ELSE IF r.succParent = NULL THEN UnlocksOfTwo(r)
    ELSE (IF r.succRight \in {NULL, r.succRightSnapshot} THEN << >> ELSE <<r.succRightSnapshot>>)
         \o UnlocksOfSucc(r) \o UnlocksOfTwo(r)

\* The unlock() calls between place l and the `continue` or `return` after it.
Unlocks(t) ==
    LET r == reg[t]
        l == pc[t]
    IN  CASE l \in {"addLock", "addSnapshot"} -> <<r.node>>
          [] l = "recheck"        -> IF marked[r.node] THEN << >> ELSE <<r.parent>>
          [] l = "lockNode"       -> <<r.parent, r.node>>
          [] l = "lockSnapshot"   -> <<SnapshotToLock(r), OnlyChild(r), r.node, r.parent>>
          [] l = "lockRightNode"  -> UnlocksOfTwo(r)
          [] l \in {"lockSuccParent", "recheckSucc"} -> <<r.succParent>> \o UnlocksOfTwo(r)
          [] l = "lockSucc"       -> <<r.leftNode, r.succParent>> \o UnlocksOfTwo(r)
          [] l = "lockSuccRightSnapshot" ->
                <<r.succRightSnapshot>> \o UnlocksOfSucc(r) \o UnlocksOfTwo(r)
          [] l = "store"          -> IF op[t].type = "add" THEN <<r.node>> ELSE UnlocksWhenDone(r)
          [] OTHER                -> << >>

-----------------------------------------------------------------------------
Times(n, s) == Cardinality({i \in DOMAIN s : s[i] = n})

\* An attempt ends where its thread starts over or returns.
Leaves(t) == pc[t] \notin {"idle", "walk"} /\ pc'[t] \in {"idle", "walk"}

\* What the step of t does to the counts: a step at a place that wants a mutex
\* locks it, also when the test after it fails and all are unlocked again.
Count ==
    count' = [t \in Thread |->
        IF pc'[t] = pc[t] THEN count[t]
        ELSE [n \in Ptr |->
                count[t][n] + (IF n \in Wants(t) THEN 1 ELSE 0)
                            - (IF Leaves(t) THEN Times(n, Unlocks(t)) ELSE 0)]]

MutexNext == TestNext /\ Count

MutexSpec == MutexInit /\ [][MutexNext]_mutexVars

-----------------------------------------------------------------------------
\* The unlock() calls of every exit undo the lock() calls on the way to it,
\* also where one mutex was locked under several names: a thread owns a mutex
\* by its count exactly when it owns it in PaVT.tla, never unlocks one it does
\* not own, and keeps none that it has not leaked (main.cpp:245).
CountsBalance ==
    \A t \in Thread : \A n \in Ptr :
        /\ count[t][n] >= 0
        /\ count[t][n] > 0 <=> n \in held[t]
=============================================================================
