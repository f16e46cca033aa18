------------------------------- MODULE TxTree -------------------------------
(***************************************************************************)
(* The transactional tree of bench/main.cpp over the memory transactions   *)
(* of WordTM.tla: btree::add, remove and contains.  TM_READ is a           *)
(* transactional read, TM_WRITE a buffered write; wherever the code reads  *)
(* a field without TM_READ, the step reads mem and the transaction does    *)
(* not know.                                                               *)
(*                                                                         *)
(* A step makes one transactional access or one plain read; the            *)
(* comparisons and assignments to local variables after it belong to it.   *)
(*                                                                         *)
(* Nodes are never freed, so a node is used for one key only, its          *)
(* InitialKey, and until a transaction that constructed it has committed   *)
(* no other thread can reach it: its constructor's plain stores are part   *)
(* of the initial memory.                                                  *)
(***************************************************************************)
EXTENDS Integers, FiniteSets

CONSTANTS Thread, Key, Node,
          NULL, NoVal, NoThread,   \* null pointer; no value; no thread
          InitialKey               \* InitialKey[n]: the key node n is constructed with

ASSUME TreeAssumption ==
    /\ Key \subseteq Int
    /\ InitialKey \in [Node -> Key]
    /\ NULL \notin Node
    /\ NoVal \notin Node \cup {NULL} \cup Key
    /\ NoThread \notin Thread

VARIABLES
    mem, owner, live, log, writes, result,  \* the transactions: see WordTM.tla
    pc,      \* where thread t is
    op,      \* op[t]: its operation, or NoOp
    reg,     \* reg[t]: its local variables
    fresh,   \* the nodes not constructed yet
    answer   \* answer[t]: what its last operation returned

memory == <<mem, owner, live, log, writes, result>>
treeVars == <<memory, pc, op, reg, fresh, answer>>

S == INSTANCE OrderedSet

Ptr      == Node \cup {NULL}
rootLoc  == <<NULL, "root">>
At(n, f) == <<n, f>>
Location == {rootLoc} \cup (Node \X {"key", "left", "right"})
Word     == Ptr \cup Key
Kind(l)  == IF l[2] = "key" THEN Key ELSE Ptr

TM == INSTANCE WordTM WITH Loc <- Location, Val <- Word

EmptyTree ==
    [l \in Location |-> IF l[2] = "key" THEN InitialKey[l[1]] ELSE NULL]

\* current, prev, parent and child are the code's; from and ptr hold what was read
\* on the way to an argument; side is the child that takes the removed node's place;
\* found is what the operation will return.
Locals == [current : Ptr, prev : Ptr, leftLast : BOOLEAN, parent : Ptr, child : Ptr,
           from : Ptr, ptr : Ptr, side : {"left", "right"}, found : BOOLEAN]
Blank  == [current |-> NULL, prev |-> NULL, leftLast |-> FALSE, parent |-> NULL,
           child |-> NULL, from |-> NULL, ptr |-> NULL, side |-> "left", found |-> FALSE]
NoOp   == [type |-> "none", key |-> 0]

Reading ==
    {"add root", "add root again", "add key", "add left", "add left again",
     "add key again", "add right again",
     "contains root", "contains key", "contains left", "contains right",
     "remove root", "remove key", "remove left", "remove key again", "remove right",
     "leaf left", "leaf right", "one left", "one right", "two left",
     "parent", "child", "descend", "descend again"}
Plain   == {"add right", "plain root", "plain child", "two right", "case 1 to key",
            "case 1 key", "case 1 to right", "case 1 right", "to child", "case 2 key",
            "case 2 right"}
Writing == {"new root", "new left", "new right", "drop", "splice"}
Place   == {"idle", "begin", "commit", "store", "crashed"} \cup Reading \cup Plain \cup Writing

TypeOK ==
    /\ TM!WordTypeOK
    /\ \A l \in Location : /\ mem[l] \in Kind(l)
                           /\ \A t \in Thread : writes[t][l] \in Kind(l) \cup {NoVal}
    /\ pc \in [Thread -> Place]
    /\ op \in [Thread -> S!Op \cup {NoOp}]
    /\ reg \in [Thread -> Locals]
    /\ fresh \subseteq Node
    /\ answer \in [Thread -> S!Answer \cup {"none"}]

Init ==
    /\ TM!WordInitWith(EmptyTree)
    /\ pc = [t \in Thread |-> "idle"]
    /\ op = [t \in Thread |-> NoOp]
    /\ reg = [t \in Thread |-> Blank]
    /\ fresh = Node
    /\ answer = [t \in Thread |-> "none"]

-----------------------------------------------------------------------------
(* Steps *)

Goto(t, place, locals) ==
    /\ pc' = [pc EXCEPT ![t] = place]
    /\ reg' = [reg EXCEPT ![t] = locals]

\* A null pointer is followed: the process dies.
Crash(t) == Goto(t, "crashed", Blank) /\ UNCHANGED <<memory, op, fresh, answer>>

\* TM_READ(l) at place here; the value read is result'[t].  No operation reads what
\* it wrote.
ReadThen(t, here, l, place, locals) ==
    /\ pc[t] = here
    /\ IF l \in Location
       THEN /\ TM!ReadMem(t, l)
            /\ Goto(t, place, locals)
            /\ UNCHANGED <<op, fresh, answer>>
       ELSE Crash(t)

\* A read of l without TM_READ; the value read is mem[l].
PlainThen(t, here, l, place, locals) ==
    /\ pc[t] = here
    /\ IF l \in Location
       THEN Goto(t, place, locals) /\ UNCHANGED <<memory, op, fresh, answer>>
       ELSE Crash(t)

\* TM_WRITE(l, mem[from]) where from is read without TM_READ.
CopyThen(t, here, l, from, place) ==
    /\ pc[t] = here
    /\ IF from \in Location
       THEN /\ TM!Write(t, l, mem[from])
            /\ Goto(t, place, reg[t])
            /\ UNCHANGED <<op, fresh, answer>>
       ELSE Crash(t)

\* TM_WRITE(l, v)
WriteThen(t, here, l, v, place) ==
    /\ pc[t] = here
    /\ TM!Write(t, l, v)
    /\ Goto(t, place, reg[t])
    /\ UNCHANGED <<op, fresh, answer>>

k(t)    == op[t].key
cur(t)  == reg[t].current
read(t) == result'[t]
With(t, field, v) == [reg[t] EXCEPT ![field] = v]

\* TM_BEGIN, for the first time and after an abort.
Call(t, o) ==
    /\ pc[t] = "idle"
    /\ op' = [op EXCEPT ![t] = o]
    /\ Goto(t, "begin", Blank)
    /\ UNCHANGED <<memory, fresh, answer>>

Begin(t) ==
    /\ pc[t] = "begin"
    /\ TM!Begin(t)
    /\ Goto(t, CASE op[t].type = "add"      -> "add root"
                 [] op[t].type = "remove"   -> "remove root"
                 [] op[t].type = "contains" -> "contains root", Blank)
    /\ UNCHANGED <<op, fresh, answer>>

\* A read or a commit finds that a value of the log has changed: longjmp to the
\* beginning.  A node that was constructed is lost; here it is used again.
Abort(t) ==
    /\ pc[t] \in Reading \cup {"commit"}
    /\ pc[t] = "commit" => writes[t] # TM!NoWrites
    /\ TM!Abort(t)
    /\ Goto(t, "begin", Blank)
    /\ fresh' = IF op[t].type = "add" THEN fresh \cup ({reg[t].ptr} \ {NULL}) ELSE fresh
    /\ UNCHANGED <<op, answer>>

\* The operation is over.
Return(t) ==
    /\ Goto(t, "idle", Blank)
    /\ op' = [op EXCEPT ![t] = NoOp]
    /\ answer' = [answer EXCEPT ![t] = IF op[t].type = "add" THEN "none"
                                         ELSE IF reg[t].found THEN "present" ELSE "absent"]
    /\ UNCHANGED fresh

\* TM_END, and stm::commit before a return.
CommitReadOnly(t) == pc[t] = "commit" /\ TM!CommitReadOnly(t) /\ Return(t)

Acquire(t) ==
    /\ pc[t] = "commit"
    /\ TM!Acquire(t)
    /\ Goto(t, "store", reg[t])
    /\ UNCHANGED <<op, fresh, answer>>

\* The writes are stored in the order in which they were made: a key comes first.
WriteBack(t, l) ==
    /\ pc[t] = "store"
    /\ l[2] = "key" \/ \A n \in Node : writes[t][At(n, "key")] = NoVal
    /\ TM!WriteBack(t, l)
    /\ UNCHANGED <<pc, op, reg, fresh, answer>>

Release(t) == pc[t] = "store" /\ TM!Release(t) /\ Return(t)

-----------------------------------------------------------------------------
(* add *)

AddRoot(t) ==
    ReadThen(t, "add root", rootLoc,
             IF read(t) = NULL THEN "new root" ELSE "add root again", reg[t])
AddRootAgain(t) ==
    ReadThen(t, "add root again", rootLoc, "add key", With(t, "current", read(t)))
AddKey(t) ==
    ReadThen(t, "add key", At(cur(t), "key"),
             IF k(t) < read(t) THEN "add left" ELSE "add key again", reg[t])
AddLeft(t) ==
    ReadThen(t, "add left", At(cur(t), "left"),
             IF read(t) # NULL THEN "add left again" ELSE "new left", reg[t])
AddLeftAgain(t) ==
    ReadThen(t, "add left again", At(cur(t), "left"), "add key", With(t, "current", read(t)))
AddKeyAgain(t) ==
    ReadThen(t, "add key again", At(cur(t), "key"),
             IF k(t) > read(t) THEN "add right" ELSE "commit", reg[t])
\* Not TM_READ.
AddRight(t) ==
    PlainThen(t, "add right", At(cur(t), "right"),
              IF mem[At(cur(t), "right")] # NULL THEN "add right again" ELSE "new right", reg[t])
\* Mutant: reads the right child and stays where it is.
AddRightStays(t) ==
    ReadThen(t, "add right again", At(cur(t), "right"), "add key", reg[t])

AddRightAgain(t) ==
    ReadThen(t, "add right again", At(cur(t), "right"), "add key", With(t, "current", read(t)))

\* A node is constructed and linked.
NewNode(t, here, l) ==
    LET n == CHOOSE m \in fresh : InitialKey[m] = k(t) IN
    /\ pc[t] = here
    /\ \E m \in fresh : InitialKey[m] = k(t)
    /\ TM!Write(t, l, n)
    /\ Goto(t, "commit", With(t, "ptr", n))
    /\ fresh' = fresh \ {n}
    /\ UNCHANGED <<op, answer>>

AddStep(t) ==
    \/ AddRoot(t) \/ AddRootAgain(t) \/ AddKey(t) \/ AddLeft(t) \/ AddLeftAgain(t)
    \/ AddKeyAgain(t) \/ AddRight(t) \/ AddRightAgain(t)
    \/ NewNode(t, "new root", rootLoc)
    \/ NewNode(t, "new left", At(cur(t), "left"))
    \/ NewNode(t, "new right", At(cur(t), "right"))

-----------------------------------------------------------------------------
(* contains *)

ContainsRoot(t) ==
    ReadThen(t, "contains root", rootLoc,
             IF read(t) = NULL THEN "commit" ELSE "contains key", With(t, "current", read(t)))
ContainsKey(t) ==
    ReadThen(t, "contains key", At(cur(t), "key"),
             IF k(t) = read(t) THEN "commit"
             ELSE IF k(t) < read(t) THEN "contains left" ELSE "contains right",
             With(t, "found", k(t) = read(t)))
\* Mutant: the child is read without TM_READ.
ContainsChildPlain(t, here, f) ==
    PlainThen(t, here, At(cur(t), f),
              IF mem[At(cur(t), f)] = NULL THEN "commit" ELSE "contains key",
              With(t, "current", mem[At(cur(t), f)]))

ContainsChild(t, here, f) ==
    ReadThen(t, here, At(cur(t), f),
             IF read(t) = NULL THEN "commit" ELSE "contains key", With(t, "current", read(t)))

ContainsStep(t) ==
    \/ ContainsRoot(t) \/ ContainsKey(t)
    \/ ContainsChild(t, "contains left", "left") \/ ContainsChild(t, "contains right", "right")

-----------------------------------------------------------------------------
(* remove *)

\* The search goes on at node n below prev, or it ends without the key.
Descend(t, here, l, p, isLeft) ==
    ReadThen(t, here, l, IF read(t) = NULL THEN "commit" ELSE "remove key",
             [reg[t] EXCEPT !.current = read(t), !.prev = p, !.leftLast = isLeft])

RemoveRoot(t)  == Descend(t, "remove root", rootLoc, NULL, FALSE)
RemoveLeft(t)  == Descend(t, "remove left", At(cur(t), "left"), cur(t), TRUE)
RemoveRight(t) == Descend(t, "remove right", At(cur(t), "right"), cur(t), FALSE)

RemoveKey(t) ==
    ReadThen(t, "remove key", At(cur(t), "key"),
             IF k(t) < read(t) THEN "remove left" ELSE "remove key again", reg[t])
RemoveKeyAgain(t) ==
    ReadThen(t, "remove key again", At(cur(t), "key"),
             IF k(t) > read(t) THEN "remove right" ELSE "leaf left",
             With(t, "found", k(t) = read(t)))

\* Mutant: the root is not told from a node below another.
slotBelow(t) == At(reg[t].prev, IF reg[t].leftLast THEN "left" ELSE "right")

\* The location that points to the node found.
slot(t) ==
    IF reg[t].prev = NULL THEN rootLoc
    ELSE At(reg[t].prev, IF reg[t].leftLast THEN "left" ELSE "right")

\* No child?
LeafLeft(t) ==
    ReadThen(t, "leaf left", At(cur(t), "left"),
             IF read(t) = NULL THEN "leaf right" ELSE "one left", reg[t])
\* Mutant: a node without a left child is taken for a leaf.
LeafRightUntested(t) == ReadThen(t, "leaf right", At(cur(t), "right"), "drop", reg[t])

LeafRight(t) ==
    ReadThen(t, "leaf right", At(cur(t), "right"),
             IF read(t) = NULL THEN "drop" ELSE "one left", reg[t])
Drop(t) == WriteThen(t, "drop", slot(t), NULL, "commit")

\* One child?  Below the root the child is read through current, at the root
\* through the root read again; neither is read with TM_READ.
OneChild(t, here, f, other, otherwise) ==
    ReadThen(t, here, At(cur(t), f),
             IF read(t) # NULL THEN otherwise
             ELSE IF reg[t].prev = NULL THEN "plain root" ELSE "plain child",
             [reg[t] EXCEPT !.side = other, !.from = cur(t)])
OneLeft(t)  == OneChild(t, "one left", "left", "right", "one right")

\* Mutant: the right child is tested without TM_READ.
OneRightPlain(t) ==
    PlainThen(t, "one right", At(cur(t), "right"),
              IF mem[At(cur(t), "right")] # NULL THEN "two right"
              ELSE IF reg[t].prev = NULL THEN "plain root" ELSE "plain child",
              [reg[t] EXCEPT !.side = "left", !.from = cur(t)])

OneRight(t) == OneChild(t, "one right", "right", "left", "two right")

PlainRoot(t)  == PlainThen(t, "plain root", rootLoc, "plain child", With(t, "from", mem[rootLoc]))
PlainChild(t) ==
    PlainThen(t, "plain child", At(reg[t].from, reg[t].side), "splice",
              With(t, "ptr", mem[At(reg[t].from, reg[t].side)]))
Splice(t) == WriteThen(t, "splice", slot(t), reg[t].ptr, "commit")

\* current->right without TM_READ, as (part of) an argument.
PlainRight(t, here, place) ==
    PlainThen(t, here, At(cur(t), "right"), place, With(t, "from", mem[At(cur(t), "right")]))

\* Two children: is the right child the successor?
TwoRight(t) == PlainRight(t, "two right", "two left")
TwoLeft(t) ==
    ReadThen(t, "two left", At(reg[t].from, "left"),
             IF read(t) = NULL THEN "case 1 to key" ELSE "parent", reg[t])

\* Case 1: the successor's key and right child move up.
Case1ToKey(t)   == PlainRight(t, "case 1 to key", "case 1 key")
Case1Key(t) ==
    CopyThen(t, "case 1 key", At(cur(t), "key"), At(reg[t].from, "key"), "case 1 to right")
Case1ToRight(t) == PlainRight(t, "case 1 to right", "case 1 right")
Case1Right(t) ==
    CopyThen(t, "case 1 right", At(cur(t), "right"), At(reg[t].from, "right"), "commit")

\* Case 2: the successor is the leftmost node below the right child.
Parent(t) ==
    ReadThen(t, "parent", At(cur(t), "right"), "to child", With(t, "parent", read(t)))
ToChild(t) == PlainRight(t, "to child", "child")
Child(t) ==
    ReadThen(t, "child", At(reg[t].from, "left"), "descend", With(t, "child", read(t)))
DescendLeft(t) ==
    ReadThen(t, "descend", At(reg[t].child, "left"),
             IF read(t) # NULL THEN "descend again" ELSE "case 2 key", reg[t])
DescendAgain(t) ==
    ReadThen(t, "descend again", At(reg[t].child, "left"), "descend",
             [reg[t] EXCEPT !.parent = reg[t].child, !.child = read(t)])
Case2Key(t) ==
    CopyThen(t, "case 2 key", At(cur(t), "key"), At(reg[t].child, "key"), "case 2 right")
\* Mutant: the successor's right child is stored on the wrong side.
Case2WrongSide(t) ==
    CopyThen(t, "case 2 right", At(reg[t].parent, "right"), At(reg[t].child, "right"), "commit")

Case2Right(t) ==
    CopyThen(t, "case 2 right", At(reg[t].parent, "left"), At(reg[t].child, "right"), "commit")

RemoveStep(t) ==
    \/ RemoveRoot(t) \/ RemoveLeft(t) \/ RemoveRight(t) \/ RemoveKey(t) \/ RemoveKeyAgain(t)
    \/ LeafLeft(t) \/ LeafRight(t) \/ Drop(t)
    \/ OneLeft(t) \/ OneRight(t) \/ PlainRoot(t) \/ PlainChild(t) \/ Splice(t)
    \/ TwoRight(t) \/ TwoLeft(t)
    \/ Case1ToKey(t) \/ Case1Key(t) \/ Case1ToRight(t) \/ Case1Right(t)
    \/ Parent(t) \/ ToChild(t) \/ Child(t) \/ DescendLeft(t) \/ DescendAgain(t)
    \/ Case2Key(t) \/ Case2Right(t)

-----------------------------------------------------------------------------
Step(t) ==
    \/ Begin(t) \/ Abort(t) \/ CommitReadOnly(t) \/ Acquire(t) \/ Release(t)
    \/ \E l \in Location : WriteBack(t, l)
    \/ AddStep(t) \/ ContainsStep(t) \/ RemoveStep(t)

\* After a crash there is no process.
Running == \A t \in Thread : pc[t] # "crashed"

Next == Running /\ \E t \in Thread : Step(t) \/ \E o \in S!Op : Call(t, o)

Spec == Init /\ [][Next]_treeVars

-----------------------------------------------------------------------------
\* A read may follow a null pointer, because of the plain reads.  A write never
\* does: what it is stored through has been read by the transaction, and every
\* transactional read looks at all of them again.
NoWildWrite ==
    \A t \in Thread :
        /\ pc[t] \in {"new left", "new right", "case 1 key", "case 1 right", "case 2 key"} =>
               cur(t) # NULL
        /\ pc[t] \in {"drop", "splice"} => slot(t) \in Location
        /\ pc[t] = "case 2 right" => reg[t].parent # NULL
=============================================================================
