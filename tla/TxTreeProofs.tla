---------------------------- MODULE TxTreeProofs ----------------------------
(***************************************************************************)
(* For any number of threads, keys and nodes: the tree of TxTree.tla never *)
(* writes through a null pointer, whatever its plain reads return, and all *)
(* it does to memory it does by the transactions of WordTM.tla.            *)
(***************************************************************************)
EXTENDS TxTree, TLAPS

\* The places past a read through current.
AtNode ==
    Place \ {"idle", "begin", "commit", "store", "crashed", "add root", "add root again",
             "add key", "new root", "contains root", "contains key", "remove root",
             "remove key"}

\* Where the transaction has read that the node found has a right child.
RightSeen == {"two right", "two left", "parent"}

BelowParent == {"to child", "child", "descend", "descend again", "case 2 key", "case 2 right"}

\* A thread may be at place with these local variables and this log.
Sound(place, locals, entries) ==
    /\ place \in Place
    /\ locals \in Locals
    /\ place \in AtNode => locals.current # NULL
    /\ place \in RightSeen =>
           \E e \in entries : e.addr = At(locals.current, "right") /\ e.val # NULL
    /\ place \in BelowParent => locals.parent # NULL

IInv ==
    /\ TypeOK
    /\ \A t \in Thread : Sound(pc[t], reg[t], log[t])
    /\ \A t \in Thread : pc[t] \notin {"idle", "crashed"} => op[t] \in S!Op

-----------------------------------------------------------------------------
(* Locations and local variables *)

LEMMA FieldIsLocation ==
    ASSUME NEW n \in Node, NEW f \in {"key", "left", "right"}
    PROVE  At(n, f) \in Location /\ At(n, f)[2] = f
BY DEF At, Location

LEMMA LocationIsField ==
    ASSUME NEW n, NEW f \in {"key", "left", "right"}, At(n, f) \in Location PROVE n \in Node
BY DEF At, Location, rootLoc

LEMMA RootIsLocation == rootLoc \in Location /\ Kind(rootLoc) = Ptr
BY DEF rootLoc, Location, Kind

LEMMA ChildKind ==
    ASSUME NEW n, NEW f \in {"left", "right"} PROVE Kind(At(n, f)) = Ptr
BY DEF At, Kind

LEMMA KeyKind == ASSUME NEW n PROVE Kind(At(n, "key")) = Key
BY DEF At, Kind

LEMMA BlankIsSound ==
    ASSUME NEW place \in Place \ (AtNode \cup RightSeen \cup BelowParent), NEW entries
    PROVE  Sound(place, Blank, entries)
BY DEF Sound, Blank, Locals, Ptr

-----------------------------------------------------------------------------
(* A step of thread t *)

StepIsWord == [TM!WordNext]_(TM!wordVars)

\* The variables of the transactions keep their types.
LEMMA WordSteps ==
    ASSUME TM!WordTypeOK, [TM!WordNext]_(TM!wordVars) PROVE TM!WordTypeOK'
<1> USE DEF TM!WordTypeOK, TM!Entry, TM!NoWrites
<1>1. CASE UNCHANGED TM!wordVars
    BY <1>1 DEF TM!wordVars
<1>2. ASSUME NEW t \in Thread, TM!Begin(t) PROVE TM!WordTypeOK'
    BY <1>2 DEF TM!Begin
<1>3. ASSUME NEW t \in Thread, TM!CommitReadOnly(t) PROVE TM!WordTypeOK'
    BY <1>3 DEF TM!CommitReadOnly
<1>4. ASSUME NEW t \in Thread, TM!Acquire(t) PROVE TM!WordTypeOK'
    BY <1>4 DEF TM!Acquire
<1>5. ASSUME NEW t \in Thread, TM!Release(t) PROVE TM!WordTypeOK'
    BY <1>5 DEF TM!Release
<1>6. ASSUME NEW t \in Thread, TM!Abort(t) PROVE TM!WordTypeOK'
    BY <1>6 DEF TM!Abort
<1>7. ASSUME NEW t \in Thread, NEW l \in Location, TM!ReadOwn(t, l) PROVE TM!WordTypeOK'
    BY <1>7 DEF TM!ReadOwn
<1>8. ASSUME NEW t \in Thread, NEW l \in Location, TM!ReadMem(t, l) PROVE TM!WordTypeOK'
    BY <1>8 DEF TM!ReadMem
<1>9. ASSUME NEW t \in Thread, NEW l \in Location, TM!WriteBack(t, l) PROVE TM!WordTypeOK'
    BY <1>9 DEF TM!WriteBack
<1>10. ASSUME NEW t \in Thread, NEW l \in Location, NEW v \in Word, TM!Write(t, l, v)
       PROVE  TM!WordTypeOK'
    BY <1>10 DEF TM!Write
<1> QED
    BY <1>1, <1>2, <1>3, <1>4, <1>5, <1>6, <1>7, <1>8, <1>9, <1>10 DEF TM!WordNext

\* What a step of t must establish for the invariant to go on.
Keeps(t) ==
    /\ StepIsWord
    /\ \A l \in Location : /\ mem'[l] \in Kind(l)
                           /\ \A u \in Thread : writes'[u][l] \in Kind(l) \cup {NoVal}
    /\ \E place, locals, o, a :
           /\ pc' = [pc EXCEPT ![t] = place]
           /\ reg' = [reg EXCEPT ![t] = locals]
           /\ op' = [op EXCEPT ![t] = o]
           /\ answer' = [answer EXCEPT ![t] = a]
           /\ Sound(place, locals, log'[t])
           /\ o \in S!Op \cup {NoOp}
           /\ place \notin {"idle", "crashed"} => o \in S!Op
           /\ a \in S!Answer \cup {"none"}
    /\ \A u \in Thread : u # t => log'[u] = log[u]
    /\ fresh' \subseteq Node

LEMMA KeepsIsEnough ==
    ASSUME IInv, NEW t \in Thread, Keeps(t) PROVE IInv'
<1> USE DEF IInv
<1>1. TM!WordTypeOK'
    BY WordSteps DEF Keeps, StepIsWord, TypeOK
<1>2. PICK place, locals, o, a :
           /\ pc' = [pc EXCEPT ![t] = place]
           /\ reg' = [reg EXCEPT ![t] = locals]
           /\ op' = [op EXCEPT ![t] = o]
           /\ answer' = [answer EXCEPT ![t] = a]
           /\ Sound(place, locals, log'[t])
           /\ o \in S!Op \cup {NoOp}
           /\ place \notin {"idle", "crashed"} => o \in S!Op
           /\ a \in S!Answer \cup {"none"}
    BY Zenon DEF Keeps
<1>3. place \in Place /\ locals \in Locals
    BY <1>2 DEF Sound
<1>4. TypeOK'
    <2>1. /\ pc' \in [Thread -> Place]
          /\ op' \in [Thread -> S!Op \cup {NoOp}]
          /\ reg' \in [Thread -> Locals]
          /\ answer' \in [Thread -> S!Answer \cup {"none"}]
        BY <1>2, <1>3 DEF TypeOK
    <2>2. \A l \in Location : /\ mem'[l] \in Kind(l)
                              /\ \A u \in Thread : writes'[u][l] \in Kind(l) \cup {NoVal}
        BY DEF Keeps
    <2> QED
        BY <1>1, <2>1, <2>2, Zenon DEF TypeOK, Keeps, Kind
<1>5. \A u \in Thread : Sound(pc[u], reg[u], log[u])'
    <2> SUFFICES ASSUME NEW u \in Thread PROVE Sound(pc'[u], reg'[u], log'[u])
        BY Zenon DEF Sound, At, AtNode, RightSeen, BelowParent, Place, Locals, Reading,
           Plain, Writing, Ptr
    <2>1. CASE u = t
        BY <1>2, <2>1 DEF TypeOK
    <2>2. CASE u # t
        BY <1>2, <2>2 DEF TypeOK, Keeps
    <2> QED
        BY <2>1, <2>2
<1>6. \A u \in Thread : (pc[u] \notin {"idle", "crashed"} => op[u] \in S!Op)'
    BY <1>2 DEF TypeOK
<1> QED
    BY <1>4, <1>5, <1>6

\* What a transactional read tells the thread.
LEMMA ReadFacts ==
    ASSUME IInv, NEW t \in Thread, NEW l \in Location, TM!ReadMem(t, l)
    PROVE  /\ read(t) = mem[l]
           /\ mem[l] \in Kind(l)
           /\ [addr |-> l, val |-> mem[l]] \in log'[t]
           /\ log[t] \subseteq log'[t]
           /\ \A e \in log[t] : mem[e.addr] = e.val
BY DEF IInv, TypeOK, TM!WordTypeOK, TM!ReadMem, TM!Holds, read

LEMMA ReadIsWord ==
    ASSUME NEW t \in Thread, NEW l \in Location, TM!ReadMem(t, l) PROVE StepIsWord
BY DEF StepIsWord, TM!WordNext

LEMMA SameMemory == ASSUME UNCHANGED memory PROVE StepIsWord
BY DEF StepIsWord, memory, TM!wordVars

\* A step that changes only where t is.
LEMMA MoveKeeps ==
    ASSUME IInv, NEW t \in Thread, NEW place, NEW locals, pc[t] \notin {"idle", "crashed"},
           StepIsWord, Goto(t, place, locals), UNCHANGED <<mem, writes, op, fresh, answer>>,
           \A u \in Thread : u # t => log'[u] = log[u],
           Sound(place, locals, log'[t])
    PROVE  Keeps(t)
<1>1. op' = [op EXCEPT ![t] = op[t]] /\ answer' = [answer EXCEPT ![t] = answer[t]]
    BY DEF IInv, TypeOK
<1>2. op[t] \in S!Op /\ answer[t] \in S!Answer \cup {"none"}
    BY DEF IInv, TypeOK
<1>3. \E p, x, o, a :
           /\ pc' = [pc EXCEPT ![t] = p]
           /\ reg' = [reg EXCEPT ![t] = x]
           /\ op' = [op EXCEPT ![t] = o]
           /\ answer' = [answer EXCEPT ![t] = a]
           /\ Sound(p, x, log'[t])
           /\ o \in S!Op \cup {NoOp}
           /\ p \notin {"idle", "crashed"} => o \in S!Op
           /\ a \in S!Answer \cup {"none"}
    BY <1>1, <1>2, Zenon DEF Goto
<1>4. /\ \A l \in Location : /\ mem'[l] \in Kind(l)
                             /\ \A u \in Thread : writes'[u][l] \in Kind(l) \cup {NoVal}
      /\ fresh' \subseteq Node
    BY DEF IInv, TypeOK
<1> QED
    BY <1>3, <1>4, Zenon DEF Keeps

LEMMA CrashKeeps ==
    ASSUME IInv, NEW t \in Thread, pc[t] \notin {"idle", "crashed"}, Crash(t)
    PROVE  Keeps(t)
<1>1. Sound("crashed", Blank, log'[t])
    BY BlankIsSound DEF Place, AtNode, RightSeen, BelowParent
<1> QED
    BY <1>1, MoveKeeps, SameMemory DEF Crash, memory

LEMMA ReadKeeps ==
    ASSUME IInv, NEW t \in Thread, NEW here \in Reading, NEW l, NEW place, NEW locals,
           ReadThen(t, here, l, place, locals),
           l \in Location /\ TM!ReadMem(t, l) => Sound(place, locals, log'[t])
    PROVE  Keeps(t)
<1>1. pc[t] \notin {"idle", "crashed"}
    BY DEF ReadThen, Reading
<1>2. CASE l \in Location
    <2>1. TM!ReadMem(t, l) /\ Goto(t, place, locals) /\ UNCHANGED <<op, fresh, answer>>
        BY <1>2 DEF ReadThen
    <2>2. /\ UNCHANGED <<mem, writes>>
          /\ \A u \in Thread : u # t => log'[u] = log[u]
        BY <2>1 DEF TM!ReadMem, IInv, TypeOK, TM!WordTypeOK
    <2> QED
        BY <1>1, <1>2, <2>1, <2>2, ReadIsWord, MoveKeeps
<1>3. CASE l \notin Location
    BY <1>1, <1>3, CrashKeeps DEF ReadThen
<1> QED
    BY <1>2, <1>3

LEMMA PlainKeeps ==
    ASSUME IInv, NEW t \in Thread, NEW here \in Plain, NEW l, NEW place, NEW locals,
           PlainThen(t, here, l, place, locals),
           l \in Location => Sound(place, locals, log[t])
    PROVE  Keeps(t)
<1>1. pc[t] \notin {"idle", "crashed"}
    BY DEF PlainThen, Plain
<1>2. CASE l \in Location
    BY <1>1, <1>2, SameMemory, MoveKeeps DEF PlainThen, memory
<1>3. CASE l \notin Location
    BY <1>1, <1>3, CrashKeeps DEF PlainThen
<1> QED
    BY <1>2, <1>3

\* Only a value of the location's kind is written.
LEMMA StoreKeeps ==
    ASSUME IInv, NEW t \in Thread, NEW place, NEW locals, NEW l \in Location, NEW v \in Kind(l),
           pc[t] \notin {"idle", "crashed"},
           TM!Write(t, l, v), Goto(t, place, locals), UNCHANGED <<op, answer>>,
           fresh' \subseteq fresh, Sound(place, locals, log[t])
    PROVE  Keeps(t)
<1>1. StepIsWord
    BY DEF Kind, Word, StepIsWord, TM!WordNext
<1>2. /\ \A m \in Location : /\ mem'[m] \in Kind(m)
                             /\ \A u \in Thread : writes'[u][m] \in Kind(m) \cup {NoVal}
      /\ \A u \in Thread : log'[u] = log[u]
    BY DEF TM!Write, IInv, TypeOK, TM!WordTypeOK
<1>3. op' = [op EXCEPT ![t] = op[t]] /\ answer' = [answer EXCEPT ![t] = answer[t]]
    BY DEF IInv, TypeOK
<1>4. op[t] \in S!Op /\ answer[t] \in S!Answer \cup {"none"} /\ fresh' \subseteq Node
    BY DEF IInv, TypeOK
<1>5. Sound(place, locals, log'[t])
    BY <1>2
<1> QED
    BY <1>1, <1>2, <1>3, <1>4, <1>5, Zenon DEF Keeps, Goto

LEMMA WriteKeeps ==
    ASSUME IInv, NEW t \in Thread, NEW here \in Writing, NEW l \in Location, NEW v \in Kind(l),
           NEW place, WriteThen(t, here, l, v, place), Sound(place, reg[t], log[t])
    PROVE  Keeps(t)
<1>1. pc[t] \notin {"idle", "crashed"}
    BY DEF WriteThen, Writing
<1> QED
    BY <1>1, StoreKeeps DEF WriteThen

LEMMA CopyKeeps ==
    ASSUME IInv, NEW t \in Thread, NEW here \in Plain, NEW l \in Location, NEW from, NEW place,
           CopyThen(t, here, l, from, place), Kind(from) = Kind(l),
           Sound(place, reg[t], log[t])
    PROVE  Keeps(t)
<1>1. pc[t] \notin {"idle", "crashed"}
    BY DEF CopyThen, Plain
<1>2. CASE from \in Location
    <2>1. mem[from] \in Kind(l)
        BY <1>2 DEF IInv, TypeOK
    <2> QED
        BY <1>1, <1>2, <2>1, StoreKeeps DEF CopyThen
<1>3. CASE from \notin Location
    BY <1>1, <1>3, CrashKeeps DEF CopyThen
<1> QED
    BY <1>2, <1>3

-----------------------------------------------------------------------------
(* Beginnings and ends *)

LEMMA CallKeeps ==
    ASSUME IInv, NEW t \in Thread, NEW o \in S!Op, Call(t, o) PROVE Keeps(t)
<1>1. Sound("begin", Blank, log'[t])
    BY BlankIsSound DEF Place, AtNode, RightSeen, BelowParent
<1>2. StepIsWord
    BY SameMemory DEF Call
<1>3. answer' = [answer EXCEPT ![t] = answer[t]] /\ answer[t] \in S!Answer \cup {"none"}
    BY DEF Call, IInv, TypeOK
<1>4. /\ \A l \in Location : /\ mem'[l] \in Kind(l)
                             /\ \A u \in Thread : writes'[u][l] \in Kind(l) \cup {NoVal}
      /\ \A u \in Thread : u # t => log'[u] = log[u]
      /\ fresh' \subseteq Node
    BY DEF Call, memory, IInv, TypeOK
<1> QED
    BY <1>1, <1>2, <1>3, <1>4, Zenon DEF Keeps, Call, Goto

LEMMA BeginKeeps ==
    ASSUME IInv, NEW t \in Thread, Begin(t) PROVE Keeps(t)
<1>1. op[t].type \in {"add", "remove", "contains"}
    BY DEF Begin, IInv, S!Op, S!OpType
<1>2. \E place \in {"add root", "remove root", "contains root"} : Goto(t, place, Blank)
    BY <1>1 DEF Begin
<1>3. \A place \in {"add root", "remove root", "contains root"} : Sound(place, Blank, log'[t])
    BY BlankIsSound DEF Place, Reading, AtNode, RightSeen, BelowParent
<1>4. StepIsWord
    BY DEF Begin, StepIsWord, TM!WordNext
<1>5. UNCHANGED <<mem, log, writes, op, fresh, answer>> /\ pc[t] \notin {"idle", "crashed"}
    BY DEF Begin, TM!Begin
<1> QED
    BY <1>2, <1>3, <1>4, <1>5, MoveKeeps

\* The end of a transaction: only writes that are typed remain.
LEMMA AbortKeeps ==
    ASSUME IInv, NEW t \in Thread, Abort(t) PROVE Keeps(t)
<1>1. Sound("begin", Blank, log'[t])
    BY BlankIsSound DEF Place, AtNode, RightSeen, BelowParent
<1>2. StepIsWord
    BY DEF Abort, StepIsWord, TM!WordNext
<1>3. pc[t] \notin {"idle", "crashed"} /\ UNCHANGED <<op, answer>>
    BY DEF Abort, Reading
<1>4. /\ op' = [op EXCEPT ![t] = op[t]] /\ answer' = [answer EXCEPT ![t] = answer[t]]
      /\ op[t] \in S!Op /\ answer[t] \in S!Answer \cup {"none"}
    BY <1>3 DEF IInv, TypeOK
<1>5. /\ \A l \in Location : /\ mem'[l] \in Kind(l)
                             /\ \A u \in Thread : writes'[u][l] \in Kind(l) \cup {NoVal}
      /\ \A u \in Thread : u # t => log'[u] = log[u]
    BY DEF Abort, TM!Abort, TM!NoWrites, IInv, TypeOK, TM!WordTypeOK
<1>6. reg[t].ptr \in Ptr
    BY DEF IInv, TypeOK, Locals
<1>7. fresh' \subseteq Node
    BY <1>6 DEF Abort, IInv, TypeOK, Ptr
<1> QED
    BY <1>1, <1>2, <1>4, <1>5, <1>7, Zenon DEF Keeps, Abort, Goto

LEMMA ReturnKeeps ==
    ASSUME IInv, NEW t \in Thread, Return(t), StepIsWord,
           UNCHANGED <<mem, writes>>, \A u \in Thread : u # t => log'[u] = log[u]
    PROVE  Keeps(t)
<1>1. Sound("idle", Blank, log'[t])
    BY BlankIsSound DEF Place, AtNode, RightSeen, BelowParent
<1>2. \E a \in S!Answer \cup {"none"} : answer' = [answer EXCEPT ![t] = a]
    BY DEF Return, S!Answer
<1>3. /\ \A l \in Location : /\ mem'[l] \in Kind(l)
                             /\ \A u \in Thread : writes'[u][l] \in Kind(l) \cup {NoVal}
      /\ fresh' \subseteq Node
    BY DEF Return, IInv, TypeOK
<1>4. op' = [op EXCEPT ![t] = NoOp] /\ Goto(t, "idle", Blank)
    BY DEF Return
<1> QED
    BY <1>1, <1>2, <1>3, <1>4, Zenon DEF Keeps, Goto

LEMMA CommitReadOnlyKeeps ==
    ASSUME IInv, NEW t \in Thread, CommitReadOnly(t) PROVE Keeps(t)
<1>1. StepIsWord
    BY DEF CommitReadOnly, StepIsWord, TM!WordNext
<1>2. UNCHANGED <<mem, writes>> /\ \A u \in Thread : u # t => log'[u] = log[u]
    BY DEF CommitReadOnly, TM!CommitReadOnly, IInv, TypeOK, TM!WordTypeOK
<1> QED
    BY <1>1, <1>2, ReturnKeeps DEF CommitReadOnly

LEMMA AcquireKeeps ==
    ASSUME IInv, NEW t \in Thread, Acquire(t) PROVE Keeps(t)
<1>1. StepIsWord
    BY DEF Acquire, StepIsWord, TM!WordNext
<1>2. UNCHANGED <<mem, writes>> /\ \A u \in Thread : u # t => log'[u] = log[u]
    BY DEF Acquire, TM!Acquire, IInv, TypeOK, TM!WordTypeOK
<1>3. Sound("store", reg[t], log'[t])
    BY DEF Sound, Place, AtNode, RightSeen, BelowParent, IInv, TypeOK
<1> QED
    BY <1>1, <1>2, <1>3, MoveKeeps DEF Acquire

LEMMA WriteBackKeeps ==
    ASSUME IInv, NEW t \in Thread, NEW l \in Location, WriteBack(t, l) PROVE Keeps(t)
<1>1. StepIsWord
    BY DEF WriteBack, StepIsWord, TM!WordNext
<1>2. \A m \in Location : /\ mem'[m] \in Kind(m)
                          /\ \A u \in Thread : writes'[u][m] \in Kind(m) \cup {NoVal}
    BY DEF WriteBack, TM!WriteBack, IInv, TypeOK, TM!WordTypeOK
<1>3. /\ pc' = [pc EXCEPT ![t] = pc[t]] /\ reg' = [reg EXCEPT ![t] = reg[t]]
      /\ op' = [op EXCEPT ![t] = op[t]] /\ answer' = [answer EXCEPT ![t] = answer[t]]
      /\ op[t] \in S!Op /\ answer[t] \in S!Answer \cup {"none"}
    BY DEF WriteBack, IInv, TypeOK
<1>4. log' = log /\ Sound(pc[t], reg[t], log[t]) /\ fresh' \subseteq Node
    BY DEF WriteBack, TM!WriteBack, IInv, TypeOK
<1> QED
    BY <1>1, <1>2, <1>3, <1>4, Zenon DEF Keeps

LEMMA ReleaseKeeps ==
    ASSUME IInv, NEW t \in Thread, Release(t) PROVE Keeps(t)
<1>1. StepIsWord
    BY DEF Release, StepIsWord, TM!WordNext
<1>2. UNCHANGED <<mem, writes>> /\ \A u \in Thread : u # t => log'[u] = log[u]
    BY DEF Release, TM!Release
<1> QED
    BY <1>1, <1>2, ReturnKeeps DEF Release

-----------------------------------------------------------------------------
(* add, contains and remove.  In each step: if what is read is a location, the *)
(* thread may be where the step takes it.                                       *)

\* What t may rely on where it is.
LEMMA SoundHere ==
    ASSUME IInv, NEW t \in Thread
    PROVE  /\ Sound(pc[t], reg[t], log[t])
           /\ reg[t] \in Locals
           /\ pc[t] \in AtNode => cur(t) \in Node
BY DEF IInv, Sound, Locals, Ptr, cur

\* Local variables after an assignment.
LEMMA LocalsWith ==
    ASSUME NEW locals \in Locals, NEW n \in Ptr
    PROVE  /\ [locals EXCEPT !.current = n] \in Locals
           /\ [locals EXCEPT !.parent = n] \in Locals
           /\ [locals EXCEPT !.child = n] \in Locals
           /\ [locals EXCEPT !.from = n] \in Locals
           /\ [locals EXCEPT !.ptr = n] \in Locals
BY DEF Locals

\* found, from, ptr and child are none of those the invariant speaks of.
LEMMA FoundWith ==
    ASSUME NEW locals \in Locals, NEW b \in BOOLEAN
    PROVE  /\ [locals EXCEPT !.found = b] \in Locals
           /\ [locals EXCEPT !.found = b].current = locals.current
BY DEF Locals

LEMMA FromWith ==
    ASSUME NEW locals \in Locals, NEW n \in Ptr
    PROVE  /\ [locals EXCEPT !.from = n] \in Locals
           /\ [locals EXCEPT !.from = n].current = locals.current
           /\ [locals EXCEPT !.from = n].parent = locals.parent
BY DEF Locals

LEMMA AddRootKeeps ==
    ASSUME IInv, NEW t \in Thread, AddRoot(t) PROVE Keeps(t)
<1>1. ASSUME rootLoc \in Location, TM!ReadMem(t, rootLoc)
      PROVE  Sound(IF read(t) = NULL THEN "new root" ELSE "add root again", reg[t], log'[t])
    BY <1>1, ReadFacts, SoundHere DEF Sound, Place, AtNode, RightSeen, BelowParent, Reading, Plain, Writing
<1> QED
    BY <1>1, ReadKeeps DEF AddRoot, Reading

LEMMA AddRootAgainKeeps ==
    ASSUME IInv, NEW t \in Thread, AddRootAgain(t) PROVE Keeps(t)
<1>1. ASSUME rootLoc \in Location, TM!ReadMem(t, rootLoc)
      PROVE  Sound("add key", With(t, "current", read(t)), log'[t])
    BY <1>1, RootIsLocation, LocalsWith, ReadFacts, SoundHere DEF Sound, Place, AtNode, RightSeen, BelowParent, Reading, Plain, Writing, With
<1> QED
    BY <1>1, ReadKeeps DEF AddRootAgain, Reading

LEMMA AddKeyKeeps ==
    ASSUME IInv, NEW t \in Thread, AddKey(t) PROVE Keeps(t)
<1>1. ASSUME At(cur(t), "key") \in Location, TM!ReadMem(t, At(cur(t), "key"))
      PROVE  Sound(IF k(t) < read(t) THEN "add left" ELSE "add key again", reg[t], log'[t])
    BY <1>1, LocationIsField, TreeAssumption, ReadFacts, SoundHere DEF Sound, Place, AtNode, RightSeen, BelowParent, Reading, Plain, Writing, cur
<1> QED
    BY <1>1, ReadKeeps DEF AddKey, Reading

LEMMA AddLeftKeeps ==
    ASSUME IInv, NEW t \in Thread, AddLeft(t) PROVE Keeps(t)
<1>1. pc[t] = "add left"
    BY DEF AddLeft, ReadThen
<1>2. ASSUME At(cur(t), "left") \in Location, TM!ReadMem(t, At(cur(t), "left"))
      PROVE  Sound(IF read(t) # NULL THEN "add left again" ELSE "new left",
                   reg[t], log'[t])
    BY <1>1, <1>2, ReadFacts, SoundHere
    DEF Sound, Place, AtNode, RightSeen, BelowParent, Reading, Plain, Writing
<1> QED
    BY <1>2, ReadKeeps DEF AddLeft, Reading

LEMMA AddLeftAgainKeeps ==
    ASSUME IInv, NEW t \in Thread, AddLeftAgain(t) PROVE Keeps(t)
<1>1. pc[t] = "add left again"
    BY DEF AddLeftAgain, ReadThen
<1>2. ASSUME At(cur(t), "left") \in Location, TM!ReadMem(t, At(cur(t), "left"))
      PROVE  Sound("add key",
                   With(t, "current", read(t)), log'[t])
    BY <1>1, <1>2, ReadFacts, ChildKind, LocalsWith, SoundHere
    DEF Sound, Place, AtNode, RightSeen, BelowParent, Reading, Plain, Writing, With
<1> QED
    BY <1>2, ReadKeeps DEF AddLeftAgain, Reading

LEMMA AddKeyAgainKeeps ==
    ASSUME IInv, NEW t \in Thread, AddKeyAgain(t) PROVE Keeps(t)
<1>1. pc[t] = "add key again"
    BY DEF AddKeyAgain, ReadThen
<1>2. ASSUME At(cur(t), "key") \in Location, TM!ReadMem(t, At(cur(t), "key"))
      PROVE  Sound(IF k(t) > read(t) THEN "add right" ELSE "commit",
                   reg[t], log'[t])
    BY <1>1, <1>2, ReadFacts, SoundHere
    DEF Sound, Place, AtNode, RightSeen, BelowParent, Reading, Plain, Writing
<1> QED
    BY <1>2, ReadKeeps DEF AddKeyAgain, Reading

LEMMA AddRightKeeps ==
    ASSUME IInv, NEW t \in Thread, AddRight(t) PROVE Keeps(t)
<1>1. pc[t] = "add right"
    BY DEF AddRight, PlainThen
<1>2. ASSUME At(cur(t), "right") \in Location
      PROVE  Sound(IF mem[At(cur(t), "right")] # NULL THEN "add right again" ELSE "new right",
                   reg[t], log[t])
    BY <1>1, <1>2, SoundHere
    DEF Sound, Place, AtNode, RightSeen, BelowParent, Reading, Plain, Writing
<1> QED
    BY <1>2, PlainKeeps DEF AddRight, Plain

LEMMA AddRightAgainKeeps ==
    ASSUME IInv, NEW t \in Thread, AddRightAgain(t) PROVE Keeps(t)
<1>1. pc[t] = "add right again"
    BY DEF AddRightAgain, ReadThen
<1>2. ASSUME At(cur(t), "right") \in Location, TM!ReadMem(t, At(cur(t), "right"))
      PROVE  Sound("add key",
                   With(t, "current", read(t)), log'[t])
    BY <1>1, <1>2, ReadFacts, ChildKind, LocalsWith, SoundHere
    DEF Sound, Place, AtNode, RightSeen, BelowParent, Reading, Plain, Writing, With
<1> QED
    BY <1>2, ReadKeeps DEF AddRightAgain, Reading

LEMMA NewNodeKeeps ==
    ASSUME IInv, NEW t \in Thread, NEW here \in Writing, NEW l \in Location, Kind(l) = Ptr,
           NewNode(t, here, l)
    PROVE  Keeps(t)
<1> DEFINE n == CHOOSE m \in fresh : InitialKey[m] = k(t)
<1>1. n \in Node
    BY DEF NewNode, IInv, TypeOK
<1>2. Sound("commit", With(t, "ptr", n), log[t])
    BY <1>1, SoundHere, LocalsWith DEF With, Sound, Place, AtNode, RightSeen, BelowParent, Ptr
<1>3. /\ TM!Write(t, l, n) /\ Goto(t, "commit", With(t, "ptr", n))
      /\ UNCHANGED <<op, answer>> /\ fresh' \subseteq fresh /\ pc[t] \notin {"idle", "crashed"}
    BY DEF NewNode, Writing
<1> HIDE DEF n
<1> QED
    BY <1>1, <1>2, <1>3, StoreKeeps DEF Ptr

LEMMA AddStepKeeps ==
    ASSUME IInv, NEW t \in Thread, AddStep(t) PROVE Keeps(t)
<1>1. CASE NewNode(t, "new root", rootLoc)
    BY <1>1, NewNodeKeeps, RootIsLocation DEF Writing
<1>2. ASSUME pc[t] \in AtNode, NEW f \in {"left", "right"}
      PROVE  At(cur(t), f) \in Location /\ Kind(At(cur(t), f)) = Ptr
    BY <1>2, SoundHere, FieldIsLocation, ChildKind
<1>3. CASE NewNode(t, "new left", At(cur(t), "left"))
    <2>1. pc[t] \in AtNode
        BY <1>3 DEF NewNode, AtNode, Place, Writing
    <2> QED
        BY <2>1, <1>2, <1>3, NewNodeKeeps DEF Writing
<1>4. CASE NewNode(t, "new right", At(cur(t), "right"))
    <2>1. pc[t] \in AtNode
        BY <1>4 DEF NewNode, AtNode, Place, Writing
    <2> QED
        BY <2>1, <1>2, <1>4, NewNodeKeeps DEF Writing
<1> QED
    BY <1>1, <1>3, <1>4, AddRootKeeps, AddRootAgainKeeps, AddKeyKeeps, AddLeftKeeps,
       AddLeftAgainKeeps, AddKeyAgainKeeps, AddRightKeeps, AddRightAgainKeeps DEF AddStep

LEMMA ContainsRootKeeps ==
    ASSUME IInv, NEW t \in Thread, ContainsRoot(t) PROVE Keeps(t)
<1>1. pc[t] = "contains root"
    BY DEF ContainsRoot, ReadThen
<1>2. ASSUME rootLoc \in Location, TM!ReadMem(t, rootLoc)
      PROVE  Sound(IF read(t) = NULL THEN "commit" ELSE "contains key",
                   With(t, "current", read(t)), log'[t])
    BY <1>1, <1>2, ReadFacts, RootIsLocation, LocalsWith, SoundHere
    DEF Sound, Place, AtNode, RightSeen, BelowParent, Reading, Plain, Writing, With
<1> QED
    BY <1>2, ReadKeeps DEF ContainsRoot, Reading

LEMMA ContainsKeyKeeps ==
    ASSUME IInv, NEW t \in Thread, ContainsKey(t) PROVE Keeps(t)
<1>1. pc[t] = "contains key"
    BY DEF ContainsKey, ReadThen
<1>2. ASSUME At(cur(t), "key") \in Location, TM!ReadMem(t, At(cur(t), "key"))
      PROVE  Sound(IF k(t) = read(t) THEN "commit"
                   ELSE IF k(t) < read(t) THEN "contains left" ELSE "contains right",
                   With(t, "found", k(t) = read(t)), log'[t])
    BY <1>1, <1>2, ReadFacts, LocationIsField, FoundWith, TreeAssumption, SoundHere
    DEF Sound, Place, AtNode, RightSeen, BelowParent, Reading, Plain, Writing, With, cur
<1> QED
    BY <1>2, ReadKeeps DEF ContainsKey, Reading

LEMMA ContainsChildKeeps ==
    ASSUME IInv, NEW t \in Thread, NEW here \in Reading, NEW f \in {"left", "right"},
           ContainsChild(t, here, f)
    PROVE  Keeps(t)
<1>1. ASSUME At(cur(t), f) \in Location, TM!ReadMem(t, At(cur(t), f))
      PROVE  Sound(IF read(t) = NULL THEN "commit" ELSE "contains key",
                   With(t, "current", read(t)), log'[t])
    <2>1. read(t) \in Ptr
        <3>1. Kind(At(cur(t), f)) = Ptr
            BY ChildKind
        <3>2. read(t) \in Kind(At(cur(t), f))
            BY <1>1, ReadFacts
        <3> QED
            BY <3>1, <3>2
    <2>2. With(t, "current", read(t)) \in Locals
        BY <2>1, SoundHere, LocalsWith DEF With
    <2> QED
        BY <2>2 DEF Sound, Place, AtNode, RightSeen, BelowParent, Reading, Plain, Writing
<1> QED
    BY <1>1, ReadKeeps DEF ContainsChild

LEMMA ContainsStepKeeps ==
    ASSUME IInv, NEW t \in Thread, ContainsStep(t) PROVE Keeps(t)
BY ContainsRootKeeps, ContainsKeyKeeps, ContainsChildKeeps DEF ContainsStep, Reading

LEMMA DescendKeeps ==
    ASSUME IInv, NEW t \in Thread, NEW here \in Reading, NEW l, NEW p \in Ptr,
           NEW isLeft \in BOOLEAN, Kind(l) = Ptr, Descend(t, here, l, p, isLeft)
    PROVE  Keeps(t)
<1>1. ASSUME l \in Location, TM!ReadMem(t, l)
      PROVE  Sound(IF read(t) = NULL THEN "commit" ELSE "remove key",
                   [reg[t] EXCEPT !.current = read(t), !.prev = p, !.leftLast = isLeft],
                   log'[t])
    <2>1. read(t) \in Ptr
        BY <1>1, ReadFacts
    <2>2. [reg[t] EXCEPT !.current = read(t), !.prev = p, !.leftLast = isLeft] \in Locals
        BY <2>1, SoundHere DEF Locals
    <2> QED
        BY <2>2 DEF Sound, Place, AtNode, RightSeen, BelowParent, Reading, Plain, Writing
<1> QED
    BY <1>1, ReadKeeps DEF Descend

LEMMA RemoveKeyKeeps ==
    ASSUME IInv, NEW t \in Thread, RemoveKey(t) PROVE Keeps(t)
<1>1. pc[t] = "remove key"
    BY DEF RemoveKey, ReadThen
<1>2. ASSUME At(cur(t), "key") \in Location, TM!ReadMem(t, At(cur(t), "key"))
      PROVE  Sound(IF k(t) < read(t) THEN "remove left" ELSE "remove key again",
                   reg[t], log'[t])
    BY <1>1, <1>2, ReadFacts, LocationIsField, TreeAssumption, SoundHere
    DEF Sound, Place, AtNode, RightSeen, BelowParent, Reading, Plain, Writing, cur
<1> QED
    BY <1>2, ReadKeeps DEF RemoveKey, Reading

LEMMA RemoveKeyAgainKeeps ==
    ASSUME IInv, NEW t \in Thread, RemoveKeyAgain(t) PROVE Keeps(t)
<1>1. ASSUME At(cur(t), "key") \in Location, TM!ReadMem(t, At(cur(t), "key"))
      PROVE  Sound(IF k(t) > read(t) THEN "remove right" ELSE "leaf left",
                   With(t, "found", k(t) = read(t)), log'[t])
    <2>1. /\ With(t, "found", k(t) = read(t)) \in Locals
          /\ With(t, "found", k(t) = read(t)).current = cur(t)
        BY SoundHere, FoundWith DEF With, cur
    <2>2. cur(t) # NULL
        BY <1>1, LocationIsField, TreeAssumption
    <2> QED
        BY <2>1, <2>2 DEF Sound, Place, AtNode, RightSeen, BelowParent, Reading, Plain, Writing
<1> QED
    BY <1>1, ReadKeeps DEF RemoveKeyAgain, Reading

LEMMA LeafLeftKeeps ==
    ASSUME IInv, NEW t \in Thread, LeafLeft(t) PROVE Keeps(t)
<1>1. pc[t] = "leaf left"
    BY DEF LeafLeft, ReadThen
<1>2. ASSUME At(cur(t), "left") \in Location, TM!ReadMem(t, At(cur(t), "left"))
      PROVE  Sound(IF read(t) = NULL THEN "leaf right" ELSE "one left",
                   reg[t], log'[t])
    BY <1>1, <1>2, ReadFacts, SoundHere
    DEF Sound, Place, AtNode, RightSeen, BelowParent, Reading, Plain, Writing
<1> QED
    BY <1>2, ReadKeeps DEF LeafLeft, Reading

LEMMA LeafRightKeeps ==
    ASSUME IInv, NEW t \in Thread, LeafRight(t) PROVE Keeps(t)
<1>1. pc[t] = "leaf right"
    BY DEF LeafRight, ReadThen
<1>2. ASSUME At(cur(t), "right") \in Location, TM!ReadMem(t, At(cur(t), "right"))
      PROVE  Sound(IF read(t) = NULL THEN "drop" ELSE "one left",
                   reg[t], log'[t])
    BY <1>1, <1>2, ReadFacts, SoundHere
    DEF Sound, Place, AtNode, RightSeen, BelowParent, Reading, Plain, Writing
<1> QED
    BY <1>2, ReadKeeps DEF LeafRight, Reading

LEMMA OneChildKeeps ==
    ASSUME IInv, NEW t \in Thread, NEW here \in Reading \cap AtNode, NEW f \in {"left", "right"},
           NEW other \in {"left", "right"}, NEW otherwise \in {"one right", "two right"},
           otherwise = "two right" => f = "right",
           OneChild(t, here, f, other, otherwise)
    PROVE  Keeps(t)
<1> DEFINE locals == [reg[t] EXCEPT !.side = other, !.from = cur(t)]
<1>1. pc[t] \in AtNode
    BY DEF OneChild, ReadThen
<1>2. cur(t) \in Node
    BY <1>1, SoundHere
<1>3. locals \in Locals /\ locals.current = cur(t)
    BY <1>2, SoundHere DEF Locals, Ptr, cur
<1> HIDE DEF locals
<1>4. ASSUME At(cur(t), f) \in Location, TM!ReadMem(t, At(cur(t), f))
      PROVE  Sound(IF read(t) # NULL THEN otherwise
                   ELSE IF reg[t].prev = NULL THEN "plain root" ELSE "plain child",
                   locals, log'[t])
    <2>1. [addr |-> At(cur(t), f), val |-> read(t)] \in log'[t]
        BY <1>4, ReadFacts
    <2>2. read(t) # NULL /\ otherwise = "two right" =>
              \E e \in log'[t] : e.addr = At(cur(t), "right") /\ e.val # NULL
        BY <2>1, Zenon
    <2> QED
        BY <2>2, <1>2, <1>3, TreeAssumption
        DEF Sound, Place, AtNode, RightSeen, BelowParent, Reading, Plain, Writing
<1> QED
    BY <1>4, ReadKeeps DEF OneChild, locals

LEMMA PlainRootKeeps ==
    ASSUME IInv, NEW t \in Thread, PlainRoot(t) PROVE Keeps(t)
<1>1. pc[t] \in AtNode
    BY DEF PlainRoot, PlainThen, AtNode, Place, Plain
<1>2. mem[rootLoc] \in Ptr
    BY RootIsLocation DEF IInv, TypeOK
<1>3. With(t, "from", mem[rootLoc]) \in Locals
      /\ With(t, "from", mem[rootLoc]).current = cur(t)
    BY <1>2, SoundHere, FromWith DEF With, cur
<1>4. Sound("plain child", With(t, "from", mem[rootLoc]), log[t])
    BY <1>1, <1>3, SoundHere, TreeAssumption
    DEF Sound, Place, AtNode, RightSeen, BelowParent, Plain
<1> QED
    BY <1>4, PlainKeeps DEF PlainRoot, Plain

LEMMA PlainChildKeeps ==
    ASSUME IInv, NEW t \in Thread, PlainChild(t) PROVE Keeps(t)
<1> DEFINE l == At(reg[t].from, reg[t].side)
<1>1. pc[t] \in AtNode
    BY DEF PlainChild, PlainThen, AtNode, Place, Plain
<1>2. ASSUME l \in Location PROVE Sound("splice", With(t, "ptr", mem[l]), log[t])
    <2>1. reg[t].side \in {"left", "right"}
        BY SoundHere DEF Locals
    <2>2. mem[l] \in Kind(l)
        BY <1>2 DEF IInv, TypeOK
    <2>3. mem[l] \in Ptr
        BY <2>1, <2>2, ChildKind
    <2>4. With(t, "ptr", mem[l]) \in Locals /\ With(t, "ptr", mem[l]).current = cur(t)
        BY <2>3, SoundHere DEF With, cur, Locals
    <2> QED
        BY <1>1, <2>4, SoundHere, TreeAssumption
        DEF Sound, Place, AtNode, RightSeen, BelowParent, Writing
<1> QED
    BY <1>2, PlainKeeps DEF PlainChild, Plain

LEMMA SlotIsLocation ==
    ASSUME IInv, NEW t \in Thread PROVE slot(t) \in Location /\ Kind(slot(t)) = Ptr
<1>1. CASE reg[t].prev = NULL
    BY <1>1, RootIsLocation DEF slot
<1>2. CASE reg[t].prev # NULL
    <2>1. reg[t].prev \in Node
        BY <1>2, SoundHere DEF Locals, Ptr
    <2> QED
        BY <1>2, <2>1, FieldIsLocation, ChildKind DEF slot
<1> QED
    BY <1>1, <1>2

LEMMA DropKeeps ==
    ASSUME IInv, NEW t \in Thread, Drop(t) PROVE Keeps(t)
<1>1. Sound("commit", reg[t], log[t])
    BY SoundHere DEF Sound, Place, AtNode, RightSeen, BelowParent
<1> QED
    BY <1>1, SlotIsLocation, WriteKeeps DEF Drop, Writing, Ptr

LEMMA SpliceKeeps ==
    ASSUME IInv, NEW t \in Thread, Splice(t) PROVE Keeps(t)
<1>1. Sound("commit", reg[t], log[t])
    BY SoundHere DEF Sound, Place, AtNode, RightSeen, BelowParent
<1>2. reg[t].ptr \in Ptr
    BY SoundHere DEF Locals
<1> QED
    BY <1>1, <1>2, SlotIsLocation, WriteKeeps DEF Splice, Writing

-----------------------------------------------------------------------------
(* Two children *)

\* A plain read of current->right leads from one place to another of the same kind.
LEMMA PlainRightKeeps ==
    ASSUME IInv, NEW t \in Thread, NEW here \in Plain \cap AtNode, NEW place \in AtNode,
           place \in RightSeen => here \in RightSeen,
           place \in BelowParent => here \in BelowParent,
           PlainRight(t, here, place)
    PROVE  Keeps(t)
<1> DEFINE l == At(cur(t), "right")
<1>1. pc[t] = here
    BY DEF PlainRight, PlainThen
<1>2. cur(t) \in Node
    BY <1>1, SoundHere
<1>3. mem[l] \in Ptr
    BY <1>2, FieldIsLocation, ChildKind DEF IInv, TypeOK
<1>4. /\ With(t, "from", mem[l]) \in Locals
      /\ With(t, "from", mem[l]).current = reg[t].current
      /\ With(t, "from", mem[l]).parent = reg[t].parent
    BY <1>3, SoundHere, FromWith DEF With
<1>5. Sound(pc[t], reg[t], log[t]) /\ place \in Place
    BY SoundHere DEF AtNode
<1>6. Sound(place, With(t, "from", mem[l]), log[t])
    BY <1>1, <1>4, <1>5 DEF Sound
<1> QED
    BY <1>6, PlainKeeps DEF PlainRight

LEMMA TwoLeftKeeps ==
    ASSUME IInv, NEW t \in Thread, TwoLeft(t) PROVE Keeps(t)
<1>1. pc[t] = "two left"
    BY DEF TwoLeft, ReadThen
<1>2. ASSUME At(reg[t].from, "left") \in Location, TM!ReadMem(t, At(reg[t].from, "left"))
      PROVE  Sound(IF read(t) = NULL THEN "case 1 to key" ELSE "parent", reg[t], log'[t])
    <2>1. \E e \in log'[t] : e.addr = At(reg[t].current, "right") /\ e.val # NULL
        BY <1>1, <1>2, ReadFacts, SoundHere DEF Sound, RightSeen
    <2> QED
        BY <1>1, <2>1, SoundHere
        DEF Sound, Place, AtNode, RightSeen, BelowParent, Reading, Plain
<1> QED
    BY <1>2, ReadKeeps DEF TwoLeft, Reading

\* The right child has been read before, and it is still there.
LEMMA ParentKeeps ==
    ASSUME IInv, NEW t \in Thread, Parent(t) PROVE Keeps(t)
<1>1. pc[t] = "parent"
    BY DEF Parent, ReadThen
<1>2. ASSUME At(cur(t), "right") \in Location, TM!ReadMem(t, At(cur(t), "right"))
      PROVE  Sound("to child", With(t, "parent", read(t)), log'[t])
    <2>1. PICK e \in log[t] : e.addr = At(cur(t), "right") /\ e.val # NULL
        BY <1>1, SoundHere DEF Sound, RightSeen, cur
    <2>2. read(t) # NULL
        BY <1>2, <2>1, ReadFacts
    <2>3. read(t) \in Ptr
        BY <1>2, ReadFacts, ChildKind
    <2>4. /\ With(t, "parent", read(t)) \in Locals
          /\ With(t, "parent", read(t)).current = cur(t)
          /\ With(t, "parent", read(t)).parent = read(t)
        BY <2>3, SoundHere DEF With, Locals, cur
    <2>5. cur(t) # NULL
        BY <1>2, LocationIsField, TreeAssumption
    <2> QED
        BY <2>2, <2>4, <2>5 DEF Sound, Place, AtNode, RightSeen, BelowParent, Plain
<1> QED
    BY <1>2, ReadKeeps DEF Parent, Reading

LEMMA ChildKeeps ==
    ASSUME IInv, NEW t \in Thread, Child(t) PROVE Keeps(t)
<1>1. pc[t] = "child"
    BY DEF Child, ReadThen
<1>2. ASSUME At(reg[t].from, "left") \in Location, TM!ReadMem(t, At(reg[t].from, "left"))
      PROVE  Sound("descend", With(t, "child", read(t)), log'[t])
    <2>1. read(t) \in Ptr
        BY <1>2, ReadFacts, ChildKind
    <2>2. /\ With(t, "child", read(t)) \in Locals
          /\ With(t, "child", read(t)).current = reg[t].current
          /\ With(t, "child", read(t)).parent = reg[t].parent
        BY <2>1, SoundHere DEF With, Locals
    <2> QED
        BY <1>1, <2>2, SoundHere
        DEF Sound, Place, AtNode, RightSeen, BelowParent, Reading, Plain
<1> QED
    BY <1>2, ReadKeeps DEF Child, Reading

LEMMA DescendLeftKeeps ==
    ASSUME IInv, NEW t \in Thread, DescendLeft(t) PROVE Keeps(t)
<1>1. pc[t] = "descend"
    BY DEF DescendLeft, ReadThen
<1>2. Sound(IF read(t) # NULL THEN "descend again" ELSE "case 2 key", reg[t], log'[t])
    BY <1>1, SoundHere DEF Sound, Place, AtNode, RightSeen, BelowParent, Reading, Plain
<1> QED
    BY <1>2, ReadKeeps DEF DescendLeft, Reading

LEMMA DescendAgainKeeps ==
    ASSUME IInv, NEW t \in Thread, DescendAgain(t) PROVE Keeps(t)
<1> DEFINE l == At(reg[t].child, "left")
           locals == [reg[t] EXCEPT !.parent = reg[t].child, !.child = read(t)]
<1>1. pc[t] = "descend again"
    BY DEF DescendAgain, ReadThen
<1>2. ASSUME l \in Location, TM!ReadMem(t, l) PROVE Sound("descend", locals, log'[t])
    <2>1. read(t) \in Ptr
        BY <1>2, ReadFacts, ChildKind
    <2>2. reg[t].child \in Node
        BY <1>2, LocationIsField
    <2>3. /\ locals \in Locals
          /\ locals.current = reg[t].current
          /\ locals.parent = reg[t].child
        BY <2>1, <2>2, SoundHere DEF Locals, Ptr
    <2> QED
        BY <1>1, <2>2, <2>3, SoundHere, TreeAssumption
        DEF Sound, Place, AtNode, RightSeen, BelowParent, Reading, Plain
<1> QED
    BY <1>2, ReadKeeps DEF DescendAgain, Reading

LEMMA Case1KeyKeeps ==
    ASSUME IInv, NEW t \in Thread, Case1Key(t) PROVE Keeps(t)
<1>1. pc[t] = "case 1 key"
    BY DEF Case1Key, CopyThen
<1>2. At(cur(t), "key") \in Location
    BY <1>1, SoundHere, FieldIsLocation DEF AtNode, Place, Plain
<1>3. Sound("case 1 to right", reg[t], log[t])
    BY <1>1, SoundHere DEF Sound, Place, AtNode, RightSeen, BelowParent, Plain
<1> QED
    BY <1>2, <1>3, CopyKeeps, KeyKind DEF Case1Key, Plain

LEMMA Case1RightKeeps ==
    ASSUME IInv, NEW t \in Thread, Case1Right(t) PROVE Keeps(t)
<1>1. pc[t] = "case 1 right"
    BY DEF Case1Right, CopyThen
<1>2. At(cur(t), "right") \in Location
    BY <1>1, SoundHere, FieldIsLocation DEF AtNode, Place, Plain
<1>3. Sound("commit", reg[t], log[t])
    BY SoundHere DEF Sound, Place, AtNode, RightSeen, BelowParent
<1> QED
    BY <1>2, <1>3, CopyKeeps, ChildKind DEF Case1Right, Plain

LEMMA Case2KeyKeeps ==
    ASSUME IInv, NEW t \in Thread, Case2Key(t) PROVE Keeps(t)
<1>1. pc[t] = "case 2 key"
    BY DEF Case2Key, CopyThen
<1>2. At(cur(t), "key") \in Location
    BY <1>1, SoundHere, FieldIsLocation DEF AtNode, Place, Plain
<1>3. Sound("case 2 right", reg[t], log[t])
    BY <1>1, SoundHere DEF Sound, Place, AtNode, RightSeen, BelowParent, Plain
<1> QED
    BY <1>2, <1>3, CopyKeeps, KeyKind DEF Case2Key, Plain

LEMMA Case2RightKeeps ==
    ASSUME IInv, NEW t \in Thread, Case2Right(t) PROVE Keeps(t)
<1>1. pc[t] = "case 2 right"
    BY DEF Case2Right, CopyThen
<1>2. reg[t].parent \in Node
    BY <1>1, SoundHere DEF Sound, BelowParent, Locals, Ptr
<1>3. At(reg[t].parent, "left") \in Location
    BY <1>2, FieldIsLocation
<1>4. Sound("commit", reg[t], log[t])
    BY SoundHere DEF Sound, Place, AtNode, RightSeen, BelowParent
<1> QED
    BY <1>3, <1>4, CopyKeeps, ChildKind DEF Case2Right, Plain

LEMMA RemoveStepKeeps ==
    ASSUME IInv, NEW t \in Thread, RemoveStep(t) PROVE Keeps(t)
<1>1. CASE RemoveRoot(t)
    BY <1>1, DescendKeeps, RootIsLocation DEF RemoveRoot, Reading, Ptr
<1>2. ASSUME NEW f \in {"left", "right"}
      PROVE  Kind(At(cur(t), f)) = Ptr /\ cur(t) \in Ptr
    BY SoundHere, ChildKind DEF cur, Locals
<1>3. CASE RemoveLeft(t)
    BY <1>2, <1>3, DescendKeeps DEF RemoveLeft, Reading
<1>4. CASE RemoveRight(t)
    BY <1>2, <1>4, DescendKeeps DEF RemoveRight, Reading
<1>5. CASE OneLeft(t)
    BY <1>5, OneChildKeeps DEF OneLeft, Reading, AtNode, Place
<1>6. CASE OneRight(t)
    BY <1>6, OneChildKeeps DEF OneRight, Reading, AtNode, Place
<1>7. CASE TwoRight(t)
    BY <1>7, PlainRightKeeps
    DEF TwoRight, RightSeen, BelowParent, AtNode, Place, Plain, Reading
<1>8. CASE Case1ToKey(t)
    BY <1>8, PlainRightKeeps
    DEF Case1ToKey, RightSeen, BelowParent, AtNode, Place, Plain, Reading
<1>9. CASE Case1ToRight(t)
    BY <1>9, PlainRightKeeps
    DEF Case1ToRight, RightSeen, BelowParent, AtNode, Place, Plain, Reading
<1>10. CASE ToChild(t)
    BY <1>10, PlainRightKeeps
    DEF ToChild, RightSeen, BelowParent, AtNode, Place, Plain, Reading
<1> QED
    BY <1>1, <1>3, <1>4, <1>5, <1>6, <1>7, <1>8, <1>9, <1>10, RemoveKeyKeeps,
       RemoveKeyAgainKeeps, LeafLeftKeeps, LeafRightKeeps, DropKeeps, PlainRootKeeps,
       PlainChildKeeps, SpliceKeeps, TwoLeftKeeps, Case1KeyKeeps, Case1RightKeeps,
       ParentKeeps, ChildKeeps, DescendLeftKeeps, DescendAgainKeeps, Case2KeyKeeps,
       Case2RightKeeps DEF RemoveStep

LEMMA StepKeeps ==
    ASSUME IInv, NEW t \in Thread, Step(t) PROVE Keeps(t)
BY BeginKeeps, AbortKeeps, CommitReadOnlyKeeps, AcquireKeeps, ReleaseKeeps, WriteBackKeeps,
   AddStepKeeps, ContainsStepKeeps, RemoveStepKeeps DEF Step

-----------------------------------------------------------------------------
(* The theorems *)

LEMMA InitInv == Init => IInv
<1> SUFFICES ASSUME Init PROVE IInv
    OBVIOUS
<1>1. mem = EmptyTree
    BY DEF Init, TM!WordInitWith
<1>2. \A l \in Location : mem[l] \in Kind(l)
    <2> SUFFICES ASSUME NEW l \in Location PROVE EmptyTree[l] \in Kind(l)
        BY <1>1
    <2>1. CASE l[2] = "key"
        <3>1. l[1] \in Node
            BY <2>1 DEF Location, rootLoc
        <3> QED
            BY <2>1, <3>1, TreeAssumption DEF EmptyTree, Kind
    <2>2. CASE l[2] # "key"
        BY <2>2 DEF EmptyTree, Kind, Ptr
    <2> QED
        BY <2>1, <2>2
<1>3. mem \in [Location -> Word]
    BY <1>1, <1>2 DEF EmptyTree, Kind, Word
<1>4. TM!WordTypeOK
    BY <1>3 DEF Init, TM!WordInitWith, TM!WordTypeOK, TM!NoWrites, TM!Entry
<1>5. \A l \in Location, t \in Thread : writes[t][l] \in Kind(l) \cup {NoVal}
    BY DEF Init, TM!WordInitWith, TM!NoWrites
<1>6. \A t \in Thread : Sound(pc[t], reg[t], log[t]) /\ reg[t] \in Locals /\ pc[t] = "idle"
    <2>1. "idle" \in Place \ (AtNode \cup RightSeen \cup BelowParent)
        BY DEF Place, AtNode, RightSeen, BelowParent
    <2>2. Sound("idle", Blank, {}) /\ Blank \in Locals
        BY <2>1, BlankIsSound DEF Sound
    <2> QED
        BY <2>2 DEF Init, TM!WordInitWith
<1>7. pc \in [Thread -> Place] /\ reg \in [Thread -> Locals]
    BY <1>6 DEF Init, Place
<1>8. TypeOK
    BY <1>2, <1>4, <1>5, <1>7 DEF Init, TypeOK
<1> QED
    BY <1>6, <1>8 DEF IInv

LEMMA NextInv == ASSUME IInv, [Next]_treeVars PROVE IInv' /\ StepIsWord
<1>1. CASE UNCHANGED treeVars
    <2>1. IInv'
        BY <1>1 DEF treeVars, memory, IInv, TypeOK, Sound, TM!WordTypeOK
    <2>2. StepIsWord
        BY <1>1, SameMemory DEF treeVars
    <2> QED
        BY <2>1, <2>2
<1>2. ASSUME NEW t \in Thread, Step(t) PROVE IInv' /\ StepIsWord
    BY <1>2, StepKeeps, KeepsIsEnough DEF Keeps
<1>3. ASSUME NEW t \in Thread, NEW o \in S!Op, Call(t, o) PROVE IInv' /\ StepIsWord
    BY <1>3, CallKeeps, KeepsIsEnough DEF Keeps
<1> QED
    BY <1>1, <1>2, <1>3 DEF Next

LEMMA InvariantHolds == Spec => []IInv
<1>1. IInv /\ [Next]_treeVars => IInv'
    BY NextInv
<1> QED
    BY InitInv, <1>1, PTL DEF Spec

\* Keys and pointers are never mixed, and every variable has its type.
THEOREM TreeTyping == Spec => []TypeOK
<1>1. IInv => TypeOK
    BY DEF IInv
<1> QED
    BY InvariantHolds, <1>1, PTL

\* Whatever races with it, no operation of the tree writes through a null pointer
\* (bench/main.cpp:189-255 and 323-358).
THEOREM WritesAreTame == Spec => []NoWildWrite
<1>1. ASSUME IInv PROVE NoWildWrite
    <2> SUFFICES ASSUME NEW t \in Thread
                 PROVE  /\ pc[t] \in {"new left", "new right", "case 1 key", "case 1 right",
                                      "case 2 key"} => cur(t) # NULL
                        /\ pc[t] \in {"drop", "splice"} => slot(t) \in Location
                        /\ pc[t] = "case 2 right" => reg[t].parent # NULL
        BY DEF NoWildWrite
    <2>1. Sound(pc[t], reg[t], log[t])
        BY <1>1, SoundHere
    <2>2. slot(t) \in Location
        BY <1>1, SlotIsLocation
    <2> QED
        BY <2>1, <2>2 DEF Sound, AtNode, BelowParent, Place, Plain, Writing, cur
<1> QED
    BY InvariantHolds, <1>1, PTL

\* All that the tree does to memory it does by transactions.
THEOREM TreeUsesWordTM == Spec => TM!WordSpec
<1>1. Init => TM!WordInit
    <2> SUFFICES ASSUME Init PROVE TM!WordInit
        OBVIOUS
    <2>1. EmptyTree \in [Location -> Word]
        BY InitInv DEF IInv, TypeOK, TM!WordTypeOK, Init, TM!WordInitWith
    <2> QED
        BY <2>1 DEF Init, TM!WordInit
<1>2. IInv /\ [Next]_treeVars => [TM!WordNext]_(TM!wordVars)
    BY NextInv DEF StepIsWord
<1> QED
    BY InvariantHolds, <1>1, <1>2, PTL DEF Spec, TM!WordSpec
=============================================================================
