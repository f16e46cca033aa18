---------------------------- MODULE WordTMProofs ----------------------------
(* The stepwise commits of WordTM.tla implement the transactions of AtomicTM.tla. *)
EXTENDS WordTM, TLAPS

\* A thread outside a transaction has read nothing and, unless it holds the lock,
\* has nothing to write; the lock's owner is outside a transaction.
Quiet ==
    /\ owner \notin live
    /\ \A t \in Thread \ live : log[t] = {} /\ result[t] = NoVal
    /\ \A t \in Thread \ live : owner # t => writes[t] = NoWrites

WordInv == WordTypeOK /\ Quiet

-----------------------------------------------------------------------------
LEMMA WordInitInv ==
    ASSUME WordAssumption, NEW memory \in [Loc -> Val], WordInitWith(memory) PROVE WordInv
BY DEF WordAssumption, WordInitWith, WordInv, WordTypeOK, Quiet, NoWrites, Entry

LEMMA WordStepType ==
    ASSUME WordTypeOK, [WordNext]_wordVars PROVE WordTypeOK'
<1> USE DEF WordTypeOK, Entry, NoWrites
<1>1. CASE UNCHANGED wordVars
    BY <1>1 DEF wordVars
<1>2. ASSUME NEW t \in Thread, Begin(t) PROVE WordTypeOK'
    BY <1>2 DEF Begin
<1>3. ASSUME NEW t \in Thread, CommitReadOnly(t) PROVE WordTypeOK'
    BY <1>3 DEF CommitReadOnly
<1>4. ASSUME NEW t \in Thread, Acquire(t) PROVE WordTypeOK'
    BY <1>4 DEF Acquire
<1>5. ASSUME NEW t \in Thread, Release(t) PROVE WordTypeOK'
    BY <1>5 DEF Release
<1>6. ASSUME NEW t \in Thread, Abort(t) PROVE WordTypeOK'
    BY <1>6 DEF Abort
<1>7. ASSUME NEW t \in Thread, NEW l \in Loc, ReadOwn(t, l) PROVE WordTypeOK'
    BY <1>7 DEF ReadOwn
<1>8. ASSUME NEW t \in Thread, NEW l \in Loc, ReadMem(t, l) PROVE WordTypeOK'
    BY <1>8 DEF ReadMem
<1>9. ASSUME NEW t \in Thread, NEW l \in Loc, WriteBack(t, l) PROVE WordTypeOK'
    BY <1>9 DEF WriteBack
<1>10. ASSUME NEW t \in Thread, NEW l \in Loc, NEW v \in Val, Write(t, l, v)
       PROVE  WordTypeOK'
    BY <1>10 DEF Write
<1> QED
    BY <1>1, <1>2, <1>3, <1>4, <1>5, <1>6, <1>7, <1>8, <1>9, <1>10 DEF WordNext

LEMMA WordStepQuiet ==
    ASSUME WordAssumption, WordInv, [WordNext]_wordVars PROVE Quiet'
<1> USE DEF WordAssumption, WordInv, WordTypeOK, Quiet
<1>1. CASE UNCHANGED wordVars
    BY <1>1 DEF wordVars
<1>2. ASSUME NEW t \in Thread, Begin(t) PROVE Quiet'
    BY <1>2 DEF Begin
<1>3. ASSUME NEW t \in Thread, CommitReadOnly(t) PROVE Quiet'
    BY <1>3 DEF CommitReadOnly
<1>4. ASSUME NEW t \in Thread, Acquire(t) PROVE Quiet'
    BY <1>4 DEF Acquire
<1>5. ASSUME NEW t \in Thread, Release(t) PROVE Quiet'
    BY <1>5 DEF Release
<1>6. ASSUME NEW t \in Thread, Abort(t) PROVE Quiet'
    BY <1>6 DEF Abort
<1>7. ASSUME NEW t \in Thread, NEW l \in Loc, ReadOwn(t, l) PROVE Quiet'
    BY <1>7 DEF ReadOwn
<1>8. ASSUME NEW t \in Thread, NEW l \in Loc, ReadMem(t, l) PROVE Quiet'
    BY <1>8 DEF ReadMem
<1>9. ASSUME NEW t \in Thread, NEW l \in Loc, WriteBack(t, l) PROVE Quiet'
    BY <1>9 DEF WriteBack
<1>10. ASSUME NEW t \in Thread, NEW l \in Loc, NEW v \in Val, Write(t, l, v)
       PROVE  Quiet'
    BY <1>10 DEF Write
<1> QED
    BY <1>1, <1>2, <1>3, <1>4, <1>5, <1>6, <1>7, <1>8, <1>9, <1>10 DEF WordNext

\* While a thread outside a transaction is quiet, in every execution.
THEOREM WordTyping ==
    ASSUME WordAssumption PROVE WordSpec => []WordInv
<1>1. WordInit => WordInv
    BY WordInitInv DEF WordInit
<1>2. WordInv /\ [WordNext]_wordVars => WordInv'
    BY WordStepType, WordStepQuiet DEF WordInv
<1> QED
    BY <1>1, <1>2, PTL DEF WordSpec

-----------------------------------------------------------------------------
(* The refinement mapping *)

LEMMA CommittedIsMem ==
    ASSUME WordTypeOK, owner = NoThread PROVE Committed = mem
BY DEF Committed, WordTypeOK

LEMMA BufferedOther ==
    ASSUME WordTypeOK, NEW t \in Thread, owner # t PROVE Buffered[t] = writes[t]
BY DEF Buffered

\* The initial memory is an atomic memory with no transaction.
LEMMA WordInitMaps ==
    ASSUME WordAssumption, NEW memory \in [Loc -> Val], WordInitWith(memory) PROVE Atomic!Init
<1>1. Committed = memory
    BY DEF WordInitWith, Committed
<1>2. Buffered = [t \in Thread |-> NoWrites]
    BY DEF WordAssumption, WordInitWith, Buffered
<1> QED
    BY <1>1, <1>2 DEF WordInitWith, Atomic!Init, Atomic!NoWrites, NoWrites

LEMMA BeginMaps ==
    ASSUME WordInv, NEW t \in Thread, Begin(t) PROVE Atomic!Begin(t)
<1>1. Committed' = Committed /\ Buffered' = Buffered
    BY DEF Begin, Committed, Buffered
<1> QED
    BY <1>1 DEF Begin, Atomic!Begin

LEMMA ReadOwnMaps ==
    ASSUME WordInv, NEW t \in Thread, NEW l \in Loc, ReadOwn(t, l)
    PROVE  Atomic!ReadOwn(t, l)
<1>1. Committed' = Committed /\ Buffered' = Buffered
    BY DEF ReadOwn, Committed, Buffered
<1>2. Buffered[t] = writes[t]
    BY BufferedOther DEF WordInv, Quiet, ReadOwn
<1> QED
    BY <1>1, <1>2 DEF ReadOwn, Atomic!ReadOwn

LEMMA ReadMemMaps ==
    ASSUME WordInv, NEW t \in Thread, NEW l \in Loc, ReadMem(t, l)
    PROVE  Atomic!ReadStore(t, l)
<1>1. Committed' = Committed /\ Buffered' = Buffered
    BY DEF ReadMem, Committed, Buffered
<1>2. Buffered[t] = writes[t]
    BY BufferedOther DEF WordInv, Quiet, ReadMem
<1>3. Committed = mem
    BY CommittedIsMem DEF WordInv, ReadMem
<1> QED
    BY <1>1, <1>2, <1>3 DEF ReadMem, Holds, Atomic!ReadStore, Atomic!Holds

LEMMA WriteMaps ==
    ASSUME WordInv, NEW t \in Thread, NEW l \in Loc, NEW v \in Val, Write(t, l, v)
    PROVE  Atomic!Write(t, l, v)
<1>1. owner # t
    BY DEF WordInv, Quiet, Write
<1>2. \A u \in Thread : u # t => writes'[u] = writes[u]
    BY DEF Write, WordInv, WordTypeOK
<1>3. Committed' = Committed
    BY <1>1, <1>2 DEF Write, Committed, WordInv, WordTypeOK
<1>4. Buffered' = [Buffered EXCEPT ![t][l] = v]
    BY <1>1 DEF Write, Buffered, WordInv, WordTypeOK
<1> QED
    BY <1>3, <1>4 DEF Write, Atomic!Write

LEMMA CommitReadOnlyMaps ==
    ASSUME WordInv, NEW t \in Thread, CommitReadOnly(t) PROVE Atomic!Commit(t)
<1>1. Buffered[t] = NoWrites
    BY BufferedOther DEF WordInv, Quiet, CommitReadOnly
<1>2. Committed' = Committed /\ Buffered' = Buffered
    BY DEF CommitReadOnly, Committed, Buffered
<1>3. Committed = Atomic!Written(Committed, NoWrites)
    BY DEF Committed, NoWrites, Atomic!Written
<1>4. Buffered' = [Buffered EXCEPT ![t] = NoWrites]
    BY <1>1, <1>2 DEF Buffered
<1> QED
    BY <1>1, <1>2, <1>3, <1>4
    DEF CommitReadOnly, NoWrites, Atomic!Commit, Atomic!Forget, Atomic!NoWrites

\* The step that takes the lock is the one in which the writes take effect.
LEMMA AcquireMaps ==
    ASSUME WordAssumption, WordInv, NEW t \in Thread, Acquire(t) PROVE Atomic!Commit(t)
<1>1. Committed = mem
    BY CommittedIsMem DEF WordInv, Acquire
<1>2. Buffered[t] = writes[t]
    BY BufferedOther DEF WordAssumption, WordInv, Acquire
<1>3. Committed' = Atomic!Written(mem, writes[t])
    BY DEF WordAssumption, Acquire, Committed, Atomic!Written
<1>4. Buffered' = [Buffered EXCEPT ![t] = NoWrites]
    BY DEF WordAssumption, Acquire, Buffered, WordInv
<1> QED
    BY <1>1, <1>2, <1>3, <1>4
    DEF Acquire, Holds, NoWrites, Atomic!Commit, Atomic!Holds, Atomic!Forget, Atomic!NoWrites

\* Storing a committed write changes nothing: it counts already.
LEMMA WriteBackMaps ==
    ASSUME WordAssumption, WordInv, NEW t \in Thread, NEW l \in Loc, WriteBack(t, l)
    PROVE  UNCHANGED Atomic!vars
<1>1. t # NoThread
    BY DEF WordAssumption
<1>2. writes'[t] = [writes[t] EXCEPT ![l] = NoVal]
    BY DEF WriteBack, WordInv, WordTypeOK
<1>3. \A k \in Loc : Committed'[k] = Committed[k]
    BY <1>1, <1>2 DEF WriteBack, Committed, WordInv, WordTypeOK
<1>4. Committed' = Committed
    BY <1>3 DEF Committed
<1>5. \A u \in Thread : u # t => writes'[u] = writes[u]
    BY DEF WriteBack, WordInv, WordTypeOK
<1>6. Buffered' = Buffered
    BY <1>5 DEF WriteBack, Buffered
<1> QED
    BY <1>4, <1>6 DEF WriteBack, Atomic!vars

LEMMA ReleaseMaps ==
    ASSUME WordAssumption, WordInv, NEW t \in Thread, Release(t) PROVE UNCHANGED Atomic!vars
<1>1. Committed' = Committed
    BY DEF WordAssumption, Release, Committed, NoWrites
<1>2. Buffered' = Buffered
    BY DEF WordAssumption, Release, Buffered
<1> QED
    BY <1>1, <1>2 DEF Release, Atomic!vars

LEMMA AbortMaps ==
    ASSUME WordInv, NEW t \in Thread, Abort(t) PROVE Atomic!Abort(t)
<1>1. owner # t
    BY DEF WordInv, Quiet, Abort
<1>2. \A u \in Thread : u # t => writes'[u] = writes[u]
    BY DEF Abort, WordInv, WordTypeOK
<1>3. Committed' = Committed
    BY <1>1, <1>2 DEF Abort, Committed, WordInv, WordTypeOK
<1>4. Buffered' = [Buffered EXCEPT ![t] = NoWrites]
    BY <1>1 DEF Abort, Buffered, WordInv, WordTypeOK
<1> QED
    BY <1>3, <1>4 DEF Abort, NoWrites, Atomic!Abort, Atomic!Forget, Atomic!NoWrites

LEMMA WordStepMaps ==
    ASSUME WordAssumption, WordInv, [WordNext]_wordVars PROVE [Atomic!Next]_(Atomic!vars)
<1>1. CASE UNCHANGED wordVars
    BY <1>1 DEF wordVars, Atomic!vars, Committed, Buffered
<1>2. CASE WordNext
    BY <1>2, BeginMaps, ReadOwnMaps, ReadMemMaps, WriteMaps, CommitReadOnlyMaps,
       AcquireMaps, WriteBackMaps, ReleaseMaps, AbortMaps DEF WordNext, Atomic!Next
<1> QED
    BY <1>1, <1>2

\* Whatever the threads, the locations and the values: commits that store their
\* writes one by one under the lock are atomic to the transactions.
THEOREM WordRefinesAtomic ==
    ASSUME WordAssumption PROVE WordSpec => ImplementsAtomicTM
<1>1. WordInit => Atomic!Init
    BY WordInitMaps DEF WordInit
<1>2. WordInv /\ [WordNext]_wordVars => [Atomic!Next]_(Atomic!vars)
    BY WordStepMaps
<1> QED
    BY <1>1, <1>2, WordTyping, PTL DEF WordSpec, ImplementsAtomicTM, Atomic!Spec
=============================================================================
