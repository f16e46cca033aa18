---------------------------- MODULE PaVTLinProofs ----------------------------
(***************************************************************************)
(* The tree of PaVT.tla is linearizable, for any threads, keys and nodes,  *)
(* as long as no remove has left a lock behind.                            *)
(*                                                                         *)
(* The set of keys at each moment is that of the linked nodes (Linked): a  *)
(* new node becomes one with the last store of its add, a marked one       *)
(* ceases to be one when its parent no longer points to it.  A call that   *)
(* changes the set takes effect at that store.  For one that changes       *)
(* nothing its history (History) says which nodes were linked since the    *)
(* call and which answers were true at some moment since: a search meets   *)
(* only such nodes, and where it ends one of those answers is the one it   *)
(* gives.  Of the accounts that the observer keeps, the theorem is about   *)
(* those that agree with the linked nodes and the histories (Granted).     *)
(*                                                                         *)
(* One exit of remove (Recheck, main.cpp:245) answers "absent" of a node   *)
(* that is still linked, and it leaks a lock: hence the condition.         *)
(***************************************************************************)
EXTENDS PaVTProofs, PaVTLin

USE DEF Ptr, root

-----------------------------------------------------------------------------
(* The observer *)

Status == S!Answer \cup {"idle", "pending"}

\* An account, and the threads whose call has still to take effect in it.
Account(keys, st) == [set |-> keys, st |-> st]
Waiting(a) == {t \in Thread : a.st[t] = "pending"}

\* The accounts in which only threads with a call wait.
Proper(ops) == {a \in L!Account : \A t \in Waiting(a) : ops[t] \in S!Op}

\* One more of the calls that wait takes effect.
Extend(A, ops) == A \cup UNION {{L!TakeEffect(a, t, ops[t]) : t \in Waiting(a)} : a \in A}

\* Induction on a bounded number, over the set of those that are good.
LEMMA UpTo ==
    ASSUME NEW C \in Nat, NEW G, 0 \in G, \A i \in 1 .. C : i - 1 \in G => i \in G
    PROVE  \A i \in 0 .. C : i \in G
<1> DEFINE Bad == {i \in Nat : i <= C /\ i \notin G}
<1> SUFFICES ASSUME Bad # {} PROVE FALSE
    OBVIOUS
<1>1. PICK m \in Bad : \A i \in Bad : ~(i < m)
    BY Least
<1>2. m \in 1 .. C
    BY <1>1
<1>3. m - 1 \in Nat /\ m - 1 <= C /\ m - 1 < m
    BY <1>2
<1> QED
    BY <1>1, <1>2, <1>3

\* What an operation does to the set, on a key.
LEMMA Effects ==
    ASSUME NEW o \in S!Op, NEW keys
    PROVE  /\ L!After(keys, o) = IF o.type = "add" THEN keys \cup {o.key}
                                 ELSE IF o.type = "remove" THEN keys \ {o.key} ELSE keys
           /\ L!Reply(keys, o) = IF o.key \in keys THEN "present" ELSE "absent"
           /\ o.key \in Key /\ o.type \in {"add", "remove", "contains"}
    BY DEF S!Op, S!OpType, L!After, L!Reply

\* What is waiting in such an account.
LEMMA WaitingTyped ==
    ASSUME NEW ops, NEW a \in Proper(ops), NEW t \in Waiting(a)
    PROVE  /\ a.set \in SUBSET Key /\ a.st \in [Thread -> Status] /\ t \in Thread
           /\ ops[t] \in S!Op /\ a.st[t] = "pending" /\ \A u \in Waiting(a) : ops[u] \in S!Op
    BY DEF Proper, L!Account, L!Answer, S!Answer, Status, Waiting

\* A call that takes effect no longer waits, and the others still do.
LEMMA TakesEffect ==
    ASSUME NEW ops, NEW a \in Proper(ops), NEW t \in Waiting(a)
    PROVE  /\ L!TakeEffect(a, t, ops[t]) \in Proper(ops)
           /\ Waiting(L!TakeEffect(a, t, ops[t])) = Waiting(a) \ {t}
<1>1. /\ a.set \in SUBSET Key /\ a.st \in [Thread -> Status] /\ t \in Thread /\ ops[t] \in S!Op
      /\ a.st[t] = "pending" /\ \A u \in Waiting(a) : ops[u] \in S!Op
    BY WaitingTyped
<1> DEFINE s == L!After(a.set, ops[t])
           p == L!Reply(a.set, ops[t])
           b == L!TakeEffect(a, t, ops[t])
<1>2. s \in SUBSET Key /\ p \in S!Answer
    BY <1>1, Effects DEF S!Answer
<1>3. b = [set |-> s, st |-> [a.st EXCEPT ![t] = p]]
    BY DEF L!TakeEffect
<1> HIDE DEF s, p, b
<1>4. b.set = s /\ b.st = [a.st EXCEPT ![t] = p]
    BY <1>3
<1>5. [a.st EXCEPT ![t] = p] \in [Thread -> L!Answer \cup {"idle", "pending"}]
    BY <1>1, <1>2 DEF Status, L!Answer, S!Answer
<1>6. b \in L!Account
    BY <1>2, <1>3, <1>5 DEF L!Account
<1>7. Waiting(b) = Waiting(a) \ {t}
    BY <1>1, <1>2, <1>4 DEF Waiting, S!Answer
<1>8. b \in Proper(ops)
    BY <1>1, <1>6, <1>7 DEF Proper
<1> QED
    BY <1>7, <1>8 DEF b

\* The accounts of A after at most C rounds.
Rounds(w, C, A, ops) ==
    /\ w \in [0 .. C -> SUBSET Proper(ops)] /\ w[0] = A
    /\ \A i \in 1 .. C : w[i] = Extend(w[i - 1], ops)

\* Calls that take effect leave accounts of the same calls.
LEMMA ExtendProper ==
    ASSUME NEW ops, NEW B \in SUBSET Proper(ops)
    PROVE  Extend(B, ops) \in SUBSET Proper(ops)
<1> SUFFICES ASSUME NEW b \in Extend(B, ops) PROVE b \in Proper(ops)
    OBVIOUS
<1>1. CASE b \in B
    BY <1>1
<1>2. ASSUME NEW a \in B, NEW t \in Waiting(a), b = L!TakeEffect(a, t, ops[t])
      PROVE  b \in Proper(ops)
    BY <1>2, TakesEffect
<1> QED
    BY <1>1, <1>2 DEF Extend

\* There are such rounds, as many as one likes.
LEMMA RoundsExist ==
    ASSUME NEW ops, NEW A \in SUBSET Proper(ops), NEW C \in Nat
    PROVE  \E w : Rounds(w, C, A, ops)
<1> DEFINE G == {m \in Nat : \E w : Rounds(w, m, A, ops)}
<1>1. 0 \in G
    <2> DEFINE w == [i \in 0 .. 0 |-> A]
    <2>1. Rounds(w, 0, A, ops)
        BY DEF Rounds
    <2> QED
        BY <2>1
<1>2. ASSUME NEW m \in 1 .. C, m - 1 \in G PROVE m \in G
    <2>1. PICK f : Rounds(f, m - 1, A, ops)
        BY <1>2
    <2> DEFINE h == [i \in 0 .. m |-> IF i = m THEN Extend(f[m - 1], ops) ELSE f[i]]
    <2>2. m \in Nat /\ m - 1 \in 0 .. m - 1 /\ f[m - 1] \in SUBSET Proper(ops)
        BY <2>1 DEF Rounds
    <2>3. Extend(f[m - 1], ops) \in SUBSET Proper(ops)
        BY <2>2, ExtendProper
    <2>4. /\ \A i \in 0 .. m - 1 : h[i] = f[i] /\ i \in 0 .. m
          /\ h[m] = Extend(h[m - 1], ops) /\ m \in 0 .. m
        BY <2>2
    <2>5. h \in [0 .. m -> SUBSET Proper(ops)]
        BY <2>1, <2>2, <2>3 DEF Rounds
    <2>6. \A i \in 1 .. m : h[i] = Extend(h[i - 1], ops)
        <3> HIDE DEF h
        <3> SUFFICES ASSUME NEW i \in 1 .. m, i # m PROVE h[i] = Extend(h[i - 1], ops)
            BY <2>4
        <3>1. i \in 1 .. m - 1 /\ i \in 0 .. m - 1 /\ i - 1 \in 0 .. m - 1
            BY <2>2
        <3> QED
            BY <2>1, <2>4, <3>1 DEF Rounds
    <2>7. h[0] = A
        BY <2>1, <2>2, <2>4 DEF Rounds
    <2> HIDE DEF h
    <2> QED
        BY <2>2, <2>5, <2>6, <2>7 DEF Rounds
<1> HIDE DEF G
<1>3. \A i \in 0 .. C : i \in G
    BY <1>1, <1>2, UpTo
<1> QED
    BY <1>3 DEF G

\* The observer's count of the threads is the usual one.
LEMMA SameCardinality == L!Cardinality(Thread) = Cardinality(Thread)
    BY Zenon DEF L!Cardinality, Cardinality

\* The closure is what the accounts have grown to after as many rounds as threads.
LEMMA ClosureGrows ==
    ASSUME IsFiniteSet(Thread), NEW ops, NEW A \in SUBSET Proper(ops)
    PROVE  \E w : Rounds(w, Cardinality(Thread), A, ops)
                /\ L!Closure(A, ops) = w[Cardinality(Thread)]
<1> DEFINE C == Cardinality(Thread)
           D == SUBSET Proper(ops)
           IsRounds(f) == f = [i \in 0 .. C |->
                      IF i = 0 THEN A
                      ELSE f[i - 1] \cup UNION {{L!TakeEffect(a, t, ops[t]) :
                               t \in {u \in Thread : a.st[u] = "pending"}} : a \in f[i - 1]}]
<1>1. C \in Nat
    BY FS_CardinalityType
<1>2. PICK f : Rounds(f, C, A, ops)
    BY <1>1, RoundsExist
<1>4. f \in [0 .. C -> D] /\ f[0] = A /\ \A i \in 1 .. C : f[i] = Extend(f[i - 1], ops)
    BY <1>2 DEF Rounds
<1>5. IsRounds(f)
    <2>1. f = [i \in 0 .. C |-> f[i]]
        <3> HIDE DEF C, D
        <3> QED
            BY <1>4
    <2>2. \A i \in 0 .. C : f[i] = IF i = 0 THEN A
             ELSE f[i - 1] \cup UNION {{L!TakeEffect(a, t, ops[t]) :
                      t \in {u \in Thread : a.st[u] = "pending"}} : a \in f[i - 1]}
        <3> SUFFICES ASSUME NEW i \in 0 .. C, i # 0
                     PROVE  f[i] = f[i - 1] \cup UNION {{L!TakeEffect(a, t, ops[t]) :
                              t \in {u \in Thread : a.st[u] = "pending"}} : a \in f[i - 1]}
            BY <1>4, Zenon
        <3>1. i \in 1 .. C
            BY <1>1
        <3> QED
            BY <1>4, <3>1, Zenon DEF Extend, Waiting
    <2> HIDE DEF C, D
    <2> QED
        BY <2>1, <2>2, Zenon
<1>6. L!Closure(A, ops) = (CHOOSE h : IsRounds(h))[C]
    <2>1. L!Closure(A, ops) =
            (CHOOSE h : h = [i \in 0 .. L!Cardinality(Thread) |->
                IF i = 0 THEN A
                ELSE h[i - 1] \cup UNION {{L!TakeEffect(a, t, ops[t]) :
                         t \in {u \in Thread : a.st[u] = "pending"}} : a \in h[i - 1]}])
            [L!Cardinality(Thread)]
        BY Zenon DEF L!Closure
    <2> QED
        BY <2>1, SameCardinality, Zenon
<1>7. PICK w : IsRounds(w) /\ L!Closure(A, ops) = w[C]
    <2> HIDE DEF IsRounds
    <2> QED
        BY <1>5, <1>6, Zenon
<1>8. w[0] = A /\ \A i \in 1 .. C : w[i] = Extend(w[i - 1], ops)
    <2>1. w[0] = A
        <3> HIDE DEF C
        <3> QED
            BY <1>1, <1>7
    <2>2. ASSUME NEW i \in 1 .. C PROVE w[i] = Extend(w[i - 1], ops)
        <3>1. i \in 0 .. C /\ i # 0
            BY <1>1
        <3> HIDE DEF C
        <3> QED
            BY <1>7, <3>1, Zenon DEF Extend, Waiting
    <2> QED
        BY <2>1, <2>2
<1>9. w \in [0 .. C -> D]
    <2>1. \A i \in 0 .. C : w[i] = f[i]
        <3> DEFINE G == {i \in 0 .. C : w[i] = f[i]}
        <3>1. 0 \in G
            BY <1>1, <1>4, <1>8
        <3>2. \A i \in 1 .. C : i - 1 \in G => i \in G
            BY <1>1, <1>4, <1>8
        <3> HIDE DEF G, C
        <3>3. \A i \in 0 .. C : i \in G
            BY <1>1, <3>1, <3>2, UpTo
        <3> QED
            BY <3>3 DEF G
    <2>2. w = [i \in 0 .. C |-> w[i]]
        <3> HIDE DEF C
        <3> QED
            BY <1>7, Zenon
    <2>3. \A i \in 0 .. C : w[i] \in D
        <3> HIDE DEF C, D
        <3> QED
            BY <1>4, <2>1
    <2> HIDE DEF C, D
    <2> QED
        BY <2>2, <2>3
<1> QED
    BY <1>7, <1>8, <1>9 DEF Rounds

\* The rounds only add accounts.
LEMMA RoundsRise ==
    ASSUME NEW ops, NEW A \in SUBSET Proper(ops), NEW C \in Nat, NEW w, Rounds(w, C, A, ops)
    PROVE  \A i \in 0 .. C : w[i] \subseteq w[C]
<1> DEFINE G == {i \in 0 .. C : \A j \in 0 .. i : w[j] \subseteq w[i]}
<1>1. 0 \in G
    OBVIOUS
<1>2. ASSUME NEW i \in 1 .. C, i - 1 \in G PROVE i \in G
    <2>1. w[i - 1] \subseteq w[i]
        BY DEF Rounds, Extend
    <2>2. \A j \in 0 .. i : j = i \/ j \in 0 .. i - 1
        OBVIOUS
    <2> QED
        BY <1>2, <2>1, <2>2
<1> HIDE DEF G
<1>3. \A i \in 0 .. C : i \in G
    BY <1>1, <1>2, UpTo
<1> QED
    BY <1>3 DEF G

\* The closure adds accounts of the same calls.
LEMMA ClosureTyped ==
    ASSUME IsFiniteSet(Thread), NEW ops, NEW A \in SUBSET Proper(ops)
    PROVE  A \subseteq L!Closure(A, ops) /\ L!Closure(A, ops) \in SUBSET Proper(ops)
<1>1. PICK C : C = Cardinality(Thread) /\ C \in Nat
    BY FS_CardinalityType
<1>2. PICK w : Rounds(w, C, A, ops) /\ L!Closure(A, ops) = w[C]
    BY <1>1, ClosureGrows
<1>3. \A i \in 0 .. C : w[i] \subseteq w[C]
    BY <1>1, <1>2, RoundsRise
<1>4. w[0] = A /\ w[C] \in SUBSET Proper(ops) /\ w[0] \subseteq w[C]
    BY <1>1, <1>2, <1>3 DEF Rounds
<1> QED
    BY <1>2, <1>4

\* Every call that waits in an account of the closure may take effect: an account in
\* which one waits has not needed all rounds.
LEMMA ClosureSaturated ==
    ASSUME IsFiniteSet(Thread), NEW ops, NEW A \in SUBSET Proper(ops),
           NEW a \in L!Closure(A, ops), NEW t \in Waiting(a)
    PROVE  L!TakeEffect(a, t, ops[t]) \in L!Closure(A, ops)
<1> DEFINE C == Cardinality(Thread)
<1>1. PICK w : Rounds(w, C, A, ops) /\ L!Closure(A, ops) = w[C]
    BY ClosureGrows
<1>2. C \in Nat /\ \A i \in 0 .. C : w[i] \in SUBSET Proper(ops)
    BY <1>1, FS_CardinalityType DEF Rounds
<1>3. \A b : /\ IsFiniteSet(Waiting(b)) /\ Cardinality(Waiting(b)) \in Nat
             /\ Cardinality(Waiting(b)) <= C
             /\ \A u \in Waiting(b) : Cardinality(Waiting(b) \ {u}) = Cardinality(Waiting(b)) - 1
    <2> TAKE b
    <2>1. Waiting(b) \in SUBSET Thread
        BY DEF Waiting
    <2>2. IsFiniteSet(Waiting(b)) /\ Cardinality(Waiting(b)) <= C
        BY <2>1, FS_Subset
    <2> QED
        BY <2>2, FS_CardinalityType, FS_RemoveElement
<1>4. \A b : \A u \in Waiting(b) : Cardinality(Waiting(b)) >= 1
    <2> TAKE b
    <2> TAKE u \in Waiting(b)
    <2>1. Cardinality(Waiting(b) \ {u}) \in Nat
        BY <1>3, FS_RemoveElement, FS_CardinalityType
    <2> QED
        BY <1>3, <2>1
<1> DEFINE Early(b, j) == b \in w[j] /\ Cardinality(Waiting(b)) + j <= C
           G == {i \in 0 .. C : \A b \in w[i] : \E j \in 0 .. C : Early(b, j)}
<1> HIDE DEF C
<1>5. ASSUME NEW b, NEW u \in Waiting(b), NEW j \in 0 .. C, Early(b, j)
      PROVE  /\ j + 1 \in 0 .. C /\ j + 1 \in 1 .. C
             /\ L!TakeEffect(b, u, ops[u]) \in w[j + 1]
             /\ Early(L!TakeEffect(b, u, ops[u]), j + 1)
    <2>1. j + 1 \in 1 .. C /\ j + 1 \in 0 .. C /\ j + 1 - 1 = j
        BY <1>2, <1>3, <1>4, <1>5
    <2>2. w[j + 1] = Extend(w[j], ops)
        BY <1>1, <2>1 DEF Rounds
    <2>3. L!TakeEffect(b, u, ops[u]) \in w[j + 1]
        BY <1>5, <2>2 DEF Extend
    <2>4. b \in Proper(ops) /\ Cardinality(Waiting(b)) + j <= C
        BY <1>2, <1>5
    <2> DEFINE d == L!TakeEffect(b, u, ops[u])
    <2>5. Waiting(d) = Waiting(b) \ {u}
        BY <2>4, TakesEffect
    <2> HIDE DEF d
    <2>6. Cardinality(Waiting(d)) = Cardinality(Waiting(b)) - 1
        BY <1>3, <2>5
    <2>7. Cardinality(Waiting(d)) + (j + 1) <= C
        BY <1>2, <1>3, <2>4, <2>6
    <2> QED
        BY <2>1, <2>3, <2>7 DEF d
<1>6. 0 \in G
    BY <1>2, <1>3
<1>7. ASSUME NEW i \in 1 .. C, i - 1 \in G PROVE i \in G
    <2> SUFFICES ASSUME NEW b \in w[i] PROVE \E j \in 0 .. C : Early(b, j)
        BY <1>2
    <2>1. w[i] = Extend(w[i - 1], ops)
        BY <1>1 DEF Rounds
    <2>2. CASE b \in w[i - 1]
        BY <1>7, <2>2
    <2>3. ASSUME NEW d \in w[i - 1], NEW u \in Waiting(d), b = L!TakeEffect(d, u, ops[u])
          PROVE  \E j \in 0 .. C : Early(b, j)
        <3>1. PICK j \in 0 .. C : Early(d, j)
            BY <1>7
        <3> HIDE DEF Early
        <3> QED
            BY <1>5, <2>3, <3>1
    <2> HIDE DEF Early
    <2> QED
        BY <2>1, <2>2, <2>3 DEF Extend
<1> HIDE DEF G
<1>8. \A i \in 0 .. C : i \in G
    BY <1>2, <1>6, <1>7, UpTo
<1>9. PICK j \in 0 .. C : Early(a, j)
    BY <1>1, <1>2, <1>8 DEF G
<1>10. j + 1 \in 0 .. C /\ L!TakeEffect(a, t, ops[t]) \in w[j + 1]
    BY <1>5, <1>9
<1>11. w[j + 1] \subseteq w[C]
    BY <1>1, <1>2, <1>10, RoundsRise
<1> QED
    BY <1>1, <1>10, <1>11

\* The closure is the least such set.
LEMMA ClosureLeast ==
    ASSUME IsFiniteSet(Thread), NEW ops, NEW A \in SUBSET Proper(ops), NEW B, A \subseteq B,
           \A a \in B \cap Proper(ops) : \A t \in Waiting(a) : L!TakeEffect(a, t, ops[t]) \in B
    PROVE  L!Closure(A, ops) \subseteq B
<1> DEFINE C == Cardinality(Thread)
<1>1. PICK w : Rounds(w, C, A, ops) /\ L!Closure(A, ops) = w[C]
    BY ClosureGrows
<1>2. C \in Nat /\ w[0] = A /\ \A i \in 0 .. C : w[i] \in SUBSET Proper(ops)
    BY <1>1, FS_CardinalityType DEF Rounds
<1> DEFINE G == {i \in 0 .. C : w[i] \subseteq B}
<1>3. 0 \in G
    BY <1>2
<1>4. ASSUME NEW i \in 1 .. C, i - 1 \in G PROVE i \in G
    <2>1. w[i] = Extend(w[i - 1], ops)
        BY <1>1 DEF Rounds
    <2>2. w[i - 1] \subseteq B \cap Proper(ops)
        BY <1>2, <1>4
    <2>3. Extend(w[i - 1], ops) \subseteq B
        BY <2>2 DEF Extend
    <2> QED
        BY <2>1, <2>3
<1> HIDE DEF G
<1>5. \A i \in 0 .. C : i \in G
    BY <1>2, <1>3, <1>4, UpTo
<1> QED
    BY <1>1, <1>2, <1>5 DEF G

\* Account M, c is reachable for every choice c the threads may have made.
Granted(A, ops, M, C) ==
    \A c \in [Thread -> Status] :
        (\A t \in Thread : c[t] \in C[t]) => Account(M, c) \in L!Closure(A, ops)

\* What t's call answers if it takes effect now, when that changes nothing.
ReadOnly(o, M) == IF L!After(M, o) = M THEN {L!Reply(M, o)} ELSE {}

\* An account in which the call of t has taken effect.
LEMMA TakenEffect ==
    ASSUME NEW M, NEW c \in [Thread -> Status], NEW d \in [Thread -> Status], NEW t \in Thread, NEW o,
           \A u \in Thread \ {t} : d[u] = c[u], d[t] = L!Reply(M, o)
    PROVE  L!TakeEffect(Account(M, c), t, o) = Account(L!After(M, o), d)
<1>1. Account(M, c).set = M /\ Account(M, c).st = c
    BY DEF Account
<1>2. [c EXCEPT ![t] = L!Reply(M, o)] = d
    OBVIOUS
<1> QED
    BY <1>1, <1>2 DEF L!TakeEffect, Account

\* Thread t's call takes effect in all of them.
LEMMA Applied ==
    ASSUME IsFiniteSet(Thread), NEW ops, NEW A \in SUBSET Proper(ops), NEW M, NEW C, NEW D,
           Granted(A, ops, M, C), NEW t \in Thread, "pending" \in C[t],
           \A u \in Thread \ {t} : D[u] \subseteq C[u],
           D[t] \subseteq {L!Reply(M, ops[t])}
    PROVE  Granted(A, ops, L!After(M, ops[t]), D)
<1> SUFFICES ASSUME NEW d \in [Thread -> Status], \A u \in Thread : d[u] \in D[u]
             PROVE  Account(L!After(M, ops[t]), d) \in L!Closure(A, ops)
    BY DEF Granted
<1> DEFINE c == [d EXCEPT ![t] = "pending"]
<1>1. c \in [Thread -> Status] /\ c[t] = "pending" /\ \A u \in Thread \ {t} : d[u] = c[u]
    BY DEF Status
<1> HIDE DEF c
<1>2. Account(M, c) \in L!Closure(A, ops)
    BY <1>1 DEF Granted
<1>3. t \in Waiting(Account(M, c))
    BY <1>1 DEF Waiting, Account
<1>4. L!TakeEffect(Account(M, c), t, ops[t]) \in L!Closure(A, ops)
    BY <1>2, <1>3, ClosureSaturated
<1>5. d[t] = L!Reply(M, ops[t])
    OBVIOUS
<1> QED
    BY <1>1, <1>4, <1>5, TakenEffect

\* Calls that change nothing take effect, of any of the threads.
LEMMA Accumulate ==
    ASSUME IsFiniteSet(Thread), NEW ops, NEW A \in SUBSET Proper(ops), NEW M, NEW C, NEW D,
           Granted(A, ops, M, C),
           \A t \in Thread : \A x \in D[t] :
               x \in C[t] \/ ("pending" \in C[t] /\ x \in ReadOnly(ops[t], M))
    PROVE  Granted(A, ops, M, D)
<1> DEFINE Off(c) == {t \in Thread : c[t] \notin C[t]}
           Fine(c) == \A t \in Thread : c[t] \in C[t] \/ c[t] \in D[t]
           N == Cardinality(Thread)
           G == {i \in 0 .. N : \A c \in [Thread -> Status] :
                    Fine(c) /\ Cardinality(Off(c)) <= i => Account(M, c) \in L!Closure(A, ops)}
<1>1. /\ N \in Nat
      /\ \A c : /\ IsFiniteSet(Off(c)) /\ Cardinality(Off(c)) \in Nat /\ Cardinality(Off(c)) <= N
                /\ \A t \in Off(c) : Cardinality(Off(c) \ {t}) = Cardinality(Off(c)) - 1
    <2>1. ASSUME NEW c
          PROVE  IsFiniteSet(Off(c)) /\ Cardinality(Off(c)) <= N
        <3>1. Off(c) \in SUBSET Thread
            OBVIOUS
        <3> HIDE DEF Off
        <3> QED
            BY <3>1, FS_Subset
    <2> HIDE DEF Off
    <2> QED
        BY <2>1, FS_CardinalityType, FS_RemoveElement
<1>2. 0 \in G
    <2> SUFFICES ASSUME NEW c \in [Thread -> Status], Cardinality(Off(c)) <= 0
                 PROVE  Account(M, c) \in L!Closure(A, ops)
        BY <1>1
    <2>1. Off(c) = {}
        <3> HIDE DEF Off
        <3>1. Cardinality(Off(c)) = 0
            BY <1>1
        <3> QED
            BY <1>1, <3>1, FS_EmptySet
    <2> QED
        BY <2>1 DEF Granted
<1>3. ASSUME NEW i \in 1 .. N, i - 1 \in G PROVE i \in G
    <2> SUFFICES ASSUME NEW c \in [Thread -> Status], Fine(c), Cardinality(Off(c)) <= i
                 PROVE  Account(M, c) \in L!Closure(A, ops)
        BY <1>1
    <2>1. CASE Off(c) = {}
        BY <2>1 DEF Granted
    <2>2. CASE Off(c) # {}
        <3>1. PICK t \in Thread : c[t] \notin C[t]
            BY <2>2
        <3>2. "pending" \in C[t] /\ c[t] \in ReadOnly(ops[t], M)
            BY <3>1
        <3>3. L!After(M, ops[t]) = M /\ c[t] = L!Reply(M, ops[t])
            BY <3>2 DEF ReadOnly
        <3> DEFINE b == [c EXCEPT ![t] = "pending"]
        <3>4. b \in [Thread -> Status] /\ b[t] = "pending" /\ \A u \in Thread \ {t} : c[u] = b[u]
            BY DEF Status
        <3> HIDE DEF b
        <3>5. Off(b) = Off(c) \ {t} /\ t \in Off(c) /\ Fine(b)
            BY <3>1, <3>2, <3>4
        <3>6. Cardinality(Off(b)) <= i - 1
            <4> HIDE DEF Off, Fine, G, N
            <4> QED
                BY <1>1, <3>5
        <3>7. Account(M, b) \in L!Closure(A, ops)
            BY <1>3, <3>4, <3>5, <3>6
        <3>8. t \in Waiting(Account(M, b))
            BY <3>4 DEF Waiting, Account
        <3>9. L!TakeEffect(Account(M, b), t, ops[t]) \in L!Closure(A, ops)
            BY <3>7, <3>8, ClosureSaturated
        <3> QED
            BY <3>3, <3>4, <3>9, TakenEffect
    <2> QED
        BY <2>1, <2>2
<1> HIDE DEF G
<1>4. \A i \in 0 .. N : i \in G
    BY <1>1, <1>2, <1>3, UpTo
<1>5. N \in G
    BY <1>1, <1>4
<1> SUFFICES ASSUME NEW c \in [Thread -> Status], \A t \in Thread : c[t] \in D[t]
             PROVE  Account(M, c) \in L!Closure(A, ops)
    BY DEF Granted
<1>6. Fine(c) /\ Cardinality(Off(c)) <= N
    BY <1>1
<1> QED
    BY <1>5, <1>6 DEF G

\* An account is left.
LEMMA AccountLeft ==
    ASSUME IsFiniteSet(Thread), NEW ops, NEW A \in SUBSET Proper(ops), NEW M, NEW C,
           Granted(A, ops, M, C), \A t \in Thread : C[t] \subseteq Status /\ C[t] # {}
    PROVE  A # {}
<1> SUFFICES ASSUME A = {} PROVE FALSE
    OBVIOUS
<1>1. L!Closure(A, ops) \subseteq {}
    BY ClosureLeast
<1> DEFINE c == [t \in Thread |-> CHOOSE x : x \in C[t]]
<1>2. c \in [Thread -> Status] /\ \A t \in Thread : c[t] \in C[t]
    OBVIOUS
<1> QED
    BY <1>1, <1>2 DEF Granted

\* When no one waits the closure adds nothing.
LEMMA ClosureQuiet ==
    ASSUME IsFiniteSet(Thread), NEW ops, NEW A \in SUBSET Proper(ops), \A a \in A : Waiting(a) = {}
    PROVE  L!Closure(A, ops) = A
    BY ClosureLeast, ClosureTyped

\* A call leaves accounts of the calls in progress.
LEMMA CalledProper ==
    ASSUME NEW ops, NEW A \in SUBSET Proper(ops), NEW t \in Thread, NEW new, new[t] \in S!Op,
           \A u \in Thread \ {t} : new[u] = ops[u]
    PROVE  L!Called(A, t) \in SUBSET Proper(new)
<1> SUFFICES ASSUME NEW a \in A PROVE [a EXCEPT !.st[t] = "pending"] \in Proper(new)
    BY DEF L!Called
<1> DEFINE b == [a EXCEPT !.st[t] = "pending"]
<1>1. a \in L!Account /\ \A u \in Waiting(a) : ops[u] \in S!Op
    BY DEF Proper
<1>2. b \in L!Account /\ b.st = [a.st EXCEPT ![t] = "pending"]
    BY <1>1 DEF L!Account
<1>3. \A u \in Waiting(b) : u = t \/ u \in Waiting(a)
    BY <1>1, <1>2 DEF Waiting, L!Account
<1> HIDE DEF b
<1>4. b \in Proper(new)
    BY <1>1, <1>2, <1>3 DEF Proper, Waiting
<1> QED
    BY <1>4 DEF b

\* And so does a return.
LEMMA ReturnedProper ==
    ASSUME IsFiniteSet(Thread), NEW ops, NEW A \in SUBSET Proper(ops), NEW t \in Thread, NEW new, NEW x,
           \A u \in Thread \ {t} : new[u] = ops[u]
    PROVE  L!Returned(A, ops, t, x) \in SUBSET Proper(new)
<1> SUFFICES ASSUME NEW a \in L!Closure(A, ops)
             PROVE  [a EXCEPT !.st[t] = "idle"] \in Proper(new)
    BY DEF L!Returned
<1> DEFINE b == [a EXCEPT !.st[t] = "idle"]
<1>1. a \in L!Account /\ \A u \in Waiting(a) : ops[u] \in S!Op
    BY ClosureTyped DEF Proper
<1>2. b \in L!Account /\ b.st = [a.st EXCEPT ![t] = "idle"]
    BY <1>1 DEF L!Account
<1>3. \A u \in Waiting(b) : u # t /\ u \in Waiting(a)
    BY <1>1, <1>2 DEF Waiting, L!Account
<1> HIDE DEF b
<1>4. b \in Proper(new)
    BY <1>1, <1>2, <1>3 DEF Proper, Waiting
<1> QED
    BY <1>4 DEF b

\* Thread t returns x.
LEMMA Answered ==
    ASSUME IsFiniteSet(Thread), NEW ops, NEW A \in SUBSET Proper(ops), NEW M, NEW C, NEW D,
           Granted(A, ops, M, C), NEW t \in Thread, NEW x \in C[t], x \in Status,
           NEW new, \A u \in Thread \ {t} : new[u] = ops[u],
           \A u \in Thread \ {t} : D[u] \subseteq C[u], D[t] \subseteq {"idle"}
    PROVE  Granted(L!Returned(A, ops, t, x), new, M, D)
<1> SUFFICES ASSUME NEW d \in [Thread -> Status], \A u \in Thread : d[u] \in D[u]
             PROVE  Account(M, d) \in L!Closure(L!Returned(A, ops, t, x), new)
    BY DEF Granted
<1> DEFINE c == [d EXCEPT ![t] = x]
<1>1. c \in [Thread -> Status] /\ c[t] = x /\ [c EXCEPT ![t] = "idle"] = d
      /\ \A u \in Thread \ {t} : d[u] = c[u]
    OBVIOUS
<1> HIDE DEF c
<1>2. Account(M, c) \in L!Closure(A, ops)
    BY <1>1 DEF Granted
<1>3. [Account(M, c) EXCEPT !.st[t] = "idle"] = Account(M, d) /\ Account(M, c).st[t] = x
    BY <1>1 DEF Account
<1>4. Account(M, d) \in L!Returned(A, ops, t, x)
    BY <1>2, <1>3 DEF L!Returned
<1>5. L!Returned(A, ops, t, x) \in SUBSET Proper(new)
    BY ReturnedProper
<1> QED
    BY <1>4, <1>5, ClosureTyped

\* Thread t calls: what took effect before the call might as well do so after it.
LEMMA CallsCommute ==
    ASSUME IsFiniteSet(Thread), NEW ops, NEW A \in SUBSET Proper(ops), NEW M, NEW C, NEW D,
           Granted(A, ops, M, C), NEW t \in Thread, "idle" \in C[t],
           NEW new, new[t] \in S!Op, \A u \in Thread \ {t} : new[u] = ops[u],
           \A u \in Thread \ {t} : D[u] \subseteq C[u], D[t] \subseteq {"pending"}
    PROVE  Granted(L!Called(A, t), new, M, D)
<1> DEFINE T == L!Closure(L!Called(A, t), new)
           Later(a) == [a EXCEPT !.st[t] = "pending"]
           B == {a \in Proper(ops) : a.st[t] = "idle" => Later(a) \in T}
<1>1. L!Called(A, t) \in SUBSET Proper(new)
    BY CalledProper
<1>2. A \subseteq B
    <2>1. L!Called(A, t) \subseteq T
        BY <1>1, ClosureTyped
    <2> QED
        BY <2>1 DEF L!Called
<1>3. ASSUME NEW a \in B, NEW u \in Waiting(a)
      PROVE  L!TakeEffect(a, u, ops[u]) \in B
    <2> DEFINE b == L!TakeEffect(a, u, ops[u])
    <2>1. b \in Proper(ops) /\ a \in L!Account
        BY TakesEffect DEF Proper
    <2>2. b.st = [a.st EXCEPT ![u] = L!Reply(a.set, ops[u])] /\ b.set = L!After(a.set, ops[u])
        BY DEF L!TakeEffect
    <2>3. u \in Thread /\ a.st[u] = "pending" /\ a.st \in [Thread -> Status] /\ L!Reply(a.set, ops[u]) # "idle"
        BY WaitingTyped DEF L!Reply
    <2> SUFFICES ASSUME b.st[t] = "idle" PROVE Later(b) \in T
        BY <2>1
    <2>4. u # t /\ a.st[t] = "idle"
        BY <2>2, <2>3
    <2>5. Later(a) \in T
        BY <2>4
    <2>6. Later(a).set = a.set /\ Later(a).st = [a.st EXCEPT ![t] = "pending"]
        BY <2>1 DEF L!Account
    <2>7. u \in Waiting(Later(a))
        BY <2>3, <2>4, <2>6 DEF Waiting
    <2>8. L!TakeEffect(Later(a), u, new[u]) \in T
        <3> HIDE DEF Later
        <3> QED
            BY <1>1, <2>5, <2>7, ClosureSaturated
    <2>9. L!TakeEffect(Later(a), u, new[u]) = Later(b)
        <3>1. new[u] = ops[u]
            BY <2>3, <2>4
        <3>2. Later(b) = [set |-> b.set, st |-> [b.st EXCEPT ![t] = "pending"]]
            BY DEF L!TakeEffect
        <3>3. L!TakeEffect(Later(a), u, new[u]) =
                [set |-> L!After(a.set, ops[u]),
                 st |-> [[a.st EXCEPT ![t] = "pending"] EXCEPT ![u] = L!Reply(a.set, ops[u])]]
            <4> HIDE DEF Later
            <4> QED
                BY <2>6, <3>1 DEF L!TakeEffect
        <3>4. [[a.st EXCEPT ![t] = "pending"] EXCEPT ![u] = L!Reply(a.set, ops[u])]
              = [[a.st EXCEPT ![u] = L!Reply(a.set, ops[u])] EXCEPT ![t] = "pending"]
            BY <2>3, <2>4
        <3> HIDE DEF Later, b
        <3> QED
            BY <2>2, <3>2, <3>3, <3>4
    <2> QED
        BY <2>8, <2>9
<1>4. L!Closure(A, ops) \subseteq B
    <2> HIDE DEF B
    <2> QED
        BY <1>2, <1>3, ClosureLeast
<1> SUFFICES ASSUME NEW d \in [Thread -> Status], \A u \in Thread : d[u] \in D[u]
             PROVE  Account(M, d) \in T
    BY DEF Granted
<1> DEFINE c == [d EXCEPT ![t] = "idle"]
<1>5. c \in [Thread -> Status] /\ c[t] = "idle" /\ [c EXCEPT ![t] = "pending"] = d
      /\ \A u \in Thread \ {t} : d[u] = c[u]
    BY DEF Status
<1> HIDE DEF c
<1>6. Account(M, c) \in L!Closure(A, ops)
    BY <1>5 DEF Granted
<1>7. Later(Account(M, c)) = Account(M, d) /\ Account(M, c).st[t] = "idle"
    BY <1>5 DEF Account
<1> QED
    BY <1>4, <1>6, <1>7

-----------------------------------------------------------------------------
(* The nodes that are still linked *)

\* A remove that has marked its node, and one that has not yet taken it from its
\* parent; the side on which it hangs.
Removing(t) == pc[t] = "store" /\ op[t].type = "remove"
CutSide(r)  == IF r.leftChild THEN "left" ELSE "right"
Cutting(t)  == Removing(t) /\ link[CutSide(reg[t])][reg[t].parent] = reg[t].node

\* The nodes that hang in the tree: one being added does not yet, one being removed
\* still does.
Linked ==
    {n \in alloc : /\ \A u \in Thread : Adding(u) => n # New(u)
                   /\ marked[n] => \E t \in Thread : Cutting(t) /\ reg[t].node = n}

\* Until the node is cut, the snapshots that will pass over it are still to be
\* stored, and what is stored first are tree pointers.
SpliceFirst(t) ==
    LET r == reg[t] IN
    /\ [f |-> "rightSnapshot", n |-> r.rightNode, v |-> r.leftNode] \in PendingStores(t)
    /\ [f |-> "leftSnapshot", n |-> r.leftNode, v |-> r.rightNode] \in PendingStores(t)
    /\ \E i \in DOMAIN todo[t] :
          /\ todo[t][i].f = CutSide(r) /\ todo[t][i].n = r.parent
          /\ \A j \in 1 .. i : todo[t][j].f \in TreeField

CutKept(t) ==
    LET r == reg[t] IN
    /\ r.node \in held[t] /\ r.parent \in held[t] /\ link["parent"][r.node] = r.parent
    /\ \A e \in Side : link[e][r.node] \in held[t] \cup {NULL}
    /\ Beside("left", r.rightNode, r.node) /\ Beside("right", r.leftNode, r.node)
    /\ SpliceFirst(t)

\* A child pointer to be overwritten leads to a node that the thread has locked.
OldKids(t) ==
    \A w \in PendingStores(t) : w.f \in Side => link[w.f][w.n] \in held[t] \cup {NULL, w.v}

\* Linked nodes lead to live ones or to one that is about to be cut.
KidsLinked ==
    \A x \in Linked : \A e \in Side : link[e][x] # NULL =>
        \/ link[e][x] \in Live
        \/ \E t \in Thread : /\ Cutting(t) /\ reg[t].node = link[e][x]
                             /\ x = reg[t].parent /\ e = CutSide(reg[t])

\* A snapshot passes over a node only if it is one being added.
Overtakes(x, e, m) ==
    LET z == link[SnapshotField(e)][x] IN z # NULL /\ Beside(e, z, m) /\ Beside(e, m, x)

SnapshotsNear ==
    \A x, m \in Linked \cup Live : \A e \in Side : Overtakes(x, e, m) =>
        \E t \in Thread : /\ Adding(t) /\ m = New(t)
                          /\ \E w \in PendingStores(t) : w.f = SnapshotField(e) /\ w.n = x

ThreadKept(t) ==
    /\ Removing(t) => /\ reg[t].node \in alloc /\ marked[reg[t].node]
                      /\ value[reg[t].node] = op[t].key
    /\ Cutting(t) => CutKept(t)
    /\ OldKids(t)
    /\ Adding(t) => /\ value[New(t)] = op[t].key
                    /\ \A e \in Side : link[e][New(t)] = NULL

LinkInv == (\A t \in Thread : ThreadKept(t)) /\ KidsLinked /\ SnapshotsNear

-----------------------------------------------------------------------------
(* Where a linked node that is marked lies *)

\* Two live nodes with live neighbours on side e, on either side of one value, are one.
LEMMA OneSlot ==
    ASSUME NEW g, NEW live, Shape(g, live), NEW e \in Side, NEW m \in Node,
           NEW x \in live \ {End(e)}, NEW y \in live \ {End(e)},
           Beside(e, m, x), Beside(e, g.near[e][x], m), Beside(e, m, y), Beside(e, g.near[e][y], m)
    PROVE  x = y
<1> SUFFICES ASSUME x # y PROVE FALSE
    OBVIOUS
<1>1. live \subseteq Node /\ value[x] # value[y]
    BY DEF Shape
<1>2. /\ g.near[e][x] \in live /\ g.near[e][y] \in live
      /\ \A z \in live : ~(Beside(e, g.near[e][x], z) /\ Beside(e, z, x))
      /\ \A z \in live : ~(Beside(e, g.near[e][y], z) /\ Beside(e, z, y))
    BY NeighbourOf
<1>3. CASE Beside(e, x, y)
    <2>1. Beside(e, g.near[e][y], x)
        BY <1>1, <1>2, Order
    <2> QED
        BY <1>2, <1>3, <2>1
<1>4. CASE Beside(e, y, x)
    <2>1. Beside(e, g.near[e][x], y)
        BY <1>1, <1>2, Order
    <2> QED
        BY <1>2, <1>4, <2>1
<1> QED
    BY <1>1, <1>3, <1>4, Order

\* It lies between two live neighbours whose snapshots its remove has still to store.
LEMMA MarkedSlot ==
    ASSUME NEW g, Good(g), LinkInv, NEW m \in Linked, marked[m], NEW e \in Side
    PROVE  \E t \in Thread : \E w \in PendingStores(t) :
              /\ Cutting(t) /\ reg[t].node = m /\ w.f = SnapshotField(e)
              /\ w.n \in Live \ {End(e)}
              /\ Beside(e, m, w.n) /\ Beside(e, g.near[e][w.n], m)
<1>1. PICK t \in Thread : Cutting(t) /\ reg[t].node = m
    BY DEF Linked
<1> DEFINE a == reg[t].rightNode
           b == reg[t].leftNode
           u == [f |-> "rightSnapshot", n |-> a, v |-> b]
           v == [f |-> "leftSnapshot", n |-> b, v |-> a]
<1>2. u \in PendingStores(t) /\ v \in PendingStores(t) /\ Beside("left", a, m) /\ Beside("right", b, m)
    BY <1>1 DEF LinkInv, ThreadKept, CutKept, SpliceFirst
<1>3. a \in Live /\ b \in Live /\ Final(g, "rightSnapshot", a) = b /\ Final(g, "leftSnapshot", b) = a
    BY <1>2, Pending
<1>4. g.near["right"][a] = b /\ g.near["left"][b] = a
    BY <1>3 DEF Final
<1>5. a # End("right") /\ b # End("left")
    <2>1. GapsOwned(g) /\ "right" \in Side /\ "left" \in Side
        BY DEF Good, HeapInv, Side
    <2>2. u.f = SnapshotField("right") /\ v.f = SnapshotField("left") /\ u.n = a /\ v.n = b
        BY DEF SnapshotField
    <2> HIDE DEF a, b, u, v
    <2> QED
        BY <1>2, <2>1, <2>2 DEF GapsOwned
<1>6. m \in Node /\ a \in Node /\ b \in Node
    BY <1>3, LiveFacts DEF Linked
<1>7. Beside("right", m, a) /\ Beside("left", m, b)
    BY <1>2, <1>6, Order DEF Side, Opp
<1>8. CASE e = "right"
    BY <1>1, <1>2, <1>3, <1>4, <1>5, <1>7, <1>8 DEF SnapshotField
<1>9. CASE e = "left"
    BY <1>1, <1>2, <1>3, <1>4, <1>5, <1>7, <1>9 DEF SnapshotField
<1> QED
    BY <1>8, <1>9 DEF Side

\* So who finds it between two live neighbours finds that store.
LEMMA SlotStore ==
    ASSUME NEW g, Good(g), LinkInv, NEW m \in Linked, marked[m], NEW e \in Side,
           NEW x \in Live \ {End(e)}, Beside(e, m, x), Beside(e, g.near[e][x], m)
    PROVE  \E t \in Thread : \E w \in PendingStores(t) :
              Cutting(t) /\ reg[t].node = m /\ w.f = SnapshotField(e) /\ w.n = x
<1>1. PICK t, w :
              /\ t \in Thread /\ w \in PendingStores(t) /\ Cutting(t) /\ reg[t].node = m /\ w.f = SnapshotField(e)
              /\ w.n \in Live \ {End(e)}
              /\ Beside(e, m, w.n) /\ Beside(e, g.near[e][w.n], m)
    BY MarkedSlot
<1>2. Shape(g, Live) /\ m \in Node
    BY LiveFacts DEF Linked
<1>3. w.n = x
    BY <1>1, <1>2, OneSlot
<1> QED
    BY <1>1, <1>3

\* Linked and live nodes have different values.
LEMMA OneValue ==
    ASSUME NEW g, Good(g), LinkInv, NEW x \in Linked \cup Live, NEW y \in Linked \cup Live, x # y
    PROVE  value[x] # value[y] /\ x \in Node /\ y \in Node
<1>1. /\ Shape(g, Live) /\ "left" \in Side /\ x \in Node /\ y \in Node
      /\ \A z \in Linked \cup Live : z \in Live \/ marked[z]
      /\ \A z \in Linked \cup Live : marked[z] => z \in Linked
    BY LiveFacts DEF Linked, Live, Side
<1>2. ASSUME NEW p \in Linked \cup Live, NEW q \in Linked \cup Live, p # q, marked[p],
             value[p] = value[q]
      PROVE  FALSE
    <2>1. PICK t, w :
              /\ t \in Thread /\ w \in PendingStores(t) /\ Cutting(t) /\ reg[t].node = p /\ w.f = SnapshotField("left")
              /\ w.n \in Live \ {End("left")}
              /\ Beside("left", p, w.n) /\ Beside("left", g.near["left"][w.n], p)
        BY <1>1, <1>2, MarkedSlot
    <2>2. Beside("left", q, w.n) /\ Beside("left", g.near["left"][w.n], q)
        BY <1>2, <2>1 DEF Beside
    <2>3. CASE q \in Live
        BY <1>1, <2>1, <2>2, <2>3, NeighbourOf
    <2>4. CASE marked[q]
        <3>1. PICK u, v :
                 u \in Thread /\ v \in PendingStores(u) /\ Cutting(u) /\ reg[u].node = q /\ v.f = SnapshotField("left") /\ v.n = w.n
            BY <1>1, <1>2, <2>1, <2>2, <2>4, SlotStore
        <3>2. t = u
            BY <2>1, <3>1 DEF Good, HeapInv, NoStoreRace
        <3> QED
            BY <1>2, <2>1, <3>1, <3>2
    <2> QED
        BY <1>1, <2>3, <2>4
<1>3. CASE x \in Live /\ y \in Live
    BY <1>1, <1>3 DEF Shape
<1> QED
    BY <1>1, <1>2, <1>3

\* No linked or live node lies between live neighbours between which no store is pending.
LEMMA NoneBetween ==
    ASSUME NEW g, Good(g), LinkInv, NEW m \in Linked \cup Live, NEW e \in Side,
           NEW x \in Live \ {End(e)}, Beside(e, m, x), Beside(e, g.near[e][x], m)
    PROVE  \E t \in Thread : \E w \in PendingStores(t) :
              Cutting(t) /\ w.f = SnapshotField(e) /\ w.n = x
<1>1. Shape(g, Live) /\ (m \in Live \/ marked[m])
    BY LiveFacts DEF Linked, Live
<1>2. m \notin Live
    BY <1>1, NeighbourOf
<1> QED
    BY <1>1, <1>2, SlotStore

\* The children of a linked node are linked.
LEMMA KidsOfLinked ==
    ASSUME NEW g, Good(g), LinkInv, NEW x \in Linked, NEW e \in Side, link[e][x] # NULL
    PROVE  link[e][x] \in Linked
<1>1. x \in alloc /\ KidsLinked
    BY DEF Linked, LinkInv
<1>2. link[e][x] \in Shown
    BY <1>1, Fields DEF Good, HeapInv, LinksShown
<1>3. CASE link[e][x] \in Live
    BY <1>2, <1>3 DEF Linked, Live, Shown
<1>4. CASE \E t \in Thread : Cutting(t) /\ reg[t].node = link[e][x]
    BY <1>2, <1>4 DEF Linked, Shown
<1> QED
    BY <1>1, <1>3, <1>4 DEF KidsLinked

-----------------------------------------------------------------------------
(* What is linked after a step *)

\* The two kinds of linked nodes, and what a step does to them.
LEMMA LinkedParts ==
    \A n : n \in Linked <=> /\ n \in alloc /\ \A u \in Thread : Adding(u) => n # New(u)
                            /\ marked[n] => \E t \in Thread : Cutting(t) /\ reg[t].node = n
    BY DEF Linked

\* The same after the step.
LEMMA LinkedPartsAfter ==
    \A n : n \in Linked' <=> /\ n \in alloc' /\ \A u \in Thread : Adding(u)' => n # New(u)'
                             /\ marked'[n] => \E t \in Thread : Cutting(t)' /\ reg'[t].node = n
    BY DEF Linked

\* A step that makes no store and changes no heap.
LEMMA QuietLinks ==
    ASSUME NEW g, Good(g), LinkInv, NEW t \in Thread, Others(t), UNCHANGED <<heap, todo>>,
           pc[t] # "store", pc'[t] # "store"
    PROVE  LinkInv' /\ Linked' = Linked
<1>1. /\ link' = link /\ marked' = marked /\ alloc' = alloc /\ todo' = todo /\ Live' = Live
      /\ \A u \in Thread : PendingStores(u)' = PendingStores(u) /\ New(u)' = New(u)
    BY DEF heap, Live, PendingStores, New
<1>2. \A u \in Thread : /\ Removing(u)' <=> Removing(u)
                        /\ Adding(u)' <=> Adding(u)
                        /\ Removing(u) \/ Adding(u) =>
                              reg'[u] = reg[u] /\ held'[u] = held[u] /\ op'[u] = op[u]
    BY DEF Others, Removing, Adding
<1>3. \A u \in Thread : Cutting(u)' <=> Cutting(u)
    BY <1>1, <1>2 DEF Cutting
<1>4. Linked' = Linked
    <2>1. \A n : n \in Linked' <=> n \in Linked
        BY <1>1, <1>2, <1>3, LinkedParts, LinkedPartsAfter DEF Cutting
    <2> QED
        BY <2>1
<1>5. ASSUME NEW u \in Thread PROVE ThreadKept(u)'
    <2>1. ThreadKept(u)
        BY DEF LinkInv
    <2>2. CASE u = t
        <3>1. ~Removing(u)' /\ ~Cutting(u)' /\ ~Adding(u)'
            BY <2>2 DEF Removing, Cutting, Adding
        <3>2. OldKids(u)'
            <4>1. PendingStores(u)' = {}
                BY <1>1, <2>2, KnownHere, NonePending
            <4> QED
                BY <4>1 DEF OldKids
        <3> QED
            BY <3>1, <3>2 DEF ThreadKept
    <2>3. CASE u # t
        <3>1. reg'[u] = reg[u] /\ held'[u] = held[u] /\ op'[u] = op[u] /\ pc'[u] = pc[u]
            BY <2>3 DEF Others
        <3>2. CutKept(u) => CutKept(u)'
            BY <1>1, <3>1 DEF CutKept, SpliceFirst
        <3>3. OldKids(u)'
            BY <1>1, <2>1, <3>1 DEF OldKids, ThreadKept
        <3> QED
            BY <1>1, <1>2, <1>3, <2>1, <3>1, <3>2, <3>3 DEF ThreadKept
    <2> QED
        BY <2>2, <2>3
<1>6. KidsLinked'
    <2>1. \A u \in Thread : Cutting(u) => reg'[u] = reg[u]
        BY <1>2 DEF Cutting
    <2> QED
        BY <1>1, <1>3, <1>4, <2>1 DEF LinkInv, KidsLinked
<1>7. SnapshotsNear'
    <2>1. \A x, e, m : Overtakes(x, e, m)' <=> Overtakes(x, e, m)
        BY <1>1 DEF Overtakes, Beside
    <2> QED
        BY <1>1, <1>2, <1>4, <2>1 DEF LinkInv, SnapshotsNear
<1> QED
    BY <1>4, <1>5, <1>6, <1>7 DEF LinkInv

\* A list of several stores is not one of one.
LEMMA MoreThanOne == \A i \in Nat : i > 1 => i # 1
    OBVIOUS

\* What the next store of t is.
LEMMA NextStore ==
    ASSUME NEW g, Good(g), NEW t \in Thread, DoStore(t), NEW s, s = Head(todo[t])
    PROVE  /\ s \in PendingStores(t) /\ s \in Store /\ s.f \in Field /\ s.n \in Ptr
           /\ s.n \in Live /\ ~marked[s.n] /\ ~marked[s.v] /\ Final(g, s.f, s.n) = s.v
           /\ s.f \in TreeField => s.n \in held[t]
           /\ todo[t] \in Seq(Store) /\ todo[t] # << >> /\ todo[t][1] = s
           /\ DOMAIN todo[t] = 1 .. Len(todo[t]) /\ Len(todo[t]) \in Nat /\ Len(todo[t]) >= 1
<1>1. s \in PendingStores(t)
    BY StoreEffect
<1>2. /\ s \in Store /\ todo[t] # << >> /\ s.n \in Live /\ Final(g, s.f, s.n) = s.v
      /\ s.f \in TreeField => s.n \in held[t]
    BY <1>1, Pending
<1>3. ~marked[s.n] /\ ~marked[s.v]
    BY <1>1, TargetsLive DEF NoDeadTarget
<1>4. todo[t] \in Seq(Store)
    BY DEF Good, TypeOK
<1>5. /\ todo[t][1] = s /\ DOMAIN todo[t] = 1 .. Len(todo[t])
      /\ Len(todo[t]) \in Nat /\ Len(todo[t]) >= 1
    BY <1>2, <1>4
<1> QED
    BY <1>1, <1>2, <1>3, <1>4, <1>5 DEF Store

\* The store that takes the node from its parent.
Cuts(t) == Cutting(t) /\ Head(todo[t]).f = CutSide(reg[t]) /\ Head(todo[t]).n = reg[t].parent

\* A remove that has not cut its node has a tree pointer to store next.
LEMMA CuttingNext ==
    ASSUME NEW g, Good(g), LinkInv, NEW t \in Thread, DoStore(t), Cutting(t), NEW s, s = Head(todo[t])
    PROVE  /\ s.f \in TreeField /\ Len(todo[t]) > 1 /\ CutKept(t) /\ Removing(t)
           /\ ~Cuts(t) => SpliceFirst(t)'
<1> DEFINE r == reg[t]
           u == [f |-> "rightSnapshot", n |-> r.rightNode, v |-> r.leftNode]
           v == [f |-> "leftSnapshot", n |-> r.leftNode, v |-> r.rightNode]
           q == todo[t]
           F == CutSide(r)
           P == r.parent
<1>1. CutKept(t) /\ Removing(t)
    BY DEF LinkInv, ThreadKept, Cutting
<1>2. u \in PendingStores(t) /\ v \in PendingStores(t) /\ u # v
    BY <1>1 DEF CutKept, SpliceFirst
<1>3. PICK i \in DOMAIN q : q[i].f = F /\ q[i].n = P /\ \A j \in 1 .. i : q[j].f \in TreeField
    BY <1>1 DEF CutKept, SpliceFirst
<1>4. /\ q \in Seq(Store) /\ q[1] = s /\ DOMAIN q = 1 .. Len(q) /\ Len(q) \in Nat /\ Len(q) >= 1
      /\ q # << >>
    BY NextStore
<1>5. i \in Nat /\ 1 <= i /\ i <= Len(q) /\ s.f \in TreeField
    BY <1>3, <1>4
<1>6. Len(q) > 1
    BY <1>2, <1>4 DEF PendingStores
<1>8. Len(todo[t]) # 1
    BY <1>4, <1>6, MoreThanOne
<1>7. ASSUME ~Cuts(t) PROVE SpliceFirst(t)'
    <2>1. i # 1
        BY <1>3, <1>4, <1>7 DEF Cuts
    <2>2. todo'[t] = Tail(q) /\ reg'[t] = r
        <3>1. todo'[t] = Tail(todo[t]) /\ (Len(todo[t]) = 1 \/ reg'[t] = reg[t])
            BY StoreEffect
        <3> QED
            BY <3>1, <1>8
    <2>3. u \in PendingStores(t)' /\ v \in PendingStores(t)'
        <3>1. \A w \in PendingStores(t) : w \in PendingStores(t)' \/ w = s
            BY StoreEffect
        <3>2. u # s /\ v # s
            BY <1>5 DEF TreeField
        <3> QED
            BY <1>2, <3>1, <3>2
    <2>4. /\ DOMAIN Tail(q) = 1 .. Len(q) - 1
          /\ \A j \in 1 .. Len(q) - 1 : Tail(q)[j] = q[j + 1]
        <3> HIDE DEF q
        <3> QED
            BY <1>4
    <2>5. /\ i - 1 \in DOMAIN Tail(q) /\ Tail(q)[i - 1] = q[i]
          /\ \A j \in 1 .. i - 1 : Tail(q)[j] = q[j + 1] /\ j + 1 \in 1 .. i
        <3> HIDE DEF q
        <3> QED
            BY <1>4, <1>5, <2>1, <2>4
    <2>6. /\ Tail(q)[i - 1].f = F /\ Tail(q)[i - 1].n = P
          /\ \A j \in 1 .. i - 1 : Tail(q)[j].f \in TreeField
        <3> HIDE DEF q
        <3> QED
            BY <1>3, <2>5
    <2> QED
        BY <2>2, <2>3, <2>5, <2>6 DEF SpliceFirst
<1> QED
    BY <1>1, <1>5, <1>6, <1>7

\* Other removes are not affected, and that of t cuts its node or does not.
LEMMA StoreCutting ==
    ASSUME NEW g, Good(g), LinkInv, NEW t \in Thread, DoStore(t)
    PROVE  /\ \A u \in Thread : Cutting(u)' <=> Cutting(u) /\ ~(u = t /\ Cuts(t))
           /\ \A u \in Thread : Cutting(u)' => reg'[u] = reg[u] /\ held'[u] = held[u] /\ op'[u] = op[u]
           /\ \A u \in Thread : Removing(u)' =>
                 Removing(u) /\ reg'[u] = reg[u] /\ op'[u] = op[u]
<1> DEFINE s == Head(todo[t])
<1>1. /\ s.f \in Field /\ s.n \in Ptr /\ ~marked[s.v] /\ (s.f \in TreeField => s.n \in held[t])
      /\ Len(todo[t]) \in Nat
    BY NextStore
<1>2. /\ link'[s.f][s.n] = s.v
      /\ \A f \in Field : \A x \in Ptr : f # s.f \/ x # s.n => link'[f][x] = link[f][x]
      /\ \A u \in Thread \ {t} : pc'[u] = pc[u] /\ op'[u] = op[u] /\ reg'[u] = reg[u] /\ held'[u] = held[u]
      /\ \/ Len(todo[t]) > 1 /\ pc'[t] = pc[t] /\ op'[t] = op[t] /\ reg'[t] = reg[t] /\ held'[t] = held[t]
         \/ Len(todo[t]) = 1 /\ pc'[t] = "idle"
    BY StoreEffect
<1>3. \A u \in Thread : /\ reg[u].parent \in Ptr /\ CutSide(reg[u]) \in Field
                        /\ CutSide(reg[u]) \in TreeField
                        /\ Removing(u) => marked[reg[u].node]
                        /\ Cutting(u) => reg[u].parent \in held[u]
    <2> TAKE u \in Thread
    <2>1. reg[u].parent \in Ptr /\ CutSide(reg[u]) \in Field /\ CutSide(reg[u]) \in TreeField
        BY KnownHere DEF Locals, CutSide, Field, TreeField
    <2> QED
        BY <2>1 DEF LinkInv, ThreadKept, CutKept
<1>4. \A u \in Thread \ {t} : held[u] \cap held[t] = {}
    BY DEF Good, LockInv, LocksHeld
<1> HIDE DEF s
<1>5. ASSUME NEW u \in Thread, u # t PROVE Cutting(u)' <=> Cutting(u)
    <2> DEFINE f == CutSide(reg[u])
               p == reg[u].parent
    <2>1. f \in Field /\ p \in Ptr /\ f \in TreeField
        BY <1>3
    <2>2. reg'[u] = reg[u] /\ pc'[u] = pc[u] /\ op'[u] = op[u]
        BY <1>2, <1>5
    <2>3. /\ Cutting(u) <=> Removing(u) /\ link[f][p] = reg[u].node
          /\ Cutting(u)' <=> Removing(u) /\ link'[f][p] = reg[u].node
        BY <2>2 DEF Cutting, Removing
    <2> HIDE DEF f, p
    <2>4. CASE f # s.f \/ p # s.n
        BY <1>2, <2>1, <2>3, <2>4
    <2>5. CASE f = s.f /\ p = s.n
        <3>1. ~Cutting(u)
            BY <1>1, <1>3, <1>4, <1>5, <2>1, <2>5 DEF p
        <3>2. ~Cutting(u)'
            BY <1>1, <1>2, <1>3, <2>3, <2>5
        <3> QED
            BY <3>1, <3>2
    <2> QED
        BY <2>4, <2>5
<1>6. Cutting(t)' <=> Cutting(t) /\ ~Cuts(t)
    <2> DEFINE f == CutSide(reg[t])
               p == reg[t].parent
    <2>1. f \in Field /\ p \in Ptr
        BY <1>3
    <2>2. Cutting(t) => Len(todo[t]) > 1
        BY CuttingNext
    <2>3. Len(todo[t]) = 1 => ~Cutting(t)'
        BY <1>2 DEF Cutting, Removing
    <2>4. CASE Len(todo[t]) > 1
        <3>4. Len(todo[t]) # 1
            BY <1>1, <2>4, MoreThanOne
        <3>3. pc'[t] = pc[t] /\ op'[t] = op[t] /\ reg'[t] = reg[t]
            BY <1>2, <3>4
        <3>1. /\ Cutting(t) <=> Removing(t) /\ link[f][p] = reg[t].node
              /\ Cutting(t)' <=> Removing(t) /\ link'[f][p] = reg[t].node
            BY <3>3 DEF Cutting, Removing
        <3>2. Cuts(t) <=> Cutting(t) /\ s.f = f /\ s.n = p
            BY DEF Cuts, s
        <3> HIDE DEF f, p
        <3> QED
            BY <1>1, <1>2, <1>3, <2>1, <3>1, <3>2
    <2> QED
        BY <1>1, <1>2, <2>2, <2>3, <2>4
<1>7. \A u \in Thread : Removing(u)' =>
          Removing(u) /\ reg'[u] = reg[u] /\ op'[u] = op[u] /\ held'[u] = held[u]
    <2> TAKE u \in Thread
    <2>1. CASE u = t
        BY <1>2, <2>1 DEF Removing
    <2>2. CASE u # t
        BY <1>2, <2>2 DEF Removing
    <2> QED
        BY <2>1, <2>2
<1>8. \A u \in Thread : Cutting(u)' => Removing(u)'
    BY DEF Cutting
<1> QED
    BY <1>5, <1>6, <1>7, <1>8

\* Who is adding after a store, and what.
LEMMA StoreAdding ==
    ASSUME NEW g, Good(g), NEW t \in Thread, DoStore(t)
    PROVE  \A u \in Thread : /\ Adding(u)' <=> Adding(u) /\ ~(u = t /\ Len(todo[t]) = 1)
                             /\ Adding(u)' => New(u)' = New(u) /\ op'[u] = op[u]
<1>1. \A u \in Thread : Adding(u)' => Adding(u) /\ New(u)' = New(u)
    BY AddingLater
<1>2. /\ \A u \in Thread \ {t} : pc'[u] = pc[u] /\ op'[u] = op[u]
      /\ \/ Len(todo[t]) > 1 /\ pc'[t] = pc[t] /\ op'[t] = op[t]
         \/ Len(todo[t]) = 1 /\ pc'[t] = "idle"
      /\ Len(todo[t]) \in Nat
    BY StoreEffect, NextStore
<1>3. /\ \A u \in Thread \ {t} : Adding(u)' <=> Adding(u)
      /\ Len(todo[t]) = 1 => ~Adding(t)'
      /\ Len(todo[t]) # 1 => (Adding(t)' <=> Adding(t)) /\ op'[t] = op[t]
    BY <1>2, MoreThanOne DEF Adding
<1> QED
    BY <1>1, <1>2, <1>3

\* Two adds do not publish one node, and two removes do not remove one.
LEMMA OneEach ==
    ASSUME NEW g, Good(g), LinkInv, NEW t \in Thread, NEW u \in Thread, t # u
    PROVE  /\ Adding(t) /\ Adding(u) => New(t) # New(u)
           /\ Cutting(t) /\ Cutting(u) => reg[t].node # reg[u].node
<1>1. held[t] \cap held[u] = {}
    BY DEF Good, LockInv, LocksHeld
<1>2. /\ Adding(t) => g.parent[New(t)] \in held[t]
      /\ Adding(u) => g.parent[New(u)] \in held[u]
    BY NewNode
<1>3. /\ Cutting(t) => reg[t].node \in held[t]
      /\ Cutting(u) => reg[u].node \in held[u]
    BY DEF LinkInv, ThreadKept, CutKept
<1> QED
    BY <1>1, <1>2, <1>3

\* The last store of an add links its node, one store of a remove unlinks its node.
LEMMA StoreLinked ==
    ASSUME NEW g, Good(g), LinkInv, NEW t \in Thread, DoStore(t)
    PROVE  /\ Adding(t) /\ Len(todo[t]) = 1 =>
                Linked' = Linked \cup {New(t)} /\ New(t) \in Live \ Linked
           /\ Cuts(t) => Linked' = Linked \ {reg[t].node} /\ reg[t].node \in Linked
           /\ ~(Adding(t) /\ Len(todo[t]) = 1) /\ ~Cuts(t) => Linked' = Linked
           /\ Linked' \subseteq Linked \cup Live
<1>1. marked' = marked /\ alloc' = alloc /\ Live' = Live
    BY StoreEffect
<1>2. \A u \in Thread : /\ Adding(u)' <=> Adding(u) /\ ~(u = t /\ Len(todo[t]) = 1)
                        /\ Adding(u)' => New(u)' = New(u)
    BY StoreAdding
<1>3. \A u \in Thread : /\ Cutting(u)' <=> Cutting(u) /\ ~(u = t /\ Cuts(t))
                        /\ Cutting(u)' => reg'[u] = reg[u]
    BY StoreCutting
<1>4. \A u \in Thread : Adding(u) => New(u) \in Live /\ ~marked[New(u)] /\ New(u) \in alloc
    BY NewNode DEF Live
<1>5. Cuts(t) => Cutting(t) /\ ~Adding(t)
    BY DEF Cuts, Cutting, Removing, Adding
<1>6. Cutting(t) => reg[t].node \in alloc /\ marked[reg[t].node]
    BY DEF LinkInv, ThreadKept, Cutting
<1>7. /\ \A u \in Thread : Cutting(u)' => \E v \in Thread : Cutting(v) /\ reg[v].node = reg'[u].node
      /\ \A v \in Thread : Cutting(v) => (Cutting(v)' /\ reg'[v].node = reg[v].node) \/ (v = t /\ Cuts(t))
    BY <1>3
<1>8. CASE Adding(t) /\ Len(todo[t]) = 1
    <2>1. ~Cuts(t)
        BY <1>5, <1>8
    <2>2. \A u \in Thread : Adding(u) /\ u # t => New(u) # New(t)
        BY <1>8, OneEach
    <2>3. \A n : n \in Linked' <=> n \in Linked \/ n = New(t)
        BY <1>1, <1>2, <1>3, <1>4, <1>8, <2>1, <2>2, LinkedParts, LinkedPartsAfter
    <2>4. New(t) \notin Linked
        BY <1>8, LinkedParts
    <2> QED
        BY <1>4, <1>8, <2>1, <2>3, <2>4
<1>9. CASE Cuts(t)
    <2>1. \A u \in Thread : Cutting(u) /\ u # t => reg[u].node # reg[t].node
        BY <1>5, <1>9, OneEach
    <2>2. \A u \in Thread : Adding(u)' <=> Adding(u)
        BY <1>2, <1>5, <1>9
    <2>3. \A n : n \in Linked' <=> n \in Linked /\ n # reg[t].node
        BY <1>1, <1>2, <1>3, <1>5, <1>6, <1>9, <2>1, <2>2, LinkedParts, LinkedPartsAfter
    <2>4. reg[t].node \in Linked
        BY <1>4, <1>5, <1>6, <1>9, LinkedParts
    <2> QED
        BY <1>5, <1>9, <2>3, <2>4
<1>10. CASE ~(Adding(t) /\ Len(todo[t]) = 1) /\ ~Cuts(t)
    <2>1. \A n : n \in Linked' <=> n \in Linked
        BY <1>1, <1>2, <1>3, <1>10, LinkedParts, LinkedPartsAfter
    <2> QED
        BY <1>10, <2>1
<1> QED
    BY <1>8, <1>9, <1>10

\* What the invariant says of the threads still holds.
LEMMA StoreThreads ==
    ASSUME NEW g, Good(g), LinkInv, NEW t \in Thread, DoStore(t), NEW u \in Thread
    PROVE  ThreadKept(u)'
<1> DEFINE s == Head(todo[t])
<1>1. /\ s.f \in Field /\ s.n \in Ptr /\ s.n \in Live /\ ~marked[s.n] /\ ~marked[s.v]
      /\ Final(g, s.f, s.n) = s.v /\ s \in PendingStores(t)
    BY NextStore
<1>2. /\ link'[s.f][s.n] = s.v
      /\ \A f \in Field : \A x \in Ptr : f # s.f \/ x # s.n => link'[f][x] = link[f][x]
      /\ marked' = marked /\ alloc' = alloc
      /\ PendingStores(u)' \subseteq PendingStores(u)
      /\ u # t => /\ todo'[u] = todo[u] /\ held'[u] = held[u] /\ reg'[u] = reg[u]
                  /\ PendingStores(u)' = PendingStores(u)
      /\ u = t => held'[u] = held[u] \/ PendingStores(u)' = {}
    BY StoreEffect DEF PendingStores
<1> HIDE DEF s
<1>3. ThreadKept(u) /\ reg[u].node \in Ptr
    BY KnownHere DEF LinkInv, Locals
<1>4. Removing(u)' => /\ reg'[u].node \in alloc' /\ marked'[reg'[u].node]
                      /\ value[reg'[u].node] = op'[u].key
    BY <1>2, <1>3, StoreCutting DEF ThreadKept
<1>5. Cutting(u)' => CutKept(u)'
    <2> SUFFICES ASSUME Cutting(u)' PROVE CutKept(u)'
        OBVIOUS
    <2>1. Cutting(u) /\ ~(u = t /\ Cuts(t)) /\ reg'[u] = reg[u] /\ held'[u] = held[u]
        BY StoreCutting
    <2>2. CutKept(u) /\ marked[reg[u].node]
        BY <1>3, <2>1 DEF ThreadKept, Cutting
    <2>3. \A f \in Field : link'[f][reg[u].node] = link[f][reg[u].node]
        BY <1>1, <1>2, <1>3, <2>2
    <2>4. \A e \in Side : link'[e][reg[u].node] = link[e][reg[u].node]
        BY <2>3 DEF Side, Field
    <2>5. SpliceFirst(u)'
        <3>1. CASE u = t
            BY <2>1, <3>1, CuttingNext
        <3>2. CASE u # t
            BY <1>2, <2>2, <3>2 DEF CutKept, SpliceFirst
        <3> QED
            BY <3>1, <3>2
    <2>6. link'["parent"][reg[u].node] = link["parent"][reg[u].node]
        BY <2>3 DEF Field
    <2> QED
        BY <2>1, <2>2, <2>4, <2>5, <2>6 DEF CutKept
<1>6. OldKids(u)'
    <2> SUFFICES ASSUME NEW w \in PendingStores(u)', w.f \in Side
                 PROVE  link'[w.f][w.n] \in held'[u] \cup {NULL, w.v}
        BY DEF OldKids
    <2>1. w \in PendingStores(u) /\ held'[u] = held[u]
        BY <1>2
    <2>2. w.f \in Field /\ w.n \in Ptr /\ Final(g, w.f, w.n) = w.v
        BY <2>1, Pending DEF Store
    <2>3. link[w.f][w.n] \in held[u] \cup {NULL, w.v}
        BY <1>3, <2>1 DEF ThreadKept, OldKids
    <2> QED
        BY <1>1, <1>2, <2>1, <2>2, <2>3
<1>7. Adding(u)' => /\ value[New(u)'] = op'[u].key
                    /\ \A e \in Side : link'[e][New(u)'] = NULL
    <2> SUFFICES ASSUME Adding(u)'
                 PROVE  /\ value[New(u)'] = op'[u].key
                        /\ \A e \in Side : link'[e][New(u)'] = NULL
        OBVIOUS
    <2>1. Adding(u) /\ New(u)' = New(u) /\ op'[u] = op[u]
        BY StoreAdding
    <2>2. /\ value[New(u)] = op[u].key /\ \A e \in Side : link[e][New(u)] = NULL
        BY <1>3, <2>1 DEF ThreadKept
    <2>5. New(u) \in Live /\ \A e \in Side : g.child[e][New(u)] = NULL
        BY <2>1, NewNode
    <2>3. New(u) \in Ptr /\ \A e \in Side : g.child[e][New(u)] = NULL
        BY <2>5, LiveFacts
    <2>4. \A e \in Side : Final(g, e, New(u)) = NULL /\ e \in Field
        BY <2>3, Fields
    <2> QED
        BY <1>1, <1>2, <2>1, <2>2, <2>3, <2>4
<1> QED
    BY <1>4, <1>5, <1>6, <1>7 DEF ThreadKept

\* Linked nodes still lead to live ones.
LEMMA StoreKids ==
    ASSUME NEW g, Good(g), LinkInv, NEW t \in Thread, DoStore(t)
    PROVE  KidsLinked'
<1> DEFINE s == Head(todo[t])
<1>1. /\ s.f \in Field /\ s.n \in Ptr /\ s.n \in Live /\ Final(g, s.f, s.n) = s.v
    BY NextStore
<1>2. /\ link'[s.f][s.n] = s.v /\ Live' = Live
      /\ \A f \in Field : \A x \in Ptr : f # s.f \/ x # s.n => link'[f][x] = link[f][x]
    BY StoreEffect
<1> SUFFICES ASSUME NEW x \in Linked', NEW e \in Side, NEW c, c = link'[e][x], c # NULL
             PROVE  \/ c \in Live'
                    \/ \E u \in Thread : /\ Cutting(u)' /\ reg'[u].node = c
                                         /\ x = reg'[u].parent /\ e = CutSide(reg'[u])
    BY DEF KidsLinked
<1>3. x \in Ptr /\ e \in Field /\ (x \in Linked \/ (Adding(t) /\ x = New(t)))
    BY StoreLinked, LiveFacts, Fields DEF Linked
<1>4. CASE e = s.f /\ x = s.n
    <2>1. c = g.child[e][x]
        BY <1>1, <1>2, <1>4, Fields
    <2> QED
        BY <1>1, <1>2, <1>4, <2>1, LiveFacts
<1>5. CASE ~(e = s.f /\ x = s.n)
    <2>1. c = link[e][x]
        BY <1>2, <1>3, <1>5
    <2>2. x \in Linked
        <3>1. CASE Adding(t) /\ x = New(t)
            BY <2>1, <3>1 DEF LinkInv, ThreadKept
        <3> QED
            BY <1>3, <3>1
    <2>3. CASE c \in Live
        BY <1>2, <2>3
    <2>4. ASSUME NEW u \in Thread, Cutting(u), reg[u].node = c, x = reg[u].parent, e = CutSide(reg[u])
          PROVE  Cutting(u)' /\ reg'[u] = reg[u]
        <3>1. ~(u = t /\ Cuts(t))
            BY <1>5, <2>4 DEF Cuts
        <3> QED
            BY <2>4, <3>1, StoreCutting
    <2> QED
        BY <2>1, <2>2, <2>3, <2>4 DEF LinkInv, KidsLinked
<1> QED
    BY <1>4, <1>5

\* A stored snapshot passes over nothing: the remove of a node between would have
\* that store to make itself, and has tree pointers to store first.
LEMMA StoreSnapshots ==
    ASSUME NEW g, Good(g), LinkInv, NEW t \in Thread, DoStore(t)
    PROVE  SnapshotsNear'
<1> DEFINE s == Head(todo[t])
<1>1. /\ s.f \in Field /\ s.n \in Ptr /\ s.n \in Live /\ Final(g, s.f, s.n) = s.v
      /\ s \in PendingStores(t)
    BY NextStore
<1>2. /\ link'[s.f][s.n] = s.v /\ Live' = Live
      /\ \A f \in Field : \A x \in Ptr : f # s.f \/ x # s.n => link'[f][x] = link[f][x]
      /\ \A u \in Thread : \A w \in PendingStores(u) : w \in PendingStores(u)' \/ (u = t /\ w = s)
      /\ Len(todo[t]) = 1 => PendingStores(t)' = {}
    BY StoreEffect, NextStore, MoreThanOne
<1> SUFFICES ASSUME NEW x \in Linked' \cup Live', NEW m \in Linked' \cup Live', NEW e \in Side,
                    Overtakes(x, e, m)'
             PROVE  \E u \in Thread : /\ Adding(u)' /\ m = New(u)'
                       /\ \E w \in PendingStores(u)' : w.f = SnapshotField(e) /\ w.n = x
    BY DEF SnapshotsNear
<1>3. /\ x \in Linked \cup Live /\ m \in Linked \cup Live /\ x \in Ptr
      /\ SnapshotField(e) \in Field /\ SnapshotField(e) \notin TreeField
    BY <1>2, StoreLinked, LiveFacts, Fields DEF Linked
<1>4. CASE SnapshotField(e) = s.f /\ x = s.n
    <2>1. link'[SnapshotField(e)][x] = g.near[e][x]
        BY <1>1, <1>2, <1>4, Fields
    <2>2. Beside(e, g.near[e][x], m) /\ Beside(e, m, x)
        BY <2>1 DEF Overtakes, Beside
    <2>3. x \in Live \ {End(e)}
        <3>1. GapsOwned(g)
            BY DEF Good, HeapInv
        <3> HIDE DEF s
        <3> QED
            BY <1>1, <1>4, <3>1 DEF GapsOwned
    <2>4. PICK u \in Thread : \E w \in PendingStores(u) : Cutting(u) /\ w.f = SnapshotField(e) /\ w.n = x
        BY <1>3, <2>2, <2>3, NoneBetween
    <2>5. u = t
        BY <1>1, <1>4, <2>4 DEF Good, HeapInv, NoStoreRace
    <2>6. s.f \in TreeField
        BY <2>4, <2>5, CuttingNext
    <2> QED
        BY <1>3, <1>4, <2>6
<1>5. CASE ~(SnapshotField(e) = s.f /\ x = s.n)
    <2>1. Overtakes(x, e, m)
        BY <1>2, <1>3, <1>5 DEF Overtakes, Beside
    <2>2. PICK u, w : /\ u \in Thread /\ w \in PendingStores(u) /\ Adding(u) /\ m = New(u)
                      /\ w.f = SnapshotField(e) /\ w.n = x
        BY <1>3, <2>1 DEF LinkInv, SnapshotsNear
    <2>3. w \in PendingStores(u)'
        BY <1>2, <1>5, <2>2
    <2>4. ~(u = t /\ Len(todo[t]) = 1)
        BY <1>2, <2>3
    <2>5. Adding(u)' /\ New(u)' = New(u)
        BY <2>2, <2>4, StoreAdding
    <2> QED
        BY <2>2, <2>3, <2>5
<1> QED
    BY <1>4, <1>5

\* A store keeps the linked nodes in order.
LEMMA StoreLinks ==
    ASSUME NEW g, Good(g), LinkInv, NEW t \in Thread, DoStore(t)
    PROVE  LinkInv'
    BY StoreThreads, StoreKids, StoreSnapshots DEF LinkInv

-----------------------------------------------------------------------------
(* What a remove has to store when it marks its node *)

\* The first stores of a list of two parts are those of its first part.
LEMMA FrontOf ==
    ASSUME NEW T, NEW s1 \in Seq(T), NEW s2 \in Seq(T), NEW i \in 1 .. Len(s1)
    PROVE  i \in DOMAIN (s1 \o s2) /\ (s1 \o s2)[i] = s1[i] /\ 1 .. i \subseteq 1 .. Len(s1)
    OBVIOUS

\* The stores splice the node out, the one that takes it from its parent comes
\* before those of snapshots, and what they overwrite of children is locked.
CutReady(t, stores) ==
    LET r == reg[t] IN
    /\ [f |-> "rightSnapshot", n |-> r.rightNode, v |-> r.leftNode] \in Elements(stores)
    /\ [f |-> "leftSnapshot", n |-> r.leftNode, v |-> r.rightNode] \in Elements(stores)
    /\ \E i \in DOMAIN stores :
          /\ stores[i].f = CutSide(r) /\ stores[i].n = r.parent
          /\ \A j \in 1 .. i : stores[j].f \in TreeField
    /\ \A w \in Elements(stores) : w.f \in Side => link[w.f][w.n] \in held[t] \cup {NULL, w.v}
    /\ \A e \in Side : link[e][r.node] \in held[t] \cup {NULL}

\* What was read around the node to be marked.
LEMMA MarkReads ==
    ASSUME NEW g, Good(g), NEW t \in Thread, pc[t] \in MarkPlaces, NEW r, r = reg[t]
    PROVE  /\ link[CutSide(r)][r.parent] = r.node /\ link["parent"][r.node] = r.parent
           /\ link["left"][r.node] = r.left /\ link["right"][r.node] = r.right
           /\ r.node \in held[t] /\ r.parent \in held[t] /\ r.node \in Live /\ r.node # NULL
           /\ value[r.node] = op[t].key /\ todo[t] = << >> /\ pc[t] \in NodePlaces
           /\ Beside("left", r.rightNode, r.node) /\ Beside("right", r.leftNode, r.node)
           /\ CutSide(r) \in Side /\ g.child[CutSide(r)][r.parent] = r.node /\ r.parent \in Live
           /\ r \in Locals
<1>1. pc[t] \in NodePlaces /\ pc[t] # "idle"
    BY DEF MarkPlaces, NodePlaces, OnePlaces, TwoPlaces, PredPlaces, DeepPlaces,
           SuccParentPlaces, SuccPlaces
<1>2. FreshWhenMarking
    BY FreshReads
<1>3. /\ link[CutSide(r)][r.parent] = r.node /\ link["parent"][r.node] = r.parent
      /\ link["left"][r.node] = r.left /\ link["right"][r.node] = r.right
    BY <1>2 DEF FreshWhenMarking, MarkPlaces, CutSide, Parent, Left, Right
<1>4. /\ Base(g, op[t], r) /\ r.node \in held[t] /\ r.parent \in held[t] /\ r.node \in Live
      /\ r.node # NULL /\ todo[t] = << >> /\ Shape(g, Live) /\ r \in Locals
    BY <1>1, NodeHeld
<1>5. value[r.node] = op[t].key /\ r.parent \in Live
    BY <1>4, BaseFacts DEF Base
<1>6. /\ g.near["left"][r.node] = r.rightNode /\ g.near["right"][r.node] = r.leftNode
      /\ r.node # End("left") /\ r.node # End("right")
    BY MarkNeighbours DEF Neighbour, Owns
<1>7. Beside("left", r.rightNode, r.node) /\ Beside("right", r.leftNode, r.node)
    BY <1>4, <1>6, NeighbourOf DEF Side
<1>8. CutSide(r) \in Side /\ g.child[CutSide(r)][r.parent] = r.node
    BY <1>1, HangsOn DEF CutSide
<1> QED
    BY <1>1, <1>3, <1>4, <1>5, <1>7, <1>8

\* Of a leaf that is to be removed the parent is one neighbour.
LEMMA LeafParent ==
    ASSUME NEW g, Good(g), NEW t \in Thread, UnlinkLeaf(t), NEW r, r = reg[t]
    PROVE  /\ r.left = NULL /\ r.right = NULL
           /\ \/ CutSide(r) = "left" /\ r.leftChild /\ r.parent = r.leftNode
              \/ CutSide(r) = "right" /\ ~r.leftChild /\ r.parent = r.rightNode
<1>1. pc[t] = "unlinkLeaf" /\ pc[t] \in NodePlaces /\ pc[t] \in MarkPlaces
    BY DEF UnlinkLeaf, Mark, NodePlaces, MarkPlaces
<1>2. /\ Knows(g, "unlinkLeaf", op[t], r, held[t]) /\ Shape(g, Live) /\ r.node \in Live
      /\ r.parent \in Live /\ r.node # NULL
    BY <1>1, NodeHeld, BaseFacts
<1>3. Base(g, op[t], r) /\ r.left = NULL /\ r.right = NULL /\ EndsKnown(g, r, held[t])
    BY <1>2, Places
<1>4. /\ g.child["left"][r.node] = NULL /\ g.child["right"][r.node] = NULL
      /\ g.near["left"][r.node] = r.rightNode /\ g.near["right"][r.node] = r.leftNode
    BY <1>3 DEF Base, EndsKnown, Neighbour
<1>5. CutSide(r) \in Side /\ g.child[CutSide(r)][r.parent] = r.node
    BY <1>1, HangsOn DEF CutSide
<1>6. g.bound[Opp(CutSide(r))][r.node] = r.parent
    BY <1>2, <1>5, ChildOf
<1>7. g.near["left"][r.node] = g.bound["left"][r.node] /\ g.near["right"][r.node] = g.bound["right"][r.node]
    BY <1>2, <1>4 DEF Shape, Gapped, Side
<1> QED
    BY <1>3, <1>4, <1>5, <1>6, <1>7 DEF CutSide, Opp

\* A remove is ready if its stores are those of two lists of which the first has
\* tree pointers only, the last of them that of the parent.
LEMMA ReadyOfParts ==
    ASSUME NEW t \in Thread, NEW r, r = reg[t], NEW T, NEW s1 \in Seq(T), NEW s2 \in Seq(T), NEW i \in 1 .. Len(s1),
           s1[i].f = CutSide(r), s1[i].n = r.parent,
           \A j \in 1 .. i : s1[j].f \in TreeField,
           NEW y, y = [f |-> "rightSnapshot", n |-> r.rightNode, v |-> r.leftNode],
           NEW z, z = [f |-> "leftSnapshot", n |-> r.leftNode, v |-> r.rightNode],
           y \in Elements(s2), z \in Elements(s2),
           \A w \in Elements(s1) \cup Elements(s2) :
               w.f \in Side => link[w.f][w.n] \in held[t] \cup {NULL, w.v},
           \A e \in Side : link[e][r.node] \in held[t] \cup {NULL}
    PROVE  CutReady(t, s1 \o s2)
<1>1. Elements(s1 \o s2) = Elements(s1) \cup Elements(s2)
    BY ElementsOfBoth
<1>2. i \in DOMAIN (s1 \o s2) /\ (s1 \o s2)[i] = s1[i] /\ 1 .. i \subseteq 1 .. Len(s1)
    BY FrontOf
<1>3. \A j \in 1 .. i : (s1 \o s2)[j] = s1[j]
    BY <1>2, FrontOf
<1> QED
    BY <1>1, <1>2, <1>3 DEF CutReady

\* The removal of a leaf (main.cpp:266-278).
LEMMA LeafReady ==
    ASSUME NEW g, Good(g), NEW t \in Thread, UnlinkLeaf(t)
    PROVE  CutReady(t, LeafStores(reg[t]))
<1>1. PICK r, p, x, y, z :
         /\ r = reg[t] /\ p = CutSide(r)
         /\ x = [f |-> p, n |-> r.parent, v |-> NULL]
         /\ y = [f |-> "rightSnapshot", n |-> r.rightNode, v |-> r.leftNode]
         /\ z = [f |-> "leftSnapshot", n |-> r.leftNode, v |-> r.rightNode]
    OBVIOUS
<1>2. pc[t] \in MarkPlaces
    BY DEF UnlinkLeaf, Mark, MarkPlaces
<1>3. /\ link[p][r.parent] = r.node /\ r.node \in held[t] /\ p \in Side
      /\ link["left"][r.node] = r.left /\ link["right"][r.node] = r.right
    BY <1>1, <1>2, MarkReads
<1>4. /\ r.left = NULL /\ r.right = NULL
      /\ \/ p = "left" /\ r.leftChild /\ r.parent = r.leftNode
         \/ p = "right" /\ ~r.leftChild /\ r.parent = r.rightNode
    BY <1>1, LeafParent
<1>5. PICK s1, s2, i, T : /\ s1 = <<x>> /\ (s2 = <<y, z>> \/ s2 = <<z, y>>)
                          /\ LeafStores(r) = s1 \o s2 /\ i = 1 /\ T = {x, y, z}
    BY <1>1, <1>4 DEF LeafStores, Replace, CutSide
<1>6. Elements(s1) = {x} /\ Elements(s2) = {y, z}
    BY <1>5, ElementsOf
<1>7. s1 \in Seq(T) /\ s2 \in Seq(T) /\ i \in 1 .. Len(s1) /\ s1[i] = x /\ \A j \in 1 .. i : s1[j] = x
    BY <1>5
<1>8. /\ x.f = p /\ x.n = r.parent /\ x.f \in TreeField
      /\ y.f \notin Side /\ z.f \notin Side
    BY <1>1, <1>3 DEF Side, TreeField
<1>9. \A w \in Elements(s1) \cup Elements(s2) :
         w.f \in Side => link[w.f][w.n] \in held[t] \cup {NULL, w.v}
    BY <1>3, <1>6, <1>8
<1>10. \A e \in Side : link[e][r.node] \in held[t] \cup {NULL}
    BY <1>3, <1>4 DEF Side
<1>11. /\ s1[i].f = CutSide(r) /\ s1[i].n = r.parent /\ \A j \in 1 .. i : s1[j].f \in TreeField
       /\ y \in Elements(s2) /\ z \in Elements(s2)
    BY <1>1, <1>6, <1>7, <1>8
<1>12. CutReady(t, s1 \o s2)
    BY <1>1, <1>7, <1>9, <1>10, <1>11, ReadyOfParts
<1> QED
    BY <1>1, <1>5, <1>12

\* The removal of a node with one child (main.cpp:307-320).
LEMMA OneChildReady ==
    ASSUME NEW g, Good(g), NEW t \in Thread, UnlinkOneChild(t)
    PROVE  CutReady(t, OneChildStores(reg[t]))
<1>1. PICK r, p, c, w, x, y, z :
         /\ r = reg[t] /\ p = CutSide(r) /\ c = OnlyChild(r)
         /\ w = [f |-> p, n |-> r.parent, v |-> c]
         /\ x = [f |-> "parent", n |-> c, v |-> r.parent]
         /\ y = [f |-> "rightSnapshot", n |-> r.rightNode, v |-> r.leftNode]
         /\ z = [f |-> "leftSnapshot", n |-> r.leftNode, v |-> r.rightNode]
    OBVIOUS
<1>2. pc[t] \in MarkPlaces /\ pc[t] = "unlinkOneChild" /\ pc[t] \in NodePlaces
    BY DEF UnlinkOneChild, Mark, MarkPlaces, NodePlaces, OnePlaces
<1>3. /\ link[p][r.parent] = r.node /\ r.node \in held[t] /\ p \in Side
      /\ link["left"][r.node] = r.left /\ link["right"][r.node] = r.right
    BY <1>1, <1>2, MarkReads
<1>4. c \in held[t] /\ (r.left = NULL \/ r.right = NULL)
    <2>1. Knows(g, "unlinkOneChild", op[t], r, held[t])
        BY <1>1, <1>2, NodeHeld
    <2>2. (r.left = NULL) # (r.right = NULL)
        BY <2>1, Places
    <2>3. c \in held[t]
        BY <1>1, <1>2, KnownHere, LockedPair
    <2> QED
        BY <2>2, <2>3
<1>5. PICK s1, s2, i, T : /\ s1 = <<w, x>> /\ s2 = <<y, z>>
                          /\ OneChildStores(r) = s1 \o s2 /\ i = 1 /\ T = {w, x, y, z}
    BY <1>1 DEF OneChildStores, Replace, CutSide, Splice
<1>6. Elements(s1) = {w, x} /\ Elements(s2) = {y, z}
    BY <1>5, ElementsOf
<1>7. s1 \in Seq(T) /\ s2 \in Seq(T) /\ i \in 1 .. Len(s1) /\ s1[i] = w /\ \A j \in 1 .. i : s1[j] = w
    BY <1>5
<1>8. /\ w.f = p /\ w.n = r.parent /\ w.f \in TreeField
      /\ x.f \notin Side /\ y.f \notin Side /\ z.f \notin Side
    BY <1>1, <1>3 DEF Side, TreeField
<1>9. \A v \in Elements(s1) \cup Elements(s2) :
         v.f \in Side => link[v.f][v.n] \in held[t] \cup {NULL, v.v}
    BY <1>3, <1>6, <1>8
<1>10. \A e \in Side : link[e][r.node] \in held[t] \cup {NULL}
    BY <1>1, <1>3, <1>4 DEF Side, OnlyChild
<1>11. /\ s1[i].f = CutSide(r) /\ s1[i].n = r.parent /\ \A j \in 1 .. i : s1[j].f \in TreeField
       /\ y \in Elements(s2) /\ z \in Elements(s2)
    BY <1>1, <1>6, <1>7, <1>8
<1>12. CutReady(t, s1 \o s2)
    BY <1>1, <1>7, <1>9, <1>10, <1>11, ReadyOfParts
<1> QED
    BY <1>1, <1>5, <1>12

\* A child pointer of a node that t has locked, and that has no child there.
LEMMA NoChildThere ==
    ASSUME NEW g, Good(g), NEW t \in Thread, todo[t] = << >>, NEW x \in Live, x \in held[t],
           NEW e \in Side, g.child[e][x] = NULL
    PROVE  link[e][x] = NULL
    BY TreeAgrees, HeldFree

\* The removal of a node with two children whose right child takes its place (main.cpp:344-355).
LEMMA PromoteReady ==
    ASSUME NEW g, Good(g), NEW t \in Thread, PromoteRight(t)
    PROVE  CutReady(t, PromoteRightStores(reg[t]))
<1>1. PICK r, p, u, v, w, x, y, z :
         /\ r = reg[t] /\ p = CutSide(r)
         /\ u = [f |-> "left", n |-> r.right, v |-> r.left] /\ v = [f |-> "parent", n |-> r.left, v |-> r.right]
         /\ w = [f |-> "parent", n |-> r.right, v |-> r.parent] /\ x = [f |-> p, n |-> r.parent, v |-> r.right]
         /\ y = [f |-> "rightSnapshot", n |-> r.rightNode, v |-> r.leftNode]
         /\ z = [f |-> "leftSnapshot", n |-> r.leftNode, v |-> r.rightNode]
    OBVIOUS
<1>2. pc[t] \in MarkPlaces /\ pc[t] = "promoteRight" /\ pc[t] \in NodePlaces
    BY DEF PromoteRight, Mark, MarkPlaces, NodePlaces, TwoPlaces, PredPlaces
<1>3. /\ link[p][r.parent] = r.node /\ r.node \in held[t] /\ p \in Side /\ todo[t] = << >>
      /\ link["left"][r.node] = r.left /\ link["right"][r.node] = r.right /\ r.node \in Live
    BY <1>1, <1>2, MarkReads
<1>4. r.left \in held[t] /\ r.right \in held[t]
    BY <1>1, <1>2, KnownHere, LockedTwo
<1>5. link["left"][r.right] = NULL
    <2>1. Knows(g, "promoteRight", op[t], r, held[t])
        BY <1>1, <1>2, NodeHeld
    <2>2. g.child["left"][r.right] = NULL /\ g.child["right"][r.node] = r.right /\ r.right # NULL
        BY <2>1, Places DEF Base, PredKnown
    <2>3. r.right \in Live
        BY <1>3, <2>2, LiveFacts DEF Side
    <2> QED
        BY <1>3, <1>4, <2>2, <2>3, NoChildThere DEF Side
<1>6. PICK s1, s2, i, T : /\ s1 = <<u, v, w, x>> /\ s2 = <<y, z>>
                          /\ PromoteRightStores(r) = s1 \o s2 /\ i = 4 /\ T = {u, v, w, x, y, z}
    BY <1>1 DEF PromoteRightStores, Replace, CutSide, Splice
<1>7. Elements(s1) = {u, v, w, x} /\ Elements(s2) = {y, z}
    BY <1>6, ElementsOf, ElementsOfFour
<1>8. /\ s1 \in Seq(T) /\ s2 \in Seq(T) /\ i \in 1 .. Len(s1) /\ s1[i] = x
      /\ \A j \in 1 .. i : s1[j] \in Elements(s1)
    BY <1>6 DEF Elements
<1>9. /\ x.f = p /\ x.n = r.parent /\ x.f \in TreeField /\ u.f \in TreeField
      /\ v.f \in TreeField /\ w.f \in TreeField
      /\ v.f \notin Side /\ w.f \notin Side /\ y.f \notin Side /\ z.f \notin Side
    BY <1>1, <1>3 DEF Side, TreeField
<1>10. \A d \in Elements(s1) \cup Elements(s2) :
          d.f \in Side => link[d.f][d.n] \in held[t] \cup {NULL, d.v}
    BY <1>1, <1>3, <1>5, <1>7, <1>9
<1>11. \A e \in Side : link[e][r.node] \in held[t] \cup {NULL}
    BY <1>3, <1>4 DEF Side
<1>12. /\ s1[i].f = CutSide(r) /\ s1[i].n = r.parent /\ \A j \in 1 .. i : s1[j].f \in TreeField
       /\ y \in Elements(s2) /\ z \in Elements(s2)
    BY <1>1, <1>7, <1>8, <1>9
<1>13. CutReady(t, s1 \o s2)
    BY <1>1, <1>8, <1>10, <1>11, <1>12, ReadyOfParts
<1> QED
    BY <1>1, <1>6, <1>13

\* The removal of a node that its successor replaces (main.cpp:420-434, 467-484).
LEMMA ApplyReady ==
    ASSUME NEW g, Good(g), NEW t \in Thread, ApplyRemove(t)
    PROVE  CutReady(t, ApplyRemoveStores(reg[t]))
<1>1. PICK r, p, s, b, x1, x2, x3, x4, x5, x6, x7, x8, x9, y, z1, z2 :
         /\ r = reg[t] /\ p = CutSide(r) /\ s = r.leftNode /\ b = r.succRightSnapshot
         /\ x1 = [f |-> "right", n |-> s, v |-> r.right] /\ x2 = [f |-> "parent", n |-> r.right, v |-> s]
         /\ x3 = [f |-> "left", n |-> s, v |-> r.left] /\ x4 = [f |-> "parent", n |-> r.left, v |-> s]
         /\ x5 = [f |-> "parent", n |-> s, v |-> r.parent] /\ x6 = [f |-> p, n |-> r.parent, v |-> s]
         /\ x7 = [f |-> "left", n |-> r.succParent, v |-> r.succRight]
         /\ x8 = [f |-> "rightSnapshot", n |-> s, v |-> b]
         /\ x9 = [f |-> "leftSnapshot", n |-> b, v |-> s]
         /\ y = [f |-> "parent", n |-> r.succRight, v |-> r.succParent]
         /\ z1 = [f |-> "leftSnapshot", n |-> s, v |-> r.rightNode]
         /\ z2 = [f |-> "rightSnapshot", n |-> r.rightNode, v |-> s]
    OBVIOUS
<1>2. pc[t] \in MarkPlaces /\ pc[t] = "applyRemove" /\ pc[t] \in NodePlaces
    BY DEF ApplyRemove, Mark, MarkPlaces, NodePlaces, TwoPlaces, PredPlaces, DeepPlaces,
           SuccParentPlaces, SuccPlaces
<1>3. /\ link[p][r.parent] = r.node /\ r.node \in held[t] /\ p \in Side /\ todo[t] = << >>
      /\ link["left"][r.node] = r.left /\ link["right"][r.node] = r.right /\ r.node \in Live
    BY <1>1, <1>2, MarkReads
<1>4. /\ r.left \in held[t] /\ r.right \in held[t] /\ s \in held[t]
      /\ r.succRight \in held[t] \cup {NULL}
    BY <1>1, <1>2, KnownHere, LockedTwo
<1>5. link["left"][s] = NULL /\ link["right"][s] = r.succRight /\ link["left"][r.succParent] = s
    BY <1>1, <1>2, FreshSuccessor DEF Left, Right
<1>6. PICK X, Y, Z, s2, i, T :
         /\ X = <<x1, x2, x3, x4, x5, x6, x7, x8, x9>>
         /\ Y = (IF r.succRight = NULL THEN << >> ELSE <<y>>) /\ Z = <<z1, z2>>
         /\ s2 = Y \o Z /\ i = 6
         /\ T = {x1, x2, x3, x4, x5, x6, x7, x8, x9, y, z1, z2}
    OBVIOUS
<1>7. X \in Seq(T) /\ Y \in Seq(T) /\ Z \in Seq(T)
    BY <1>6
<1>8. ApplyRemoveStores(r) = X \o s2 /\ s2 \in Seq(T)
    <2>1. ApplyRemoveStores(r) = (X \o Y) \o Z
        BY <1>1, <1>6 DEF ApplyRemoveStores, Replace, CutSide
    <2>2. (X \o Y) \o Z = X \o (Y \o Z) /\ Y \o Z \in Seq(T)
        BY <1>7
    <2> QED
        BY <1>6, <2>1, <2>2
<1>9. /\ Elements(X) = {x1, x2, x3, x4, x5, x6, x7, x8, x9}
      /\ Elements(s2) \subseteq {y, z1, z2} /\ z1 \in Elements(s2) /\ z2 \in Elements(s2)
    <2>1. Elements(X) = {x1, x2, x3, x4, x5, x6, x7, x8, x9}
        BY <1>6, ElementsOfNine
    <2>2. Elements(Y) \subseteq {y} /\ Elements(Z) = {z1, z2}
        BY <1>6, ElementsOf
    <2>3. Elements(Y \o Z) = Elements(Y) \cup Elements(Z)
        BY <1>7, ElementsOfBoth
    <2> QED
        BY <1>6, <2>1, <2>2, <2>3
<1>10. i \in 1 .. Len(X) /\ X[i] = x6 /\ \A j \in 1 .. i : X[j] \in {x1, x2, x3, x4, x5, x6}
    BY <1>6
<1>11. /\ x6.f = p /\ x6.n = r.parent
       /\ \A d \in {x1, x2, x3, x4, x5, x6} : d.f \in TreeField
       /\ \A d \in {x2, x4, x5, x8, x9, y, z1, z2} : d.f \notin Side
    BY <1>1, <1>3 DEF Side, TreeField
<1>12. \A d \in {x1, x3, x6, x7} : link[d.f][d.n] \in held[t] \cup {NULL, d.v}
    BY <1>1, <1>3, <1>4, <1>5
<1>13. \A d \in Elements(X) \cup Elements(s2) :
          d.f \in Side => link[d.f][d.n] \in held[t] \cup {NULL, d.v}
    BY <1>9, <1>11, <1>12
<1>14. \A e \in Side : link[e][r.node] \in held[t] \cup {NULL}
    BY <1>3, <1>4 DEF Side
<1>15. /\ X[i].f = CutSide(r) /\ X[i].n = r.parent /\ \A j \in 1 .. i : X[j].f \in TreeField
    BY <1>1, <1>10, <1>11
<1>16. /\ [f |-> "rightSnapshot", n |-> r.rightNode, v |-> r.leftNode] \in Elements(s2)
       /\ [f |-> "leftSnapshot", n |-> r.leftNode, v |-> r.rightNode] \in Elements(s2)
    BY <1>1, <1>9
<1>17. CutReady(t, X \o s2)
    BY <1>1, <1>7, <1>8, <1>10, <1>13, <1>14, <1>15, <1>16, ReadyOfParts
<1> QED
    BY <1>1, <1>8, <1>17

-----------------------------------------------------------------------------
(* A node is marked *)

\* What marking does to who is adding and cutting.
LEMMA MarkCutting ==
    ASSUME NEW g, Good(g), LinkInv, NEW t \in Thread, NEW l \in MarkPlaces, NEW stores,
           Mark(t, l, stores)
    PROVE  /\ \A u \in Thread : u # t => /\ Removing(u)' = Removing(u) /\ Adding(u)' = Adding(u)
                                         /\ Cutting(u)' = Cutting(u) /\ New(u)' = New(u)
                                         /\ PendingStores(u)' = PendingStores(u)
           /\ Removing(t)' /\ Cutting(t)' /\ ~Adding(t)'
           /\ ~Removing(t) /\ ~Cutting(t) /\ ~Adding(t) /\ PendingStores(t) = {}
           /\ PendingStores(t)' = Elements(stores)
<1>1. pc[t] = l /\ l \in NodePlaces
    BY DEF Mark, MarkPlaces, NodePlaces, OnePlaces, TwoPlaces, PredPlaces, DeepPlaces,
           SuccParentPlaces, SuccPlaces
<1>2. /\ link' = link /\ op' = op /\ reg' = reg /\ todo[t] = << >>
      /\ pc'[t] = "store" /\ op[t].type = "remove"
      /\ \A u \in Thread \ {t} : todo'[u] = todo[u] /\ pc'[u] = pc[u]
    BY <1>1, MarkEffect
<1>3. link[CutSide(reg[t])][reg[t].parent] = reg[t].node
    BY <1>1, MarkReads
<1>4. pc[t] # "store"
    BY <1>1 DEF MarkPlaces
<1>5. PendingStores(t)' = Elements(stores)
    BY <1>1, MarkPending
<1> QED
    BY <1>2, <1>3, <1>4, <1>5, NonePending DEF Removing, Adding, Cutting, New, PendingStores

\* The node is still linked.
LEMMA MarkLinked ==
    ASSUME NEW g, Good(g), LinkInv, NEW t \in Thread, NEW l \in MarkPlaces, NEW stores,
           Mark(t, l, stores)
    PROVE  /\ Linked' = Linked /\ reg[t].node \in Linked
           /\ Live' = Live \ {reg[t].node} /\ link' = link /\ alloc' = alloc /\ held' = held
           /\ op' = op /\ reg' = reg /\ \A x \in alloc : marked[x] => marked'[x]
           /\ marked'[reg[t].node] /\ \A u \in Thread \ {t} : todo'[u] = todo[u] /\ pc'[u] = pc[u]
<1> DEFINE n == reg[t].node
<1>1. pc[t] = l /\ l \in NodePlaces
    BY DEF Mark, MarkPlaces, NodePlaces, OnePlaces, TwoPlaces, PredPlaces, DeepPlaces,
           SuccParentPlaces, SuccPlaces
<1>2. /\ n \in Live /\ n # NULL /\ Live' = Live \ {n}
      /\ link' = link /\ alloc' = alloc /\ held' = held /\ op' = op /\ reg' = reg
      /\ \A x \in Ptr \ {n} : marked'[x] = marked[x]
      /\ \A u \in Thread \ {t} : todo'[u] = todo[u] /\ pc'[u] = pc[u]
    BY <1>1, MarkEffect
<1>3. n \in Shown /\ alloc \subseteq Node /\ ~marked[n] /\ n \in alloc
    BY <1>2, KnownHere, LiveFacts DEF LocalsShown
<1>4. marked'[n]
    BY <1>2, <1>3 DEF Live
<1>5. \A x : x \in Linked' <=> x \in Linked
    <2>1. \A u \in Thread : /\ Adding(u)' <=> Adding(u)
                            /\ Adding(u) => New(u)' = New(u) /\ New(u) # n
        BY <1>3, MarkCutting DEF Shown
    <2>2. \A x : (\E u \in Thread : Cutting(u)' /\ reg'[u].node = x) <=>
                 (x = n \/ \E u \in Thread : Cutting(u) /\ reg[u].node = x)
        BY <1>2, MarkCutting
    <2>3. \A x : x # n /\ x \in alloc => marked'[x] = marked[x]
        BY <1>2, <1>3
    <2> QED
        BY <1>2, <1>3, <1>4, <2>1, <2>2, <2>3, LinkedParts, LinkedPartsAfter
<1>6. n \in Linked
    BY <1>3, LinkedParts DEF Shown
<1> QED
    BY <1>2, <1>3, <1>4, <1>5, <1>6

\* What the invariant says of the threads.
LEMMA MarkThreads ==
    ASSUME NEW g, Good(g), LinkInv, NEW t \in Thread, NEW l \in MarkPlaces, NEW stores,
           Mark(t, l, stores), CutReady(t, stores), NEW u \in Thread
    PROVE  ThreadKept(u)'
<1> DEFINE r == reg[t]
<1>1. /\ link' = link /\ alloc' = alloc /\ held' = held /\ op' = op /\ reg' = reg
      /\ \A x \in alloc : marked[x] => marked'[x]
      /\ marked'[r.node] /\ \A v \in Thread \ {t} : todo'[v] = todo[v] /\ pc'[v] = pc[v]
    BY MarkLinked
<1>2. CASE u = t
    <2>1. /\ link["parent"][r.node] = r.parent /\ r.node \in held[t] /\ r.parent \in held[t]
          /\ r.node \in alloc /\ value[r.node] = op[t].key
          /\ Beside("left", r.rightNode, r.node) /\ Beside("right", r.leftNode, r.node)
        BY MarkReads DEF Mark, Live
    <2>2. /\ PendingStores(t)' = Elements(stores) /\ ~Adding(t)' /\ todo'[t] = stores
        <3>1. todo' = [todo EXCEPT ![t] = stores] /\ todo \in [Thread -> Seq(Store)]
            BY DEF Mark, Good, TypeOK
        <3> QED
            BY <3>1, MarkCutting
    <2>3. SpliceFirst(t)'
        BY <1>1, <2>2 DEF SpliceFirst, CutReady
    <2>4. CutKept(t)'
        BY <1>1, <2>1, <2>3 DEF CutKept, CutReady
    <2>5. OldKids(t)'
        BY <1>1, <2>2 DEF OldKids, CutReady
    <2> QED
        BY <1>1, <1>2, <2>1, <2>2, <2>4, <2>5 DEF ThreadKept
<1>3. CASE u # t
    <2>1. ThreadKept(u)
        BY DEF LinkInv
    <2>2. /\ Removing(u)' = Removing(u) /\ Adding(u)' = Adding(u) /\ Cutting(u)' = Cutting(u)
          /\ New(u)' = New(u) /\ PendingStores(u)' = PendingStores(u) /\ todo'[u] = todo[u]
        BY <1>1, <1>3, MarkCutting
    <2>3. CutKept(u)' = CutKept(u)
        BY <1>1, <2>2 DEF CutKept, SpliceFirst
    <2>4. OldKids(u)' = OldKids(u)
        BY <1>1, <2>2 DEF OldKids
    <2> QED
        BY <1>1, <2>1, <2>2, <2>3, <2>4 DEF ThreadKept
<1> QED
    BY <1>2, <1>3

\* Only the parent leads to the node: any other pointer that did would be one of
\* another thread, which would have locked the node.
LEMMA OnlyParentLeads ==
    ASSUME NEW g, Good(g), LinkInv, NEW t \in Thread, pc[t] \in MarkPlaces, NEW r, r = reg[t],
           NEW x \in Linked, NEW e \in Side, link[e][x] = r.node
    PROVE  x = r.parent /\ e = CutSide(r)
<1>1. /\ r.node \in held[t] /\ r.node \in Live /\ r.node # NULL /\ CutSide(r) \in Side
      /\ g.child[CutSide(r)][r.parent] = r.node /\ r.parent \in Live /\ todo[t] = << >>
    BY MarkReads
<1>2. \A u \in Thread \ {t} : r.node \notin held[u]
    BY <1>1 DEF Good, LockInv, LocksHeld
<1>3. \A u \in Thread : PendingStores(u) # {} \/ Cutting(u) => u # t
    BY <1>1, NonePending DEF Cutting, Removing, MarkPlaces
<1>4. Shape(g, Live) /\ (x \in Live \/ marked[x])
    BY LiveFacts DEF Linked, Live
<1>5. CASE x \in Live
    <2>1. e \in Field /\ Final(g, e, x) = g.child[e][x]
        BY Fields
    <2>2. CASE link[e][x] = g.child[e][x]
        BY <1>1, <1>4, <1>5, <2>2, OneChild
    <2>3. CASE link[e][x] # g.child[e][x]
        <3>1. PICK u, w : u \in Thread /\ w \in PendingStores(u) /\ w.f = e /\ w.n = x
            BY <1>5, <2>1, <2>3 DEF Good, HeapInv, Settles
        <3>2. w.v = g.child[e][x]
            BY <2>1, <3>1, Pending
        <3>3. link[e][x] \in held[u]
            BY <1>1, <2>3, <3>1, <3>2 DEF LinkInv, ThreadKept, OldKids
        <3> QED
            BY <1>2, <1>3, <3>1, <3>3
    <2> QED
        BY <2>2, <2>3
<1>6. CASE marked[x]
    <2>1. PICK u \in Thread : Cutting(u) /\ reg[u].node = x
        BY <1>6 DEF Linked
    <2>2. link[e][x] \in held[u]
        BY <1>1, <2>1 DEF LinkInv, ThreadKept, CutKept
    <2> QED
        BY <1>2, <1>3, <2>1, <2>2
<1> QED
    BY <1>4, <1>5, <1>6

\* A mark leaves the children of linked nodes linked.
LEMMA MarkKids ==
    ASSUME NEW g, Good(g), LinkInv, NEW t \in Thread, NEW l \in MarkPlaces, NEW stores,
           Mark(t, l, stores)
    PROVE  KidsLinked'
<1> DEFINE r == reg[t]
<1>1. /\ link' = link /\ reg' = reg /\ Linked' = Linked /\ Live' = Live \ {r.node}
    BY MarkLinked
<1>2. /\ \A u \in Thread : Cutting(u) => Cutting(u)'
      /\ Cutting(t)'
    BY MarkCutting
<1>3. ASSUME NEW x \in Linked, NEW e \in Side, link[e][x] # NULL
      PROVE  \/ link[e][x] \in Live'
             \/ \E u \in Thread : /\ Cutting(u)' /\ reg[u].node = link[e][x]
                                  /\ x = reg[u].parent /\ e = CutSide(reg[u])
    <2>1. CASE link[e][x] = r.node
        <3>1. x = r.parent /\ e = CutSide(r)
            BY <1>3, <2>1, OnlyParentLeads DEF Mark
        <3> QED
            BY <1>2, <2>1, <3>1
    <2>2. CASE link[e][x] # r.node
        BY <1>1, <1>2, <1>3, <2>2 DEF LinkInv, KidsLinked
    <2> QED
        BY <2>1, <2>2
<1> HIDE DEF r
<1> QED
    BY <1>1, <1>3 DEF KidsLinked

\* Marking a node keeps it linked, and the invariant.
LEMMA MarkLinks ==
    ASSUME NEW g, Good(g), LinkInv, NEW t \in Thread, NEW l \in MarkPlaces, NEW stores,
           Mark(t, l, stores), CutReady(t, stores)
    PROVE  LinkInv' /\ Linked' = Linked
<1>1. Linked' = Linked /\ Live' \subseteq Live /\ link' = link
    BY MarkLinked
<1>2. SnapshotsNear'
    <2>1. \A x, e, m : Overtakes(x, e, m)' <=> Overtakes(x, e, m)
        BY <1>1 DEF Overtakes, Beside
    <2>2. \A u \in Thread : Adding(u) => Adding(u)' /\ New(u)' = New(u) /\ PendingStores(u)' = PendingStores(u)
        BY MarkCutting
    <2> QED
        BY <1>1, <2>1, <2>2 DEF LinkInv, SnapshotsNear
<1> QED
    BY <1>1, <1>2, MarkThreads, MarkKids DEF LinkInv

-----------------------------------------------------------------------------
(* A node is constructed *)

\* What the construction of a node does to who is adding and cutting.
LEMMA PlaceCutting ==
    ASSUME NEW g, Good(g), LinkInv, NEW t \in Thread, NEW e \in Side, NEW n, NEW a, NEW m,
           Placing(g, t, e, n, a, m)
    PROVE  /\ \A u \in Thread : u # t => /\ Removing(u)' = Removing(u) /\ Adding(u)' = Adding(u)
                                         /\ New(u)' = New(u) /\ PendingStores(u)' = PendingStores(u)
           /\ \A u \in Thread : Cutting(u)' = Cutting(u)
           /\ ~Removing(t) /\ ~Adding(t) /\ Adding(t)' /\ ~Removing(t)' /\ New(t)' = m
           /\ PendingStores(t) = {}
           /\ PendingStores(t)' = {[f |-> SnapshotField(Opp(e)), n |-> a, v |-> m],
                                   [f |-> SnapshotField(e), n |-> n, v |-> m], [f |-> e, n |-> n, v |-> m]}
           /\ reg' = reg /\ op' = op /\ held' = held /\ marked' = marked
           /\ m \in Node \ alloc /\ \A f \in Field : \A x \in alloc \cup {NULL} : link'[f][x] = link[f][x]
           /\ \A u \in Thread : reg[u].node # m /\ reg[u].parent # m
<1>1. /\ todo[t] = << >> /\ pc[t] = "addSnapshot" /\ pc'[t] = "store" /\ op[t].type = "add"
      /\ held' = held /\ op' = op /\ reg' = reg /\ marked' = marked /\ m \in Node \ alloc
      /\ todo'[t] = AddList(e, n, a, m)
      /\ \A u \in Thread \ {t} : todo'[u] = todo[u] /\ pc'[u] = pc[u]
      /\ \A f \in Field : \A x \in Ptr \ {m} : link'[f][x] = link[f][x]
    BY DEF Placing
<1>2. alloc \subseteq Node /\ NULL \notin Node
    BY LiveFacts
<1>3. \A f \in Field : \A x \in alloc \cup {NULL} : link'[f][x] = link[f][x]
    BY <1>1, <1>2
<1>4. \A u \in Thread : /\ reg[u].node \in alloc \cup {NULL} /\ reg[u].parent \in alloc \cup {NULL}
                        /\ CutSide(reg[u]) \in Field
    BY KnownHere DEF LocalsShown, Shown, CutSide, Field
<1>5. \A u \in Thread : Removing(u)' = Removing(u)
    BY <1>1 DEF Removing
<1>6. \A u \in Thread : Cutting(u)' = Cutting(u)
    BY <1>1, <1>3, <1>4, <1>5 DEF Cutting
<1>7. New(t)' = m
    BY <1>1 DEF New, AddList
<1>8. PendingStores(t)' = {[f |-> SnapshotField(Opp(e)), n |-> a, v |-> m],
                           [f |-> SnapshotField(e), n |-> n, v |-> m], [f |-> e, n |-> n, v |-> m]}
    <2>1. PendingStores(t)' = Elements(AddList(e, n, a, m))
        BY <1>1 DEF PendingStores, Elements
    <2> QED
        BY <2>1, ElementsOf DEF AddList
<1>9. \A u \in Thread : u # t => /\ Adding(u)' = Adding(u) /\ New(u)' = New(u)
                                 /\ PendingStores(u)' = PendingStores(u)
    BY <1>1 DEF Adding, New, PendingStores
<1>10. PendingStores(t) = {} /\ ~Removing(t) /\ ~Adding(t) /\ Adding(t)' /\ ~Removing(t)'
    BY <1>1, NonePending DEF Adding, Removing
<1>11. \A u \in Thread : reg[u].node # m /\ reg[u].parent # m
    BY <1>1, <1>2, <1>4
<1> QED
    BY <1>1, <1>3, <1>5, <1>6, <1>7, <1>8, <1>9, <1>10, <1>11

\* The new node is not yet linked.
LEMMA PlaceLinked ==
    ASSUME NEW g, Good(g), LinkInv, NEW t \in Thread, NEW e \in Side, NEW n, NEW a, NEW m,
           Placing(g, t, e, n, a, m)
    PROVE  Linked' = Linked /\ Live' = Live \cup {m} /\ alloc' = alloc \cup {m}
<1>1. alloc' = alloc \cup {m} /\ Live' = Live \cup {m} /\ marked' = marked /\ reg' = reg
    BY DEF Placing
<1>2. /\ \A u \in Thread : u # t => Adding(u)' = Adding(u) /\ New(u)' = New(u)
      /\ \A u \in Thread : Cutting(u)' = Cutting(u)
      /\ Adding(t)' /\ New(t)' = m /\ ~Adding(t) /\ m \notin alloc
    BY PlaceCutting
<1>3. \A x : x \in Linked' <=> x \in Linked
    BY <1>1, <1>2, LinkedParts, LinkedPartsAfter
<1> QED
    BY <1>1, <1>3

\* The construction of a node changes nothing for a call under way.
LEMMA PlaceThreads ==
    ASSUME NEW g, Good(g), LinkInv, NEW t \in Thread, NEW e \in Side, NEW n, NEW a, NEW m,
           Placing(g, t, e, n, a, m), NEW u \in Thread
    PROVE  ThreadKept(u)'
<1>1. /\ \A v \in Thread : Cutting(v)' = Cutting(v)
      /\ ~Removing(t) /\ Adding(t)' /\ ~Removing(t)' /\ New(t)' = m
      /\ PendingStores(t)' = {[f |-> SnapshotField(Opp(e)), n |-> a, v |-> m],
                              [f |-> SnapshotField(e), n |-> n, v |-> m], [f |-> e, n |-> n, v |-> m]}
      /\ reg' = reg /\ op' = op /\ held' = held /\ marked' = marked
      /\ m \in Node \ alloc /\ \A f \in Field : \A x \in alloc \cup {NULL} : link'[f][x] = link[f][x]
    BY PlaceCutting
<1>2. alloc' = alloc \cup {m} /\ Live \subseteq alloc
    BY PlaceLinked DEF Live
<1>3. CASE u = t
    <2>1. n \in held[t] /\ n \in Live /\ todo[t] = << >> /\ g.child[e][n] = NULL /\ value[m] = op[t].key
          /\ \A d \in Side : link'[d][m] = NULL
        BY DEF Placing
    <2>2. link[e][n] = NULL
        BY <2>1, NoChildThere
    <2>3. link'[e][n] = NULL /\ \A d \in Side : SnapshotField(d) \notin Side
        BY <1>1, <1>2, <2>1, <2>2, Fields DEF Side, SnapshotField
    <2>4. OldKids(t)'
        BY <1>1, <2>3, Sides DEF OldKids
    <2> QED
        BY <1>1, <1>3, <2>1, <2>4 DEF ThreadKept, Cutting
<1>4. CASE u # t
    <2>1. ThreadKept(u)
        BY DEF LinkInv
    <2>2. /\ Removing(u)' = Removing(u) /\ Adding(u)' = Adding(u) /\ todo'[u] = todo[u]
          /\ New(u)' = New(u) /\ PendingStores(u)' = PendingStores(u)
        BY <1>4, PlaceCutting DEF Placing
    <2>3. reg[u].node \in alloc \cup {NULL} /\ Side \subseteq Field /\ "parent" \in Field
        BY KnownHere DEF LocalsShown, Shown, Side, Field
    <2>4. CutKept(u)' = CutKept(u)
        <3>1. /\ \A d \in Side : link'[d][reg[u].node] = link[d][reg[u].node]
              /\ link'["parent"][reg[u].node] = link["parent"][reg[u].node]
            BY <1>1, <2>3
        <3> QED
            BY <1>1, <2>2, <3>1 DEF CutKept, SpliceFirst
    <2>5. OldKids(u)'
        <3>1. \A w \in PendingStores(u) : w.n \in alloc
            BY <1>2, Pending
        <3> QED
            BY <1>1, <2>1, <2>2, <2>3, <3>1 DEF OldKids, ThreadKept
    <2>6. Adding(u) => \A d \in Side : link'[d][New(u)] = link[d][New(u)]
        BY <1>1, <1>2, <2>3, NewNode
    <2> QED
        BY <1>1, <1>2, <2>1, <2>2, <2>4, <2>5, <2>6 DEF ThreadKept
<1> QED
    BY <1>3, <1>4

\* The children of linked nodes stay linked: the new node is not one of them yet.
LEMMA PlaceKids ==
    ASSUME NEW g, Good(g), LinkInv, NEW t \in Thread, NEW e \in Side, NEW n, NEW a, NEW m,
           Placing(g, t, e, n, a, m)
    PROVE  KidsLinked'
<1>1. /\ Linked' = Linked /\ Live \subseteq Live' /\ reg' = reg
      /\ \A u \in Thread : Cutting(u)' = Cutting(u)
    BY PlaceLinked, PlaceCutting
<1>2. \A x \in Linked : \A d \in Side : link'[d][x] = link[d][x]
    BY PlaceCutting, Fields DEF Linked
<1> QED
    BY <1>1, <1>2 DEF LinkInv, KidsLinked

\* Between the two neighbours of the gap there is no linked node.
LEMMA GapEmpty ==
    ASSUME NEW g, Good(g), LinkInv, NEW t \in Thread, NEW e \in Side, NEW n, NEW a, NEW m,
           Placing(g, t, e, n, a, m)
    PROVE  /\ \A y \in Linked \cup Live : ~(Beside(e, a, y) /\ Beside(e, y, n))
           /\ \A y \in Linked \cup Live : ~(Beside(Opp(e), n, y) /\ Beside(Opp(e), y, a))
           /\ \A u \in Thread : Adding(u) => New(u) # n /\ New(u) # a
<1>1. /\ n \in Live \ {End(e)} /\ g.near[e][n] = a /\ n \in Shown /\ g.child[e][n] = NULL
      /\ todo[t] = << >>
    BY DEF Placing
<1>2. a # End(Opp(e)) /\ a \in Live /\ g.near[Opp(e)][a] = n /\ Opp(e) \in Side /\ Opp(e) # e
    BY GapMine, Sides
<1>3. PendingStores(t) = {}
    BY <1>1, NonePending
<1>4. \A u \in Thread \ {t} : \A v \in PendingStores(u) :
          ~(v.f = SnapshotField(Opp(e)) /\ v.n = a) /\ ~(v.f = SnapshotField(e) /\ v.n = n)
    BY PlacedElsewhere
<1>5. \A y \in Linked \cup Live : ~(Beside(e, a, y) /\ Beside(e, y, n))
    BY <1>1, <1>3, <1>4, NoneBetween
<1>6. \A y \in Linked \cup Live : ~(Beside(Opp(e), n, y) /\ Beside(Opp(e), y, a))
    BY <1>2, <1>3, <1>4, NoneBetween
<1>7. \A u \in Thread : Adding(u) => New(u) # n
    BY <1>1 DEF Shown
<1>8. ASSUME NEW u \in Thread, Adding(u), New(u) = a PROVE FALSE
    <2>1. g.child[Opp(e)][a] = NULL
        BY <1>2, <1>8, NewNode
    <2>2. g.near[Opp(e)][a] = n /\ Shape(g, Live) /\ Opp(Opp(e)) = e
        BY <1>2, LiveFacts, Sides
    <2>3. (g.child[Opp(Opp(e))][n] = NULL) # (g.child[Opp(e)][a] = NULL)
        BY <1>1, <1>2, <2>2, Across
    <2> QED
        BY <1>1, <2>1, <2>2, <2>3
<1> QED
    BY <1>5, <1>6, <1>7, <1>8

\* On its way across the gap to side d a snapshot is that of the node before the gap.
LEMMA GapCrossed ==
    ASSUME NEW g, Good(g), LinkInv, NEW d \in Side, NEW b \in Live, NEW c, NEW m \in Node,
           \A y \in Linked \cup Live : ~(Beside(d, c, y) /\ Beside(d, y, b)),
           \A u \in Thread : Adding(u) => New(u) # b,
           Beside(d, c, m), Beside(d, m, b), c \in Live,
           NEW x \in Linked \cup Live, Overtakes(x, d, m)
    PROVE  x = b
<1>1. PICK z : z = link[SnapshotField(d)][x]
    OBVIOUS
<1>2. z # NULL /\ Beside(d, z, m) /\ Beside(d, m, x)
    BY <1>1 DEF Overtakes
<1>3. x \in Node /\ b \in Node /\ c \in Node
    BY LiveFacts DEF Linked
<1>4. z \in Node
    <2>1. link \in [Field -> [Ptr -> Ptr]] /\ SnapshotField(d) \in Field
        BY Fields DEF Good, TypeOK
    <2> QED
        BY <1>1, <1>2, <1>3, <2>1
<1> SUFFICES ASSUME x # b PROVE FALSE
    OBVIOUS
<1>5. value[x] # value[b]
    BY OneValue
<1>6. CASE Beside(d, b, x)
    <2>1. Beside(d, z, b)
        BY <1>2, <1>3, <1>4, Order
    <2>2. Overtakes(x, d, b)
        BY <1>1, <1>2, <1>6, <2>1 DEF Overtakes
    <2> QED
        BY <2>2 DEF LinkInv, SnapshotsNear
<1>7. CASE Beside(d, x, b)
    <2>1. Beside(d, c, x)
        BY <1>2, <1>3, Order
    <2> QED
        BY <1>7, <2>1
<1> QED
    BY <1>3, <1>5, <1>6, <1>7, Order

\* The snapshots of linked nodes still lead as far as they should.
LEMMA PlaceSnapshots ==
    ASSUME NEW g, Good(g), LinkInv, NEW t \in Thread, NEW e \in Side, NEW n, NEW a, NEW m,
           Placing(g, t, e, n, a, m)
    PROVE  SnapshotsNear'
<1>1. /\ n \in Live /\ a \in Live /\ Beside(e, a, m) /\ Beside(e, m, n)
      /\ link'[SnapshotField(e)][m] = a /\ link'[SnapshotField(Opp(e))][m] = n
    BY DEF Placing
<1>2. /\ Linked' = Linked /\ Live' = Live \cup {m} /\ m \in Node \ alloc /\ Live \subseteq alloc
      /\ Linked \subseteq alloc
      /\ \A u \in Thread : u # t => Adding(u)' = Adding(u) /\ New(u)' = New(u)
                                    /\ PendingStores(u)' = PendingStores(u)
      /\ ~Adding(t) /\ Adding(t)' /\ New(t)' = m
      /\ PendingStores(t)' = {[f |-> SnapshotField(Opp(e)), n |-> a, v |-> m],
                              [f |-> SnapshotField(e), n |-> n, v |-> m], [f |-> e, n |-> n, v |-> m]}
      /\ \A f \in Field : \A x \in alloc \cup {NULL} : link'[f][x] = link[f][x]
    BY PlaceLinked, PlaceCutting DEF Live, Linked
<1>3. /\ \A y \in Linked \cup Live : ~(Beside(e, a, y) /\ Beside(e, y, n))
      /\ \A y \in Linked \cup Live : ~(Beside(Opp(e), n, y) /\ Beside(Opp(e), y, a))
      /\ \A u \in Thread : Adding(u) => New(u) # n /\ New(u) # a
    BY GapEmpty
<1>4. /\ Opp(e) \in Side /\ \A d \in Side : d = e \/ d = Opp(e)
      /\ \A d \in Side : SnapshotField(d) \in Field
    BY Sides, Fields
<1>5. a \in Node /\ n \in Node /\ Beside(Opp(e), n, m) /\ Beside(Opp(e), m, a) /\ alloc \subseteq Node
    BY <1>1, <1>2, LiveFacts, Order
<1> SUFFICES ASSUME NEW x \in Linked' \cup Live', NEW y \in Linked' \cup Live', NEW d \in Side,
                    Overtakes(x, d, y)'
             PROVE  \E u \in Thread : /\ Adding(u)' /\ y = New(u)'
                       /\ \E w \in PendingStores(u)' : w.f = SnapshotField(d) /\ w.n = x
    BY DEF SnapshotsNear
<1>6. ASSUME x # m PROVE Overtakes(x, d, y) /\ x \in Linked \cup Live
    BY <1>2, <1>4, <1>6 DEF Overtakes, Beside
<1>7. CASE x # m /\ y # m
    <2>1. PICK u, w : /\ u \in Thread /\ w \in PendingStores(u) /\ Adding(u) /\ y = New(u)
                      /\ w.f = SnapshotField(d) /\ w.n = x
        BY <1>2, <1>6, <1>7 DEF LinkInv, SnapshotsNear
    <2> QED
        BY <1>2, <2>1
<1>8. CASE x # m /\ y = m
    <2>1. d = e => x = n
        BY <1>1, <1>2, <1>3, <1>6, <1>8, GapCrossed
    <2>2. d = Opp(e) => x = a
        BY <1>1, <1>2, <1>3, <1>4, <1>5, <1>6, <1>8, GapCrossed
    <2>3. CASE d = e
        <3>1. [f |-> SnapshotField(e), n |-> n, v |-> m] \in PendingStores(t)'
            BY <1>2
        <3> QED
            BY <1>2, <1>8, <2>1, <2>3, <3>1
    <2>4. CASE d = Opp(e)
        <3>1. [f |-> SnapshotField(Opp(e)), n |-> a, v |-> m] \in PendingStores(t)'
            BY <1>2
        <3> QED
            BY <1>2, <1>8, <2>2, <2>4, <3>1
    <2> QED
        BY <1>4, <2>3, <2>4
<1>9. CASE x = m
    <2>1. Beside(d, link'[SnapshotField(d)][m], y) /\ Beside(d, y, m)
        BY <1>9 DEF Overtakes, Beside
    <2>2. y # m /\ y \in Linked \cup Live /\ y \in Node
        BY <1>2, <1>5, <2>1, Order
    <2>3. CASE d = e
        <3>1. Beside(e, a, y) /\ Beside(e, y, m)
            BY <1>1, <2>1, <2>3
        <3>2. Beside(e, y, n)
            BY <1>1, <1>2, <1>5, <2>2, <3>1, Order
        <3> QED
            BY <1>3, <2>2, <3>1, <3>2
    <2>4. CASE d = Opp(e)
        <3>1. Beside(Opp(e), n, y) /\ Beside(Opp(e), y, m)
            BY <1>1, <2>1, <2>4
        <3>2. Beside(Opp(e), y, a)
            BY <1>2, <1>4, <1>5, <2>2, <3>1, Order
        <3> QED
            BY <1>3, <2>2, <3>1, <3>2
    <2> QED
        BY <1>4, <2>3, <2>4
<1> QED
    BY <1>7, <1>8, <1>9

\* Making a node links nothing, and keeps the invariant.
LEMMA PlaceLinks ==
    ASSUME NEW g, Good(g), LinkInv, NEW t \in Thread, NEW e \in Side, NEW n, NEW a, NEW m,
           Placing(g, t, e, n, a, m)
    PROVE  LinkInv' /\ Linked' = Linked
    BY PlaceThreads, PlaceKids, PlaceSnapshots, PlaceLinked DEF LinkInv

-----------------------------------------------------------------------------
(* Every step *)

\* A step of t that stores nothing, makes no node and marks none.
Still(t) ==
    /\ Others(t) /\ UNCHANGED <<heap, todo>>
    /\ pc[t] \notin {"idle", "store"} /\ pc'[t] # "store"

\* Thread t stays where it is, follows a child pointer, or goes back to the root.
Follows(t, n) ==
    n = reg[t].node \/ n = root \/ \E e \in Side : n = link[e][reg[t].node] /\ n # NULL

\* One after which the call goes on.
Onward(t) == Still(t) /\ pc'[t] # "idle" /\ op'[t] = op[t] /\ Follows(t, reg'[t].node)

\* The ways in which a call goes on.
LEMMA Onwards ==
    ASSUME TypeOK, NEW t \in Thread, pc[t] \notin {"idle", "store"}
    PROVE  /\ \A l \in Location \ {"idle", "store"} : \A r :
                 Proceed(t, l, r) /\ Follows(t, r.node) /\ UNCHANGED <<heap, todo, held>> => Onward(t)
           /\ \A l \in Location \ {"idle", "store"} : \A r, n :
                 Proceed(t, l, r) /\ Follows(t, r.node) /\ Acquire(t, n) /\ UNCHANGED <<heap, todo>>
                    => Onward(t)
           /\ Retry(t) /\ UNCHANGED <<heap, todo>> => Onward(t)
           /\ \A a, kept : Return(t, a, kept) /\ UNCHANGED <<heap, todo>> => Still(t)
           /\ \A l \in Location \ {"idle", "store"} : \A n : Lock(t, n, l) => Onward(t)
           /\ \A l \in Location \ {"idle", "store"} : \A n, stale : TryLock(t, n, stale, l) => Onward(t)
           /\ reg[t] \in Locals /\ Follows(t, reg[t].node)
<1>1. /\ pc \in [Thread -> Location] /\ reg \in [Thread -> Locals]
      /\ held \in [Thread -> SUBSET Ptr] /\ op \in [Thread -> S!Op \cup {NoOp}]
    BY DEF TypeOK
<1>2. ASSUME NEW l \in Location \ {"idle", "store"}, NEW r, Proceed(t, l, r), Follows(t, r.node),
             UNCHANGED <<heap, todo, held>>
      PROVE  Onward(t)
    BY <1>1, <1>2 DEF Onward, Still, Others, Proceed, Goto
<1>3. ASSUME NEW l \in Location \ {"idle", "store"}, NEW r, NEW n, Proceed(t, l, r), Follows(t, r.node),
             Acquire(t, n), UNCHANGED <<heap, todo>>
      PROVE  Onward(t)
    BY <1>1, <1>3 DEF Onward, Still, Others, Proceed, Goto, Acquire
<1>4. ASSUME Retry(t), UNCHANGED <<heap, todo>> PROVE Onward(t)
    <2>1. reg'[t].node = root
        BY <1>1, <1>4 DEF Retry, AtRoot, Blank
    <2> QED
        BY <1>1, <1>4, <2>1 DEF Onward, Still, Others, Retry, Goto, Follows
<1>5. ASSUME NEW a, NEW kept, Return(t, a, kept), UNCHANGED <<heap, todo>> PROVE Still(t)
    BY <1>1, <1>5 DEF Still, Others, Return, Goto
<1>6. Follows(t, reg[t].node) /\ reg[t] \in Locals
    BY <1>1 DEF Follows
<1>7. ASSUME NEW l \in Location \ {"idle", "store"}, NEW n, Lock(t, n, l) PROVE Onward(t)
    BY <1>3, <1>6, <1>7 DEF Lock
<1>8. ASSUME NEW l \in Location \ {"idle", "store"}, NEW n, NEW stale, TryLock(t, n, stale, l)
      PROVE  Onward(t)
    BY <1>4, <1>7, <1>8 DEF TryLock
<1> QED
    BY <1>2, <1>3, <1>4, <1>5, <1>6, <1>7, <1>8

\* add makes its node.
Makes(t) == AddSnapshot(t) /\ ~Outside(reg[t].node, op[t].key, Snapshot(reg[t].node, op[t].key))
            /\ pc'[t] # "walk"

\* The steps of a search, and of remove up to its first lock, at which a call may end.
Finishes(t) ==
    \/ Found(t) \/ RemovedMeanwhile(t)
    \/ MissSnapshot(t) /\ ~Outside(reg[t].node, op[t].key, Snapshot(reg[t].node, op[t].key))
    \/ Recheck(t) /\ marked[reg[t].node]

\* A step of a search goes on or ends the call.
LEMMA SearchOnwards ==
    ASSUME TypeOK, NEW t \in Thread,
           \/ Walk(t) \/ Found(t) \/ MissSnapshot(t) \/ AddLock(t)
           \/ ReadParent(t) \/ LockParent(t) \/ Recheck(t) \/ RemovedMeanwhile(t)
    PROVE  Onward(t) \/ (Finishes(t) /\ Still(t))
<1>1. {"walk", "miss", "addLock", "addSnapshot", "lockParent", "recheck", "lockNode"}
        \subseteq Location \ {"idle", "store"}
    BY DEF Location
<1>2. CASE Walk(t)
    <2>1. pc[t] \notin {"idle", "store"} /\ UNCHANGED <<heap, todo, held>>
        BY <1>2 DEF Walk
    <2>2. \E l \in {"walk", "addLock", "miss"} : \E r : Proceed(t, l, r) /\ Follows(t, r.node)
        <3>1. PICK c : c = Child(reg[t].node, op[t].key)
            OBVIOUS
        <3>2. \E e \in Side : c = link[e][reg[t].node]
            BY <3>1 DEF Child, Left, Right, Side
        <3>3. CASE c # NULL
            <4>1. Proceed(t, "walk", [reg[t] EXCEPT !.node = c])
                BY <1>2, <3>1, <3>3 DEF Walk
            <4>2. [reg[t] EXCEPT !.node = c].node = c
                BY <2>1, Onwards DEF Locals
            <4> QED
                BY <3>2, <3>3, <4>1, <4>2 DEF Follows
        <3>4. CASE c = NULL
            BY <1>2, <2>1, <3>1, <3>4, Onwards DEF Walk
        <3> QED
            BY <3>3, <3>4
    <2> QED
        BY <1>1, <2>1, <2>2, Onwards
<1>3. CASE Found(t)
    BY <1>3, Onwards DEF Found, Finishes
<1>4. CASE MissSnapshot(t)
    <2>1. pc[t] \notin {"idle", "store"} /\ UNCHANGED <<heap, todo>>
        BY <1>4 DEF MissSnapshot
    <2>2. Retry(t) \/ (Finishes(t) /\ Return(t, "absent", leaked[t]))
        BY <1>4 DEF MissSnapshot, Finishes
    <2> QED
        BY <2>1, <2>2, Onwards
<1>5. CASE AddLock(t)
    BY <1>1, <1>5, Onwards DEF AddLock
<1>6. CASE ReadParent(t)
    <2>1. pc[t] \notin {"idle", "store"} /\ UNCHANGED <<heap, todo, held>>
        BY <1>6 DEF ReadParent
    <2>2. \E r : Proceed(t, "lockParent", r) /\ r.node = reg[t].node
        BY <1>6, <2>1, Onwards DEF ReadParent, Locals
    <2> QED
        BY <1>1, <2>1, <2>2, Onwards
<1>7. CASE LockParent(t)
    <2>1. pc[t] \notin {"idle", "store"} /\ UNCHANGED <<heap, todo>> /\ Acquire(t, reg[t].parent)
        BY <1>7 DEF LockParent
    <2>2. \E l \in {"recheck", "lockNode"} : Proceed(t, l, reg[t])
        BY <1>7 DEF LockParent
    <2> QED
        BY <1>1, <2>1, <2>2, Onwards
<1>8. CASE Recheck(t)
    <2>1. pc[t] \notin {"idle", "store"} /\ UNCHANGED <<heap, todo>>
        BY <1>8 DEF Recheck
    <2>2. Retry(t) \/ (Finishes(t) /\ Return(t, "absent", held[t]))
        BY <1>8 DEF Recheck, Finishes
    <2> QED
        BY <2>1, <2>2, Onwards
<1>9. CASE RemovedMeanwhile(t)
    BY <1>9, Onwards DEF RemovedMeanwhile, Finishes
<1> QED
    BY <1>2, <1>3, <1>4, <1>5, <1>6, <1>7, <1>8, <1>9

\* Those of remove that lock or read from there on.
LEMMA RemoveOnwards ==
    ASSUME TypeOK, NEW t \in Thread,
           \/ LockNode(t) \/ ReadPred(t) \/ ReadSucc(t)
           \/ LockChild(t) \/ LockSnapshot(t)
           \/ LockLeft(t) \/ LockRight(t) \/ LockRightNode(t)
           \/ ReadSuccParent(t) \/ LockSuccParent(t) \/ RecheckSucc(t) \/ LockSucc(t)
           \/ LockSuccRight(t) \/ LockSuccRightSnapshot(t)
    PROVE  Onward(t)
<1>1. {"lockLeft", "readPred", "readSucc", "unlinkLeaf", "lockRightNode", "lockChild", "lockSnapshot",
       "unlinkOneChild", "lockRight", "promoteRight", "readSuccParent", "lockSuccParent", "recheckSucc",
       "lockSucc", "lockSuccRight", "applyRemove", "lockSuccRightSnapshot"}
        \subseteq Location \ {"idle", "store"}
    BY DEF Location
<1>2. CASE LockNode(t)
    <2>1. pc[t] \notin {"idle", "store"} /\ UNCHANGED <<heap, todo>> /\ Acquire(t, reg[t].node)
        BY <1>2 DEF LockNode
    <2>2. \E l \in {"lockLeft", "readPred"} : \E r : Proceed(t, l, r) /\ r.node = reg[t].node
        <3>1. PICK l, r : /\ Proceed(t, l, r) /\ l \in {"lockLeft", "readPred"}
                          /\ r = [reg[t] EXCEPT !.left = Left(reg[t].node), !.right = Right(reg[t].node),
                                              !.leftChild = (Left(reg[t].parent) = reg[t].node)]
            BY <1>2 DEF LockNode
        <3>2. r.node = reg[t].node
            BY <2>1, <3>1, Onwards DEF Locals
        <3> QED
            BY <3>1, <3>2
    <2> QED
        BY <1>1, <2>1, <2>2, Onwards
<1>3. CASE ReadPred(t)
    <2>1. pc[t] \notin {"idle", "store"} /\ UNCHANGED <<heap, todo, held>>
        BY <1>3 DEF ReadPred
    <2>2. \E r : Proceed(t, "readSucc", r) /\ r.node = reg[t].node
        BY <1>3, <2>1, Onwards DEF ReadPred, Locals
    <2> QED
        BY <1>1, <2>1, <2>2, Onwards
<1>4. CASE ReadSucc(t)
    <2>1. pc[t] \notin {"idle", "store"} /\ UNCHANGED <<heap, todo, held>>
        BY <1>4 DEF ReadSucc
    <2>2. \E l \in {"unlinkLeaf", "lockRightNode", "lockChild"} : \E r :
             Proceed(t, l, r) /\ r.node = reg[t].node
        BY <1>4, <2>1, Onwards DEF ReadSucc, Locals
    <2> QED
        BY <1>1, <2>1, <2>2, Onwards
<1>5. CASE LockChild(t)
    BY <1>1, <1>5, Onwards DEF LockChild
<1>6. CASE LockSnapshot(t)
    BY <1>1, <1>6, Onwards DEF LockSnapshot
<1>7. CASE LockLeft(t)
    BY <1>1, <1>7, Onwards DEF LockLeft
<1>8. CASE LockRight(t)
    BY <1>1, <1>8, Onwards DEF LockRight
<1>9. CASE LockRightNode(t)
    <2>1. pc[t] \notin {"idle", "store"}
        BY <1>9 DEF LockRightNode
    <2>2. \E l \in {"promoteRight", "readSuccParent"} : \E n, stale : TryLock(t, n, stale, l)
        BY <1>9 DEF LockRightNode
    <2> QED
        BY <1>1, <2>1, <2>2, Onwards
<1>10. CASE ReadSuccParent(t)
    <2>1. pc[t] \notin {"idle", "store"} /\ UNCHANGED <<heap, todo, held>>
        BY <1>10 DEF ReadSuccParent
    <2>2. \E r : Proceed(t, "lockSuccParent", r) /\ r.node = reg[t].node
        BY <1>10, <2>1, Onwards DEF ReadSuccParent, Locals
    <2> QED
        BY <1>1, <2>1, <2>2, Onwards
<1>11. CASE LockSuccParent(t)
    BY <1>1, <1>11, Onwards DEF LockSuccParent
<1>12. CASE RecheckSucc(t)
    BY <1>1, <1>12, Onwards DEF RecheckSucc
<1>13. CASE LockSucc(t)
    BY <1>1, <1>13, Onwards DEF LockSucc
<1>14. CASE LockSuccRight(t)
    <2>1. pc[t] \notin {"idle", "store"} /\ UNCHANGED <<heap, todo>>
        BY <1>14 DEF LockSuccRight
    <2>2. UNCHANGED held \/ \E n : Acquire(t, n)
        BY <1>14 DEF LockSuccRight
    <2>3. \E l \in {"applyRemove", "lockSuccRightSnapshot"} : \E r :
             Proceed(t, l, r) /\ r.node = reg[t].node
        <3>1. PICK l, r : /\ Proceed(t, l, r) /\ l \in {"applyRemove", "lockSuccRightSnapshot"}
                          /\ r = [reg[t] EXCEPT !.succRight = Right(Succ(t)),
                                              !.succRightSnapshot = RightSnapshot(Succ(t))]
            BY <1>14 DEF LockSuccRight
        <3>2. r.node = reg[t].node
            BY <2>1, <3>1, Onwards DEF Locals
        <3> QED
            BY <3>1, <3>2
    <2> QED
        BY <1>1, <2>1, <2>2, <2>3, Onwards
<1>15. CASE LockSuccRightSnapshot(t)
    BY <1>1, <1>15, Onwards DEF LockSuccRightSnapshot
<1> QED
    BY <1>2, <1>3, <1>4, <1>5, <1>6, <1>7, <1>8, <1>9, <1>10, <1>11, <1>12, <1>13, <1>14, <1>15

\* A remove marks its node.
Marks(t) == UnlinkLeaf(t) \/ UnlinkOneChild(t) \/ PromoteRight(t) \/ ApplyRemove(t)

\* So a step is one of five kinds.
LEMMA StepSorts ==
    ASSUME TypeOK, NEW t \in Thread, Step(t)
    PROVE  Onward(t) \/ (Finishes(t) /\ Still(t)) \/ Makes(t) \/ Marks(t) \/ DoStore(t)
<1>1. CASE AddSnapshot(t)
    <2>1. pc[t] = "addSnapshot"
        BY <1>1 DEF AddSnapshot
    <2>2. CASE Outside(reg[t].node, op[t].key, Snapshot(reg[t].node, op[t].key))
        <3>1. Retry(t) /\ UNCHANGED <<heap, todo>>
            BY <1>1, <2>2 DEF AddSnapshot, heap
        <3> QED
            BY <2>1, <3>1, Onwards
    <2>3. CASE ~Outside(reg[t].node, op[t].key, Snapshot(reg[t].node, op[t].key))
        <3>1. Proceed(t, "store", reg[t])
            BY <1>1, <2>3 DEF AddSnapshot
        <3>2. pc'[t] = "store"
            BY <3>1, ProceedEffect
        <3> QED
            BY <1>1, <2>3, <3>2 DEF Makes
    <2> QED
        BY <2>2, <2>3
<1> QED
    BY <1>1, SearchOnwards, RemoveOnwards DEF Step, Marks

\* In the beginning only the sentinels are linked, and to each other.
LEMMA LinksAtFirst ==
    ASSUME Init, NEW g, Good(g)
    PROVE  LinkInv /\ Linked = {leftSentinel, rightSentinel}
<1>1. /\ \A t \in Thread : pc[t] = "idle" /\ todo[t] = << >>
      /\ alloc = {leftSentinel, rightSentinel} /\ \A n \in Ptr : ~marked[n]
    BY DEF Init
<1>2. \A t \in Thread : ~Removing(t) /\ ~Adding(t) /\ ~Cutting(t)
    BY <1>1 DEF Removing, Adding, Cutting
<1>3. \A t \in Thread : PendingStores(t) = {}
    BY <1>1, NonePending
<1>4. \A t \in Thread : ThreadKept(t)
    BY <1>2, <1>3 DEF ThreadKept, OldKids
<1>5. Linked = {leftSentinel, rightSentinel} /\ Live = {leftSentinel, rightSentinel}
    <2>1. {leftSentinel, rightSentinel} \subseteq Ptr
        BY LiveFacts
    <2> QED
        BY <1>1, <1>2, <2>1 DEF Linked, Live
<1>6. \A f \in Field : \A x \in Live : link[f][x] = Final(g, f, x)
    BY <1>3 DEF Good, HeapInv, Settles
<1>7. /\ \A e \in Side : \A x \in Live : link[e][x] = g.child[e][x]
      /\ \A e \in Side : \A x \in Live : link[SnapshotField(e)][x] = g.near[e][x]
    BY <1>6, Fields
<1>8. KidsLinked
    BY <1>5, <1>7, LiveFacts DEF KidsLinked
<1>9. SnapshotsNear
    <2> SUFFICES ASSUME NEW x \in Live, NEW m \in Live, NEW e \in Side, Overtakes(x, e, m)
                 PROVE  FALSE
        BY <1>5 DEF SnapshotsNear
    <2>1. Beside(e, g.near[e][x], m) /\ Beside(e, m, x) /\ Shape(g, Live) /\ Live \subseteq Node
        BY <1>7, LiveFacts DEF Overtakes
    <2>2. CASE x = End(e)
        <3>1. m # End(e) => Beside(e, End(e), m)
            BY <2>1 DEF Shape, Ordered
        <3> QED
            BY <2>1, <2>2, <3>1, Order
    <2>3. CASE x # End(e)
        BY <2>1, <2>3, NeighbourOf
    <2> QED
        BY <2>2, <2>3
<1> QED
    BY <1>4, <1>5, <1>8, <1>9 DEF LinkInv

\* Every step of a call keeps what is said of the linked nodes, and only stores
\* change which they are.
LEMMA StepLinks ==
    ASSUME NEW g, Good(g), LinkInv, NEW t \in Thread, Step(t)
    PROVE  LinkInv' /\ (~DoStore(t) => Linked' = Linked)
<1>1. CASE Still(t)
    BY <1>1, QuietLinks DEF Still
<1>2. CASE Makes(t)
    BY <1>2, PlacingEffect, PlaceLinks DEF Makes
<1>3. CASE DoStore(t)
    BY <1>3, StoreLinks
<1>4. {"unlinkLeaf", "unlinkOneChild", "promoteRight", "applyRemove"} = MarkPlaces
    BY DEF MarkPlaces
<1>5. CASE UnlinkLeaf(t)
    BY <1>4, <1>5, LeafReady, MarkLinks DEF UnlinkLeaf
<1>6. CASE UnlinkOneChild(t)
    BY <1>4, <1>6, OneChildReady, MarkLinks DEF UnlinkOneChild
<1>7. CASE PromoteRight(t)
    BY <1>4, <1>7, PromoteReady, MarkLinks DEF PromoteRight
<1>8. CASE ApplyRemove(t)
    BY <1>4, <1>8, ApplyReady, MarkLinks DEF ApplyRemove
<1> QED
    BY <1>1, <1>2, <1>3, <1>5, <1>6, <1>7, <1>8, StepSorts DEF Good, Onward, Marks

\* So does a call.
LEMMA CallLinks ==
    ASSUME NEW g, Good(g), LinkInv, NEW t \in Thread, NEW o \in S!Op, Call(t, o)
    PROVE  LinkInv' /\ Linked' = Linked
<1>1. /\ pc \in [Thread -> Location] /\ reg \in [Thread -> Locals]
      /\ op \in [Thread -> S!Op \cup {NoOp}]
    BY DEF Good, TypeOK
<1>2. Others(t) /\ UNCHANGED <<heap, todo>> /\ pc[t] # "store" /\ pc'[t] # "store"
    BY <1>1 DEF Call, Goto, Others
<1> QED
    BY <1>2, QuietLinks

\* And the program's other steps.
LEMMA IdleLinks ==
    ASSUME LinkInv, UNCHANGED vars
    PROVE  LinkInv' /\ Linked' = Linked
    BY DEF vars, LinkInv, ThreadKept, Removing, Cutting, CutKept, SpliceFirst, OldKids, KidsLinked,
           SnapshotsNear, Overtakes, Linked, Live, PendingStores, Adding, New, Beside

-----------------------------------------------------------------------------
(* What a call may have met *)

\* Key k lies between x and z, the node that the snapshot of x on side e leads to.
Between(e, z, k, x) == IF e = "left" THEN value[z] < k /\ k < value[x]
                       ELSE value[x] < k /\ k < value[z]

\* The linked nodes are those that a search can be at, whether the key of a call is
\* that of one decides what the call would answer now, and no snapshot of a linked
\* node passes over one.
LinkedNow ==
    /\ root \in Linked /\ Linked \subseteq Shown \ {NULL}
    /\ \A x \in Linked : \A e \in Side : link[e][x] # NULL => link[e][x] \in Linked
    /\ \A o \in S!Op :
          /\ \A x \in Linked : value[x] = o.key => x \notin {leftSentinel, rightSentinel}
          /\ o.type # "remove" => \A x \in Linked : value[x] = o.key =>
                "present" \in ReadOnly(o, Keys(Linked))
          /\ o.type # "add" => \A x \in Linked : \A e \in Side :
                LET z == link[SnapshotField(e)][x] IN
                z # NULL /\ Between(e, z, o.key, x) => "absent" \in ReadOnly(o, Keys(Linked))
          /\ o.type # "add" /\ (\A x \in Linked : value[x] # o.key) =>
                "absent" \in ReadOnly(o, Keys(Linked))

\* The key of a linked node is in the set, and no other.
LEMMA InKeys ==
    ASSUME NEW o \in S!Op
    PROVE  o.key \in Keys(Linked) <=> \E x \in Linked : value[x] = o.key
<1>1. o.key \in Key /\ value[leftSentinel] # o.key /\ value[rightSentinel] # o.key
    <2>1. o.key \in Key
        BY Effects
    <2> QED
        BY <2>1, NodeAssumption
<1> QED
    BY <1>1 DEF Keys

\* What a call that changes nothing answers.
LEMMA OnlyReads ==
    ASSUME NEW o \in S!Op, NEW keys
    PROVE  /\ o.type # "remove" /\ o.key \in keys => ReadOnly(o, keys) = {"present"}
           /\ o.type # "add" /\ o.key \notin keys => ReadOnly(o, keys) = {"absent"}
<1>1. /\ L!After(keys, o) = IF o.type = "add" THEN keys \cup {o.key}
                            ELSE IF o.type = "remove" THEN keys \ {o.key} ELSE keys
      /\ L!Reply(keys, o) = IF o.key \in keys THEN "present" ELSE "absent"
    BY Effects
<1>2. /\ o.key \in keys => keys \cup {o.key} = keys
      /\ o.key \notin keys => keys \ {o.key} = keys
    OBVIOUS
<1>3. /\ o.type # "remove" /\ o.key \in keys => L!After(keys, o) = keys
      /\ o.type # "add" /\ o.key \notin keys => L!After(keys, o) = keys
    BY <1>1, <1>2
<1> QED
    BY <1>1, <1>3 DEF ReadOnly

\* What holds of the linked nodes at every moment.
LEMMA NowLinked == InOrder /\ LinkInv => LinkedNow
<1> SUFFICES ASSUME NEW g, Good(g), LinkInv PROVE LinkedNow
    BY DEF InOrder
<1>1. /\ Shape(g, Live) /\ Live \subseteq alloc /\ alloc \subseteq Node /\ NULL \notin Node
      /\ {leftSentinel, rightSentinel} \subseteq Live
      /\ \A x \in alloc : x \in Live <=> ~marked[x]
    BY LiveFacts
<1>2. root \in Linked
    <2>1. \A u \in Thread : Adding(u) => New(u) # leftSentinel
        BY NewNode
    <2> QED
        BY <1>1, <2>1, LinkedParts
<1>3. Linked \subseteq Shown \ {NULL} /\ Linked \subseteq Node
    BY <1>1 DEF Linked, Shown
<1>4. \A x \in Linked : \A e \in Side : link[e][x] # NULL => link[e][x] \in Linked
    BY KidsOfLinked
<1>5. ASSUME NEW o \in S!Op
      PROVE  /\ \A x \in Linked : value[x] = o.key => x \notin {leftSentinel, rightSentinel}
             /\ o.type # "remove" => \A x \in Linked : value[x] = o.key =>
                   "present" \in ReadOnly(o, Keys(Linked))
             /\ o.type # "add" => \A x \in Linked : \A e \in Side :
                   LET z == link[SnapshotField(e)][x] IN
                   z # NULL /\ Between(e, z, o.key, x) => "absent" \in ReadOnly(o, Keys(Linked))
             /\ o.type # "add" /\ (\A x \in Linked : value[x] # o.key) =>
                   "absent" \in ReadOnly(o, Keys(Linked))
    <2>1. o.key \in Key
        BY Effects
    <2>2. \A x \in Linked : value[x] = o.key => x \notin {leftSentinel, rightSentinel}
        BY <2>1, NodeAssumption
    <2>3. o.type # "remove" => \A x \in Linked : value[x] = o.key =>
             "present" \in ReadOnly(o, Keys(Linked))
        BY InKeys, OnlyReads
    <2>4. o.type # "add" /\ (\A x \in Linked : value[x] # o.key) =>
             "absent" \in ReadOnly(o, Keys(Linked))
        BY InKeys, OnlyReads
    <2>5. ASSUME o.type # "add", NEW x \in Linked, NEW e \in Side,
                 NEW z, z = link[SnapshotField(e)][x], z # NULL, Between(e, z, o.key, x)
          PROVE  "absent" \in ReadOnly(o, Keys(Linked))
        <3> SUFFICES ASSUME NEW m \in Linked, value[m] = o.key PROVE FALSE
            BY <2>4, <2>5
        <3>1. Overtakes(x, e, m)
            BY <2>5 DEF Overtakes, Between, Beside
        <3>2. \E t \in Thread : Adding(t) /\ m = New(t)
            BY <3>1 DEF LinkInv, SnapshotsNear
        <3> QED
            BY <3>2, LinkedParts
    <2> QED
        BY <2>2, <2>3, <2>4, <2>5
<1> QED
    BY <1>2, <1>3, <1>4, <1>5 DEF LinkedNow

\* The same after a step.
LEMMA NextLinked == (InOrder /\ LinkInv => LinkedNow)'
    BY NowLinked, PTL

-----------------------------------------------------------------------------
(* What a step leaves alone *)

\* A call that ends is between calls.
LEMMA Ended ==
    ASSUME TypeOK, NEW t \in Thread, Finishes(t)
    PROVE  pc'[t] = "idle"
    BY DEF TypeOK, Finishes, Found, RemovedMeanwhile, MissSnapshot, Recheck, Return, Goto

\* What may be seen stays so, what is marked no longer changes, only live nodes become
\* linked, and a call that goes on remains the same call and walks along pointers.
Leaves ==
    /\ Shown \subseteq Shown'
    /\ \A x \in alloc : marked'[x] => \A f \in Field : link'[f][x] = link[f][x]
    /\ Linked' \subseteq Linked \cup Live
    /\ \A u \in Thread : pc[u] # "idle" /\ pc'[u] # "idle" =>
          op'[u] = op[u] /\ Follows(u, reg'[u].node)

\* Shown depends on what is being added.
LEMMA ShownMore ==
    ASSUME alloc \subseteq alloc',
           \A u \in Thread : Adding(u)' => (Adding(u) /\ New(u)' = New(u)) \/ New(u)' \notin alloc \cup {NULL}
    PROVE  Shown \subseteq Shown'
    BY DEF Shown

\* Steps that change no memory leave the linked nodes as they are.
LEMMA StillLeaves ==
    ASSUME NEW g, Good(g), LinkInv, NEW t \in Thread, Still(t), Onward(t) \/ Finishes(t)
    PROVE  Leaves
<1>1. Others(t) /\ UNCHANGED <<heap, todo>> /\ pc[t] \notin {"idle", "store"} /\ pc'[t] # "store"
    BY DEF Still
<1>2. Shown \subseteq Shown'
    BY <1>1, ShownMore DEF Adding, New, Others, heap
<1>3. Linked' = Linked
    BY <1>1, QuietLinks
<1>4. Onward(t) => op'[t] = op[t] /\ Follows(t, reg'[t].node)
    BY DEF Onward
<1>5. \A u \in Thread \ {t} : op'[u] = op[u] /\ Follows(u, reg'[u].node)
    BY <1>1 DEF Others, Follows
<1>6. Finishes(t) => pc'[t] = "idle"
    BY Ended DEF Good
<1> QED
    BY <1>1, <1>2, <1>3, <1>4, <1>5, <1>6 DEF Leaves, heap

\* So does the construction of a node, until it is stored.
LEMMA MakesLeaves ==
    ASSUME NEW g, Good(g), LinkInv, NEW t \in Thread, Makes(t)
    PROVE  Leaves /\ Linked' = Linked /\ op' = op /\ reg' = reg /\ pc'[t] = "store"
<1>1. PICK e \in Side : \E a, m : Placing(g, t, e, reg[t].node, a, m)
    BY PlacingEffect DEF Makes
<1>2. PICK a, m : Placing(g, t, e, reg[t].node, a, m)
    BY <1>1
<1>3. /\ \A u \in Thread : u # t => Adding(u)' = Adding(u) /\ New(u)' = New(u)
      /\ New(t)' = m /\ reg' = reg /\ op' = op /\ marked' = marked
      /\ m \in Node \ alloc /\ \A f \in Field : \A x \in alloc \cup {NULL} : link'[f][x] = link[f][x]
    BY <1>2, PlaceCutting
<1>4. Linked' = Linked /\ alloc' = alloc \cup {m} /\ NULL \notin Node
    BY <1>2, PlaceLinked, LiveFacts
<1>5. Shown \subseteq Shown'
    BY <1>3, <1>4, ShownMore
<1>6. \A u \in Thread : op'[u] = op[u] /\ Follows(u, reg'[u].node)
    BY <1>3 DEF Follows
<1>7. pc'[t] = "store"
    BY <1>2 DEF Placing
<1> QED
    BY <1>3, <1>4, <1>5, <1>6, <1>7 DEF Leaves

\* A remove marks its node with stores that are ready.
LEMMA MarksReady ==
    ASSUME NEW g, Good(g), NEW t \in Thread, Marks(t)
    PROVE  \E l \in MarkPlaces : \E stores : Mark(t, l, stores) /\ CutReady(t, stores)
<1>1. {"unlinkLeaf", "unlinkOneChild", "promoteRight", "applyRemove"} = MarkPlaces
    BY DEF MarkPlaces
<1> QED
    BY <1>1, LeafReady, OneChildReady, PromoteReady, ApplyReady
    DEF Marks, UnlinkLeaf, UnlinkOneChild, PromoteRight, ApplyRemove

\* So does a mark, until the node is cut.
LEMMA MarksLeaves ==
    ASSUME NEW g, Good(g), LinkInv, NEW t \in Thread, Marks(t)
    PROVE  /\ Leaves /\ Linked' = Linked /\ op' = op /\ reg' = reg /\ pc'[t] = "store"
           /\ Removing(t)' /\ Cutting(t)' /\ ~Removing(t)
<1>1. PICK l \in MarkPlaces : \E stores : Mark(t, l, stores) /\ CutReady(t, stores)
    BY MarksReady
<1>2. PICK stores : Mark(t, l, stores)
    BY <1>1
<1>3. /\ \A u \in Thread : u # t => Adding(u)' = Adding(u) /\ New(u)' = New(u)
      /\ ~Adding(t)' /\ Removing(t)' /\ Cutting(t)' /\ ~Removing(t)
    BY <1>2, MarkCutting
<1>4. Linked' = Linked /\ link' = link /\ alloc' = alloc /\ op' = op /\ reg' = reg
    BY <1>2, MarkLinked
<1>5. Shown \subseteq Shown'
    BY <1>3, <1>4, ShownMore
<1>6. \A u \in Thread : op'[u] = op[u] /\ Follows(u, reg'[u].node)
    BY <1>4 DEF Follows
<1>7. pc'[t] = "store"
    BY <1>3 DEF Removing
<1> QED
    BY <1>3, <1>4, <1>5, <1>6, <1>7 DEF Leaves

\* A store leaves every linked node linked but the one that it cuts.
LEMMA StoreLeaves ==
    ASSUME NEW g, Good(g), LinkInv, NEW t \in Thread, DoStore(t)
    PROVE  Leaves
<1>1. PICK s : s = Head(todo[t])
    OBVIOUS
<1>2. s.n \in Live /\ ~marked[s.n]
    BY <1>1, NextStore
<1>3. /\ \A f \in Field : \A x \in Ptr : f # s.f \/ x # s.n => link'[f][x] = link[f][x]
      /\ marked' = marked /\ alloc' = alloc
      /\ \A u \in Thread \ {t} : pc'[u] = pc[u] /\ op'[u] = op[u] /\ reg'[u] = reg[u]
      /\ \/ pc'[t] = pc[t] /\ op'[t] = op[t] /\ reg'[t] = reg[t]
         \/ pc'[t] = "idle"
    BY <1>1, StoreEffect
<1>4. Shown \subseteq Shown'
    BY StoreShown
<1>5. \A x \in alloc : marked'[x] => \A f \in Field : link'[f][x] = link[f][x]
    BY <1>2, <1>3, LiveFacts
<1>6. Linked' \subseteq Linked \cup Live
    BY StoreLinked
<1>7. \A u \in Thread : pc[u] # "idle" /\ pc'[u] # "idle" =>
         op'[u] = op[u] /\ Follows(u, reg'[u].node)
    BY <1>3 DEF Follows
<1> QED
    BY <1>4, <1>5, <1>6, <1>7 DEF Leaves

\* And so does every step of a call.
LEMMA StepLeaves ==
    ASSUME NEW g, Good(g), LinkInv, NEW t \in Thread, Step(t)
    PROVE  Leaves
    BY StepSorts, StillLeaves, MakesLeaves, MarksLeaves, StoreLeaves DEF Good, Onward

-----------------------------------------------------------------------------
(* The history of a call *)

\* X are the nodes that were linked at some moment of the call of u, P the answers
\* that it could have given at one without changing anything.
History(u, X, P) ==
    LET o == op[u] IN
    /\ o \in S!Op /\ X \subseteq Shown \ {NULL} /\ Linked \subseteq X /\ reg[u].node \in X
    /\ ReadOnly(o, Keys(Linked)) \subseteq P
    /\ \A x \in X : \A e \in Side : link[e][x] # NULL => link[e][x] \in X
    /\ o.type # "remove" => \A x \in X : value[x] = o.key => "present" \in P
    /\ o.type # "add" => \A x \in X \ Linked : value[x] = o.key => "absent" \in P
    /\ o.type # "add" => \A x \in X : \A e \in Side :
          LET z == link[SnapshotField(e)][x] IN
          z # NULL /\ Between(e, z, o.key, x) => "absent" \in P

\* At its call.
LEMMA HistoryBegins ==
    ASSUME LinkedNow, NEW u \in Thread, op[u] \in S!Op, reg[u].node = root
    PROVE  History(u, Linked, ReadOnly(op[u], Keys(Linked)))
    BY DEF LinkedNow, History

\* And as long as it lasts.
LEMMA HistoryGrows ==
    ASSUME NEW g, Good(g), LinkInv, LinkedNow', Leaves,
           NEW u \in Thread, pc[u] # "idle", pc'[u] # "idle", NEW X, NEW P, History(u, X, P),
           NEW Y, Y = X \cup Linked', NEW Q, Q = P \cup ReadOnly(op[u], Keys(Linked)')
    PROVE  History(u, Y, Q)'
<1>1. PICK o : o = op[u]
    OBVIOUS
<1>2. op'[u] = o /\ o \in S!Op /\ Follows(u, reg'[u].node)
    BY <1>1 DEF Leaves, History
<1>3. X \subseteq alloc /\ X \subseteq Shown /\ X \subseteq Shown' \ {NULL}
    BY DEF Leaves, History, Shown
<1>4. ASSUME NEW x \in X \ Linked' PROVE \A f \in Field : link'[f][x] = link[f][x]
    <2>1. x \in alloc' /\ \A w \in Thread : Adding(w)' => x # New(w)'
        BY <1>3 DEF Shown
    <2>2. marked'[x]
        BY <2>1, <1>4, LinkedPartsAfter
    <2> QED
        BY <1>3, <2>2 DEF Leaves
<1>5. Y \subseteq Shown' \ {NULL} /\ Linked' \subseteq Y
    BY <1>3 DEF LinkedNow
<1>6. reg'[u].node \in Y
    BY <1>2 DEF Follows, History, LinkedNow
<1>7. ReadOnly(o, Keys(Linked)') \subseteq Q
    BY <1>1
<1>8. ASSUME NEW x \in Y, NEW e \in Side, link'[e][x] # NULL PROVE link'[e][x] \in Y
    <2>1. CASE x \in Linked'
        BY <1>8, <2>1 DEF LinkedNow
    <2>2. CASE x \notin Linked'
        BY <1>4, <1>8, <2>2, Fields DEF History
    <2> QED
        BY <2>1, <2>2
<1>9. o.type # "remove" => \A x \in Y : value[x] = o.key => "present" \in Q
    BY <1>1, <1>2 DEF History, LinkedNow
<1>10. ASSUME o.type # "add", NEW x \in Y \ Linked', value[x] = o.key PROVE "absent" \in Q
    <2>1. CASE x \notin Linked
        BY <1>1, <1>10, <2>1 DEF History
    <2>2. CASE x \in Linked
        <3>1. \A y \in Linked' : value[y] # o.key
            BY <1>10, <2>2, OneValue DEF Leaves
        <3>2. "absent" \in ReadOnly(o, Keys(Linked)')
            BY <1>2, <1>10, <3>1 DEF LinkedNow
        <3> QED
            BY <1>1, <3>2
    <2> QED
        BY <2>1, <2>2
<1>11. ASSUME o.type # "add", NEW x \in Y, NEW e \in Side,
              NEW z, z = link'[SnapshotField(e)][x], z # NULL, Between(e, z, o.key, x)
       PROVE  "absent" \in Q
    <2>1. CASE x \in Linked'
        BY <1>1, <1>2, <1>11, <2>1 DEF LinkedNow
    <2>2. CASE x \notin Linked'
        <3>1. z = link[SnapshotField(e)][x] /\ x \in X
            BY <1>4, <1>11, <2>2, Fields
        <3> QED
            BY <1>1, <1>11, <3>1 DEF History
    <2> QED
        BY <2>1, <2>2
<1> QED
    BY <1>2, <1>5, <1>6, <1>7, <1>8, <1>9, <1>10, <1>11 DEF History

-----------------------------------------------------------------------------
(* What a step is to the observer *)

\* A remove that has taken its node from the tree.
Done(u) == Removing(u) /\ ~Cutting(u)

\* Thread u goes on as before, or is still idle.
Keeps(u) ==
    /\ (pc[u] = "idle" <=> pc'[u] = "idle") /\ op'[u] = op[u] /\ (Done(u)' <=> Done(u))

\* A step of t keeps what the observer sees, cuts a node, or returns.
Visible(t) ==
    \/ Keeps(t) /\ Linked' = Linked
    \/ /\ DoStore(t) /\ Cuts(t) /\ ~Done(t) /\ Done(t)' /\ op'[t] = op[t]
       /\ pc[t] # "idle" /\ pc'[t] # "idle"
    \/ /\ DoStore(t) /\ Adding(t) /\ Len(todo[t]) = 1 /\ ~Done(t) /\ result'[t] = "absent"
       /\ pc[t] # "idle" /\ pc'[t] = "idle"
    \/ /\ Done(t) /\ result'[t] = "present" /\ Linked' = Linked
       /\ pc[t] # "idle" /\ pc'[t] = "idle"
    \/ /\ Finishes(t) /\ ~Done(t) /\ Linked' = Linked
       /\ pc[t] # "idle" /\ pc'[t] = "idle"

\* Steps that change no memory: only a return is seen.
LEMMA StillVisible ==
    ASSUME NEW g, Good(g), LinkInv, NEW t \in Thread, Still(t), Onward(t) \/ Finishes(t)
    PROVE  (\A u \in Thread \ {t} : Keeps(u)) /\ Visible(t)
<1>1. Others(t) /\ UNCHANGED <<heap, todo>> /\ pc[t] \notin {"idle", "store"} /\ pc'[t] # "store"
    BY DEF Still
<1>2. Linked' = Linked
    BY <1>1, QuietLinks
<1>3. link' = link /\ \A u \in Thread \ {t} : pc'[u] = pc[u] /\ op'[u] = op[u] /\ reg'[u] = reg[u]
    BY <1>1 DEF Others, heap
<1>4. \A u \in Thread \ {t} : Keeps(u)
    BY <1>3 DEF Keeps, Done, Removing, Cutting
<1>5. ~Done(t) /\ ~Done(t)'
    BY <1>1 DEF Done, Removing
<1>6. CASE Onward(t)
    <2>1. pc'[t] # "idle" /\ op'[t] = op[t]
        BY <1>6 DEF Onward
    <2> QED
        BY <1>1, <1>2, <1>4, <1>5, <2>1 DEF Visible, Keeps
<1>7. CASE Finishes(t)
    <2>1. pc'[t] = "idle"
        BY <1>7, Ended DEF Good
    <2> QED
        BY <1>1, <1>2, <1>4, <1>5, <1>7, <2>1 DEF Visible
<1> QED
    BY <1>6, <1>7

\* The construction of a node is not seen.
LEMMA MakesVisible ==
    ASSUME NEW g, Good(g), LinkInv, NEW t \in Thread, Makes(t)
    PROVE  (\A u \in Thread \ {t} : Keeps(u)) /\ Visible(t)
<1>1. PICK e \in Side : \E a, m : Placing(g, t, e, reg[t].node, a, m)
    BY PlacingEffect DEF Makes
<1>2. PICK a, m : Placing(g, t, e, reg[t].node, a, m)
    BY <1>1
<1>3. /\ \A u \in Thread : u # t => Removing(u)' = Removing(u)
      /\ \A u \in Thread : Cutting(u)' = Cutting(u)
      /\ ~Removing(t) /\ ~Removing(t)' /\ op' = op
    BY <1>2, PlaceCutting
<1>4. Linked' = Linked
    BY <1>2, PlaceLinked
<1>5. pc[t] = "addSnapshot" /\ pc'[t] = "store" /\ \A u \in Thread \ {t} : pc'[u] = pc[u]
    BY <1>2 DEF Placing
<1> QED
    BY <1>3, <1>4, <1>5 DEF Visible, Keeps, Done

\* A mark is not seen.
LEMMA MarksVisible ==
    ASSUME NEW g, Good(g), LinkInv, NEW t \in Thread, Marks(t)
    PROVE  (\A u \in Thread \ {t} : Keeps(u)) /\ Visible(t)
<1>1. PICK l \in MarkPlaces : \E stores : Mark(t, l, stores) /\ CutReady(t, stores)
    BY MarksReady
<1>2. PICK stores : Mark(t, l, stores)
    BY <1>1
<1>3. /\ \A u \in Thread : u # t => Removing(u)' = Removing(u) /\ Cutting(u)' = Cutting(u)
      /\ Removing(t)' /\ Cutting(t)' /\ ~Removing(t)
    BY <1>2, MarkCutting
<1>4. Linked' = Linked /\ op' = op /\ \A u \in Thread \ {t} : pc'[u] = pc[u]
    BY <1>2, MarkLinked
<1>5. pc[t] # "idle" /\ pc'[t] # "idle"
    BY <1>2, <1>3 DEF Mark, MarkPlaces, Removing
<1> QED
    BY <1>3, <1>4, <1>5 DEF Visible, Keeps, Done

\* A store may cut a node or be the last of a call.
LEMMA StoreVisible ==
    ASSUME NEW g, Good(g), LinkInv, NEW t \in Thread, DoStore(t)
    PROVE  (\A u \in Thread \ {t} : Keeps(u)) /\ Visible(t)
<1>1. /\ \A u \in Thread : Cutting(u)' <=> Cutting(u) /\ ~(u = t /\ Cuts(t))
      /\ \A u \in Thread : Removing(u)' => Removing(u)
    BY StoreCutting
<1>2. /\ \A u \in Thread \ {t} : pc'[u] = pc[u] /\ op'[u] = op[u]
      /\ pc[t] = "store"
      /\ \/ Len(todo[t]) > 1 /\ pc'[t] = pc[t] /\ op'[t] = op[t]
         \/ Len(todo[t]) = 1 /\ pc'[t] = "idle"
    BY StoreEffect
<1>3. \A u \in Thread \ {t} : Keeps(u)
    BY <1>1, <1>2 DEF Keeps, Done, Removing
<1>4. op[t].type \in {"add", "remove"}
    BY <1>2, KnownHere DEF Knows, Calling
<1>5. result' = [result EXCEPT ![t] = IF op[t].type = "add" THEN "absent" ELSE "present"]
      \/ Len(todo[t]) > 1
    BY DEF DoStore, Return
<1>6. CASE Len(todo[t]) > 1
    <2>1. pc'[t] = "store" /\ op'[t] = op[t]
        BY <1>2, <1>6, MoreThanOne
    <2>2. CASE Cuts(t)
        <3>1. Cutting(t) /\ Removing(t)
            BY <2>2 DEF Cuts, Cutting
        <3>2. ~Done(t) /\ Done(t)'
            BY <1>1, <2>1, <2>2, <3>1 DEF Done, Removing
        <3> QED
            BY <1>2, <1>3, <2>1, <2>2, <3>2 DEF Visible
    <2>3. CASE ~Cuts(t)
        <3>1. Linked' = Linked
            BY <1>6, <2>3, StoreLinked, MoreThanOne
        <3>2. Keeps(t)
            BY <1>1, <1>2, <2>1, <2>3 DEF Keeps, Done, Removing
        <3> QED
            BY <1>3, <3>1, <3>2 DEF Visible
    <2> QED
        BY <2>2, <2>3
<1>7. CASE Len(todo[t]) = 1
    <2>1. pc'[t] = "idle" /\ result'[t] = IF op[t].type = "add" THEN "absent" ELSE "present"
        BY <1>2, <1>5, <1>7, MoreThanOne DEF Good, TypeOK
    <2>2. ~Cutting(t) /\ ~Cuts(t)
        <3>1. Cutting(t) => Len(todo[t]) > 1
            BY CuttingNext
        <3> QED
            BY <1>7, <3>1, MoreThanOne DEF Cuts
    <2>3. CASE op[t].type = "add"
        <3>1. Adding(t) /\ ~Done(t)
            BY <1>2, <2>3 DEF Adding, Done, Removing
        <3> QED
            BY <1>2, <1>3, <1>7, <2>1, <2>3, <3>1 DEF Visible
    <2>4. CASE op[t].type = "remove"
        <3>1. Done(t) /\ ~Adding(t)
            BY <1>2, <2>2, <2>4 DEF Adding, Done, Removing
        <3>2. Linked' = Linked
            BY <2>2, <3>1, StoreLinked
        <3> QED
            BY <1>2, <1>3, <2>1, <2>4, <3>1, <3>2 DEF Visible
    <2> QED
        BY <1>4, <2>3, <2>4
<1> QED
    BY <1>2, <1>6, <1>7

\* Every step of a call is of one of these kinds.
LEMMA StepVisible ==
    ASSUME NEW g, Good(g), LinkInv, NEW t \in Thread, Step(t)
    PROVE  (\A u \in Thread \ {t} : Keeps(u)) /\ Visible(t)
    BY StepSorts, StillVisible, MakesVisible, MarksVisible, StoreVisible DEF Good, Onward

-----------------------------------------------------------------------------
(* The set of keys, and the answers *)

\* A call in progress is an operation.
LEMMA CallTypedHere ==
    ASSUME NEW g, Good(g), NEW t \in Thread, pc[t] # "idle"
    PROVE  op[t] \in S!Op
    BY KnownHere DEF Knows, Calling

\* When the node of an add is linked, it takes effect.
LEMMA KeysGrow ==
    ASSUME NEW g, Good(g), LinkInv, NEW t \in Thread, DoStore(t), Adding(t), Len(todo[t]) = 1
    PROVE  Keys(Linked)' = L!After(Keys(Linked), op[t]) /\ L!Reply(Keys(Linked), op[t]) = "absent"
<1>1. op[t] \in S!Op /\ op[t].type = "add"
    BY CallTypedHere DEF Adding
<1>2. PICK k : k = op[t].key
    OBVIOUS
<1>3. PICK x : x = New(t)
    OBVIOUS
<1>4. value[x] = k /\ x \notin {leftSentinel, rightSentinel} /\ x \in Live
    BY <1>2, <1>3, NewNode DEF LinkInv, ThreadKept
<1>5. Linked' = Linked \cup {x} /\ x \in Live \ Linked
    BY <1>3, StoreLinked
<1>6. \A y \in Linked : value[y] # k
    BY <1>4, <1>5, OneValue
<1>7. k \notin Keys(Linked)
    BY <1>1, <1>2, <1>6, InKeys
<1>8. Keys(Linked)' = Keys(Linked) \cup {k}
    BY <1>4, <1>5 DEF Keys
<1> QED
    BY <1>1, <1>2, <1>7, <1>8, Effects

\* When the node of a remove is cut, it takes effect.
LEMMA KeysShrink ==
    ASSUME NEW g, Good(g), LinkInv, NEW t \in Thread, DoStore(t), Cuts(t)
    PROVE  Keys(Linked)' = L!After(Keys(Linked), op[t]) /\ L!Reply(Keys(Linked), op[t]) = "present"
<1>1. Removing(t) /\ op[t].type = "remove" /\ op[t] \in S!Op
    BY CallTypedHere DEF Cuts, Cutting, Removing
<1>2. PICK k : k = op[t].key
    OBVIOUS
<1>3. PICK x : x = reg[t].node
    OBVIOUS
<1>4. value[x] = k
    BY <1>1, <1>2, <1>3 DEF LinkInv, ThreadKept
<1>5. Linked' = Linked \ {x} /\ x \in Linked
    BY <1>3, StoreLinked
<1>6. \A y \in Linked \ {x} : value[y] # k
    BY <1>4, <1>5, OneValue
<1>7. k \in Keys(Linked)
    BY <1>1, <1>2, <1>4, <1>5, InKeys
<1>8. Keys(Linked)' = Keys(Linked) \ {k}
    BY <1>4, <1>5, <1>6 DEF Keys
<1> QED
    BY <1>1, <1>2, <1>7, <1>8, Effects

\* The set of keys is that of the linked nodes.
LEMMA KeysSame == Linked' = Linked => Keys(Linked)' = Keys(Linked)
    BY DEF Keys

\* An answer given on the way is one that was right at some moment of the call, or the
\* call leaks the lock of the parent (main.cpp:245).
LEMMA AnswerKnown ==
    ASSUME NEW g, Good(g), LinkInv, NEW t \in Thread, Finishes(t), leaked'[t] = {},
           NEW X, NEW P, History(t, X, P)
    PROVE  result'[t] \in P
<1>1. PICK n : n = reg[t].node
    OBVIOUS
<1>2. PICK k : k = op[t].key
    OBVIOUS
<1>3. n \in X /\ X \subseteq alloc /\ n \in Node
    BY <1>1, LiveFacts DEF History, Shown
<1>4. /\ result \in [Thread -> S!Answer \cup {"none"}] /\ leaked \in [Thread -> SUBSET Ptr]
      /\ held \in [Thread -> SUBSET Ptr]
    BY DEF Good, TypeOK
<1>5. Calling(pc[t], op[t], reg[t])
    BY KnownHere DEF Knows
<1>6. CASE Found(t)
    <2>1. op[t].type # "remove" /\ value[n] = k /\ result'[t] = "present"
        BY <1>1, <1>2, <1>4, <1>6 DEF Found, Return
    <2> QED
        BY <1>2, <1>3, <2>1 DEF History
<1>7. CASE MissSnapshot(t) /\ ~Outside(n, k, Snapshot(n, k))
    <2>1. PICK e \in Side : e = SideOf(n, k)
        BY DEF Side, SideOf
    <2>2. PICK z : z = link[SnapshotField(e)][n]
        OBVIOUS
    <2>3. z = Snapshot(n, k)
        BY <2>1, <2>2 DEF Snapshot, SideOf, SnapshotField, LeftSnapshot, RightSnapshot
    <2>4. pc[t] = "miss" /\ result'[t] = "absent"
        BY <1>1, <1>2, <1>4, <1>7 DEF MissSnapshot, Return
    <2>5. z # NULL
        BY <1>1, <1>2, <2>3, <2>4, Dereferences DEF NoNullDereference
    <2>6. z \in Node
        <3>1. z \in Ptr
            BY <1>3, <2>3, Dereference DEF Good
        <3> QED
            BY <2>5, <3>1
    <2>7. op[t].type # "add" /\ k # value[n] /\ op[t] \in S!Op
        BY <1>1, <1>2, <1>5, <2>4 DEF Calling
    <2>8. k \in Int /\ value[n] \in Int /\ value[z] \in Int
        BY <1>2, <1>3, <2>6, <2>7, NodeAssumption, Effects
    <2>9. Between(e, z, k, n)
        BY <1>7, <2>1, <2>3, <2>7, <2>8 DEF Between, Outside, SideOf
    <2> QED
        BY <1>2, <1>3, <2>2, <2>4, <2>5, <2>7, <2>9 DEF History
<1>8. CASE RemovedMeanwhile(t)
    <2>1. pc[t] = "lockNode" /\ Free(t, n) /\ marked[n] /\ result'[t] = "absent"
        BY <1>1, <1>4, <1>8 DEF RemovedMeanwhile, Return
    <2>2. op[t].type = "remove" /\ value[n] = k
        BY <1>1, <1>2, <1>5, <2>1 DEF Calling, RemovePlaces
    <2>3. n \notin Linked
        <3> SUFFICES ASSUME n \in Linked PROVE FALSE
            OBVIOUS
        <3>1. PICK u \in Thread : Cutting(u) /\ reg[u].node = n
            BY <2>1, LinkedParts
        <3>2. n \in held[u]
            BY <3>1 DEF LinkInv, ThreadKept, CutKept
        <3>3. u # t
            BY <2>1, <3>1 DEF Cutting, Removing
        <3> QED
            BY <2>1, <3>2, <3>3 DEF Free
    <2> QED
        BY <1>2, <1>3, <2>1, <2>2, <2>3 DEF History
<1>9. CASE Recheck(t) /\ marked[n]
    <2>1. pc[t] = "recheck" /\ leaked'[t] = held[t]
        BY <1>1, <1>4, <1>9 DEF Recheck
    <2>2. reg[t].parent \in held[t]
        BY <2>1, KnownHere, LockedPair
    <2> QED
        BY <2>1, <2>2
<1> QED
    BY <1>1, <1>2, <1>6, <1>7, <1>8, <1>9 DEF Finishes

\* A leaked lock stays so.
LEMMA LeakStays ==
    ASSUME TypeOK, LockInv, [Next]_vars, NEW u \in Thread, leaked'[u] = {}
    PROVE  leaked[u] = {}
<1>1. leaked \in [Thread -> SUBSET Ptr] /\ leaked[u] \subseteq held[u]
    BY DEF TypeOK, LockInv, LocksHeld
<1>2. CASE UNCHANGED vars
    BY <1>2 DEF vars
<1>3. ASSUME NEW t \in Thread, Step(t) \/ \E o \in S!Op : Call(t, o)
      PROVE  leaked' = leaked \/ leaked' = [leaked EXCEPT ![t] = held[t]]
    <2>1. Recheck(t) => leaked' = leaked \/ leaked' = [leaked EXCEPT ![t] = held[t]]
        BY DEF Recheck
    <2>2. /\ \A l, r, n, stale : Lock(t, n, l) \/ TryLock(t, n, stale, l) => leaked' = leaked
          /\ \A l, stores : Mark(t, l, stores) => leaked' = leaked
          /\ \A o : Call(t, o) => leaked' = leaked
        BY DEF Lock, TryLock, Mark, Call
    <2>3. /\ LockChild(t) \/ LockLeft(t) \/ LockRight(t) \/ AddLock(t) \/ LockSnapshot(t)
             \/ LockRightNode(t) \/ LockSuccParent(t) \/ LockSucc(t) \/ LockSuccRightSnapshot(t)
             => leaked' = leaked
          /\ UnlinkLeaf(t) \/ UnlinkOneChild(t) \/ PromoteRight(t) \/ ApplyRemove(t)
             => leaked' = leaked
        BY <2>2 DEF LockChild, LockLeft, LockRight, AddLock, LockSnapshot, LockRightNode,
                    LockSuccParent, LockSucc, LockSuccRightSnapshot,
                    UnlinkLeaf, UnlinkOneChild, PromoteRight, ApplyRemove
    <2>4. Walk(t) \/ Found(t) \/ MissSnapshot(t) \/ AddSnapshot(t) \/ ReadParent(t) \/ LockParent(t)
          \/ RemovedMeanwhile(t) \/ LockNode(t) \/ ReadPred(t) \/ ReadSucc(t) \/ ReadSuccParent(t)
          \/ RecheckSucc(t) \/ LockSuccRight(t) \/ DoStore(t) => leaked' = leaked
        BY DEF Walk, Found, MissSnapshot, AddSnapshot, ReadParent, LockParent, RemovedMeanwhile,
               LockNode, ReadPred, ReadSucc, ReadSuccParent, RecheckSucc, LockSuccRight, DoStore
    <2> QED
        BY <1>3, <2>1, <2>2, <2>3, <2>4 DEF Step
<1>4. CASE Next
    BY <1>1, <1>3, <1>4 DEF Next
<1> QED
    BY <1>2, <1>4

-----------------------------------------------------------------------------
(* What the observer sees *)

\* The observer sees neither a call nor a return.
LEMMA NothingSeen ==
    ASSUME Observe, \A u \in Thread : pc[u] = "idle" <=> pc'[u] = "idle"
    PROVE  lin' = lin
<1>1. /\ {u \in Thread : pc[u] = "idle" /\ pc'[u] # "idle"} = {}
      /\ {u \in Thread : pc[u] # "idle" /\ pc'[u] = "idle"} = {}
    OBVIOUS
<1> QED
    BY <1>1 DEF Observe

\* The observer sees the call of t.
LEMMA CallSeen ==
    ASSUME Observe, NEW t \in Thread, pc[t] = "idle", pc'[t] # "idle",
           \A u \in Thread \ {t} : pc[u] = "idle" <=> pc'[u] = "idle"
    PROVE  lin' = L!Called(lin, t)
<1>1. {u \in Thread : pc[u] = "idle" /\ pc'[u] # "idle"} = {t}
    OBVIOUS
<1>2. (CHOOSE u \in {t} : TRUE) = t
    OBVIOUS
<1> QED
    BY <1>1, <1>2 DEF Observe

\* The observer sees the return of t.
LEMMA ReturnSeen ==
    ASSUME Observe, NEW t \in Thread, pc[t] # "idle", pc'[t] = "idle",
           \A u \in Thread \ {t} : pc[u] = "idle" <=> pc'[u] = "idle"
    PROVE  lin' = L!Returned(lin, op, t, result'[t])
<1>1. /\ {u \in Thread : pc[u] = "idle" /\ pc'[u] # "idle"} = {}
      /\ {u \in Thread : pc[u] # "idle" /\ pc'[u] = "idle"} = {t}
    OBVIOUS
<1>2. (CHOOSE u \in {t} : TRUE) = t
    OBVIOUS
<1> QED
    BY <1>1, <1>2 DEF Observe

-----------------------------------------------------------------------------
(* The accounts that the observer keeps *)

\* What the call of u may have answered, p being what it could have answered without
\* changing anything, and the choices of all threads.
Choice(u, p) ==
    IF pc[u] = "idle" THEN {"idle"} ELSE IF Done(u) THEN {"present"} ELSE {"pending"} \cup p
Choices(poss) == [u \in Thread |-> Choice(u, poss[u])]

\* A thread that goes on as before has at most gained what it could answer now.
LEMMA Gathered ==
    ASSUME NEW u \in Thread, Keeps(u), NEW M, NEW p, NEW q,
           pc[u] # "idle" => q = p \cup ReadOnly(op[u], M)
    PROVE  \A x \in Choice(u, q)' :
               x \in Choice(u, p) \/ ("pending" \in Choice(u, p) /\ x \in ReadOnly(op[u], M))
    BY DEF Keeps, Choice

\* What is recorded of a call that goes on.
Records(poss, new, M) ==
    \A u \in Thread : pc[u] # "idle" /\ pc'[u] # "idle" => new[u] = poss[u] \cup ReadOnly(op[u], M)

\* A step that the observer does not see.
LEMMA UnseenGranted ==
    ASSUME IsFiniteSet(Thread), lin \in SUBSET Proper(op), NEW t \in Thread,
           \A u \in Thread \ {t} : Keeps(u), op' = op, lin' = lin,
           NEW M, NEW poss, NEW new, Records(poss, new, M),
           NEW C, \A u \in Thread \ {t} : C[u] = Choice(u, poss[u]),
           \A x \in Choice(t, new[t])' :
               x \in C[t] \/ ("pending" \in C[t] /\ x \in ReadOnly(op[t], M)),
           Granted(lin, op, M, C)
    PROVE  Granted(lin', op', M, Choices(new)')
<1>1. PICK D : D = [u \in Thread |-> Choice(u, new[u])']
    OBVIOUS
<1>2. ASSUME NEW u \in Thread, NEW x \in D[u]
      PROVE  x \in C[u] \/ ("pending" \in C[u] /\ x \in ReadOnly(op[u], M))
    <2>1. CASE u = t
        BY <1>1, <1>2, <2>1
    <2>2. CASE u # t
        <3>1. Keeps(u) /\ x \in Choice(u, new[u])' /\ C[u] = Choice(u, poss[u])
            BY <1>1, <1>2, <2>2
        <3>2. pc[u] # "idle" => new[u] = poss[u] \cup ReadOnly(op[u], M)
            BY <3>1 DEF Records, Keeps
        <3>3. \A z \in Choice(u, new[u])' :
                  z \in Choice(u, poss[u]) \/ ("pending" \in Choice(u, poss[u]) /\ z \in ReadOnly(op[u], M))
            <4>1. PICK p, q : p = poss[u] /\ q = new[u]
                OBVIOUS
            <4>2. Keeps(u) /\ (pc[u] # "idle" => q = p \cup ReadOnly(op[u], M))
                BY <3>1, <3>2, <4>1
            <4>3. \A z \in Choice(u, q)' :
                      z \in Choice(u, p) \/ ("pending" \in Choice(u, p) /\ z \in ReadOnly(op[u], M))
                BY <4>2, Gathered
            <4> QED
                BY <4>1, <4>3
        <3> QED
            BY <3>1, <3>3
    <2> QED
        BY <2>1, <2>2
<1>3. Granted(lin, op, M, D)
    BY <1>2, Accumulate
<1>4. Choices(new)' = D
    BY <1>1 DEF Choices
<1> QED
    BY <1>3, <1>4

\* One at which t returns.
LEMMA ReturnGranted ==
    ASSUME IsFiniteSet(Thread), lin \in SUBSET Proper(op), NEW t \in Thread,
           \A u \in Thread \ {t} : Keeps(u), pc'[t] = "idle",
           NEW M, NEW poss, NEW new, Records(poss, new, M),
           NEW C, \A u \in Thread \ {t} : C[u] = Choice(u, poss[u]),
           NEW x \in Status, x \in C[t], lin' = L!Returned(lin, op, t, x),
           Granted(lin, op, M, C)
    PROVE  Granted(lin', op', M, Choices(new)')
<1>1. PICK D : D = [u \in Thread |-> IF u = t THEN {x} ELSE Choice(u, new[u])']
    OBVIOUS
<1>2. ASSUME NEW u \in Thread, NEW y \in D[u]
      PROVE  y \in C[u] \/ ("pending" \in C[u] /\ y \in ReadOnly(op[u], M))
    <2>1. CASE u = t
        BY <1>1, <1>2, <2>1
    <2>2. CASE u # t
        <3>1. Keeps(u) /\ y \in Choice(u, new[u])' /\ C[u] = Choice(u, poss[u])
            BY <1>1, <1>2, <2>2
        <3>2. pc[u] # "idle" => new[u] = poss[u] \cup ReadOnly(op[u], M)
            BY <3>1 DEF Records, Keeps
        <3>3. \A z \in Choice(u, new[u])' :
                  z \in Choice(u, poss[u]) \/ ("pending" \in Choice(u, poss[u]) /\ z \in ReadOnly(op[u], M))
            <4>1. PICK p, q : p = poss[u] /\ q = new[u]
                OBVIOUS
            <4>2. Keeps(u) /\ (pc[u] # "idle" => q = p \cup ReadOnly(op[u], M))
                BY <3>1, <3>2, <4>1
            <4>3. \A z \in Choice(u, q)' :
                      z \in Choice(u, p) \/ ("pending" \in Choice(u, p) /\ z \in ReadOnly(op[u], M))
                BY <4>2, Gathered
            <4> QED
                BY <4>1, <4>3
        <3> QED
            BY <3>1, <3>3
    <2> QED
        BY <2>1, <2>2
<1>3. Granted(lin, op, M, D)
    BY <1>2, Accumulate
<1>4. PICK E : E = Choices(new)'
    OBVIOUS
<1>5. \A u \in Thread \ {t} : E[u] \subseteq D[u]
    BY <1>1, <1>4 DEF Choices
<1>6. E[t] \subseteq {"idle"}
    BY <1>4 DEF Choices, Choice
<1>7. x \in D[t]
    BY <1>1
<1>8. \A u \in Thread \ {t} : op'[u] = op[u]
    BY DEF Keeps
<1>9. Granted(L!Returned(lin, op, t, x), op', M, E)
    BY <1>3, <1>5, <1>6, <1>7, <1>8, Answered
<1> QED
    BY <1>4, <1>9

\* One at which t calls.
LEMMA CallGranted ==
    ASSUME IsFiniteSet(Thread), lin \in SUBSET Proper(op), NEW t \in Thread,
           \A u \in Thread \ {t} : Keeps(u), pc[t] = "idle", pc'[t] = "walk", op'[t] \in S!Op,
           NEW M, NEW poss, NEW new, Records(poss, new, M), new[t] = ReadOnly(op'[t], M),
           lin' = L!Called(lin, t), Granted(lin, op, M, Choices(poss))
    PROVE  Granted(lin', op', M, Choices(new)')
<1>1. PICK C : C = [u \in Thread |-> IF u = t THEN {"pending"} ELSE Choice(u, poss[u])]
    OBVIOUS
<1>2. PICK B : B = Choices(poss)
    OBVIOUS
<1>3. /\ "idle" \in B[t] /\ C[t] \subseteq {"pending"}
      /\ \A u \in Thread \ {t} : C[u] \subseteq B[u]
    BY <1>1, <1>2 DEF Choices, Choice
<1>4. \A u \in Thread \ {t} : op'[u] = op[u]
    BY DEF Keeps
<1>5. Granted(lin, op, M, B)
    BY <1>2
<1>6. Granted(lin', op', M, C)
    BY <1>3, <1>4, <1>5, CallsCommute
<1>7. lin' \in SUBSET Proper(op')
    BY <1>4, CalledProper
<1>8. PICK D : D = [u \in Thread |-> Choice(u, new[u])']
    OBVIOUS
<1>9. ASSUME NEW u \in Thread, NEW x \in D[u]
      PROVE  x \in C[u] \/ ("pending" \in C[u] /\ x \in ReadOnly(op'[u], M))
    <2>1. CASE u = t
        <3>1. x \in Choice(t, new[t])' /\ "pending" \in C[t] /\ C[t] = {"pending"}
            BY <1>1, <1>8, <1>9, <2>1
        <3>2. x \in {"pending"} \cup new[t]
            BY <3>1 DEF Choice, Done, Removing
        <3> QED
            BY <2>1, <3>1, <3>2
    <2>2. CASE u # t
        <3>1. /\ Keeps(u) /\ x \in Choice(u, new[u])' /\ C[u] = Choice(u, poss[u])
              /\ op'[u] = op[u]
            BY <1>1, <1>4, <1>8, <1>9, <2>2
        <3>2. pc[u] # "idle" => new[u] = poss[u] \cup ReadOnly(op[u], M)
            BY <3>1 DEF Records, Keeps
        <3>3. x \in Choice(u, poss[u])
              \/ ("pending" \in Choice(u, poss[u]) /\ x \in ReadOnly(op[u], M))
            BY <3>1, <3>2, Gathered
        <3> QED
            BY <3>1, <3>3
    <2> QED
        BY <2>1, <2>2
<1>10. Granted(lin', op', M, D)
    BY <1>6, <1>7, <1>9, Accumulate
<1>11. Choices(new)' = D
    BY <1>8 DEF Choices
<1> QED
    BY <1>10, <1>11

\* Every step of a call.
LEMMA StepGranted ==
    ASSUME IsFiniteSet(Thread), lin \in SUBSET Proper(op), NEW g, Good(g), TypeOK', LinkInv,
           NEW t \in Thread, Step(t), Observe,
           NEW M, M = Keys(Linked)', NEW poss, NEW new, Records(poss, new, M),
           Finishes(t) => result'[t] \in poss[t],
           Granted(lin, op, Keys(Linked), Choices(poss))
    PROVE  Granted(lin', op', M, Choices(new)')
<1>1. (\A u \in Thread \ {t} : Keeps(u)) /\ Visible(t)
    BY StepVisible
<1>2. \A u \in Thread \ {t} : (pc[u] = "idle" <=> pc'[u] = "idle") /\ op'[u] = op[u]
    BY <1>1 DEF Keeps
<1>3. PICK C : C = Choices(poss)
    OBVIOUS
<1>4. \A u \in Thread : C[u] = Choice(u, poss[u])
    BY <1>3 DEF Choices
<1>5. PICK N : N = Keys(Linked)
    OBVIOUS
<1>6. Granted(lin, op, N, C)
    BY <1>3, <1>5
<1>7. op \in [Thread -> S!Op \cup {NoOp}] /\ op' \in [Thread -> S!Op \cup {NoOp}]
      /\ result' \in [Thread -> S!Answer \cup {"none"}]
    BY DEF Good, TypeOK
<1>8. Linked' = Linked => M = N
    BY <1>5, KeysSame
<1>9. pc[t] # "idle" /\ ~Done(t) => "pending" \in C[t] /\ C[t] = {"pending"} \cup poss[t]
    BY <1>4 DEF Choice
<1>10. "present" \in Status /\ "absent" \in Status
    BY DEF Status, S!Answer
<1>11. CASE Keeps(t) /\ Linked' = Linked
    <2>1. op' = op
        BY <1>2, <1>7, <1>11 DEF Keeps
    <2>2. lin' = lin
        BY <1>2, <1>11, NothingSeen DEF Keeps
    <2>3. pc[t] # "idle" => new[t] = poss[t] \cup ReadOnly(op[t], M)
        BY <1>11 DEF Records, Keeps
    <2>4. \A x \in Choice(t, new[t])' :
             x \in C[t] \/ ("pending" \in C[t] /\ x \in ReadOnly(op[t], M))
        <3>1. PICK p, q : p = poss[t] /\ q = new[t] /\ C[t] = Choice(t, p)
            BY <1>4
        <3>2. \A x \in Choice(t, q)' :
                 x \in Choice(t, p) \/ ("pending" \in Choice(t, p) /\ x \in ReadOnly(op[t], M))
            BY <1>11, <2>3, <3>1, Gathered
        <3> QED
            BY <3>1, <3>2
    <2>5. Granted(lin, op, M, C)
        BY <1>6, <1>8, <1>11
    <2> QED
        BY <1>1, <1>4, <2>1, <2>2, <2>4, <2>5, UnseenGranted
<1>12. CASE /\ DoStore(t) /\ Cuts(t) /\ ~Done(t) /\ Done(t)' /\ op'[t] = op[t]
            /\ pc[t] # "idle" /\ pc'[t] # "idle"
    <2>1. op' = op
        BY <1>2, <1>7, <1>12
    <2>2. lin' = lin
        BY <1>2, <1>12, NothingSeen
    <2>3. M = L!After(N, op[t]) /\ L!Reply(N, op[t]) = "present"
        BY <1>5, <1>12, KeysShrink
    <2>4. PICK D : D = [u \in Thread |-> IF u = t THEN {"present"} ELSE C[u]]
        OBVIOUS
    <2>5. \A u \in Thread \ {t} : D[u] \subseteq C[u] /\ D[u] = Choice(u, poss[u])
        BY <1>4, <2>4
    <2>6. D[t] = {"present"}
        BY <2>4
    <2>7. Granted(lin, op, M, D)
        BY <1>6, <1>9, <1>12, <2>3, <2>5, <2>6, Applied
    <2>8. \A x \in Choice(t, new[t])' : x \in D[t]
        BY <1>12, <2>6 DEF Choice
    <2> QED
        BY <1>1, <2>1, <2>2, <2>5, <2>7, <2>8, UnseenGranted
<1>13. CASE /\ DoStore(t) /\ Adding(t) /\ Len(todo[t]) = 1 /\ ~Done(t) /\ result'[t] = "absent"
            /\ pc[t] # "idle" /\ pc'[t] = "idle"
    <2>1. lin' = L!Returned(lin, op, t, "absent")
        BY <1>2, <1>13, ReturnSeen
    <2>2. M = L!After(N, op[t]) /\ L!Reply(N, op[t]) = "absent"
        BY <1>5, <1>13, KeysGrow
    <2>3. PICK D : D = [u \in Thread |-> IF u = t THEN {"absent"} ELSE C[u]]
        OBVIOUS
    <2>4. \A u \in Thread \ {t} : D[u] \subseteq C[u] /\ D[u] = Choice(u, poss[u])
        BY <1>4, <2>3
    <2>5. D[t] = {"absent"}
        BY <2>3
    <2>6. Granted(lin, op, M, D)
        BY <1>6, <1>9, <1>13, <2>2, <2>4, <2>5, Applied
    <2> QED
        BY <1>1, <1>10, <1>13, <2>1, <2>4, <2>5, <2>6, ReturnGranted
<1>14. CASE /\ Done(t) /\ result'[t] = "present" /\ Linked' = Linked
            /\ pc[t] # "idle" /\ pc'[t] = "idle"
    <2>1. lin' = L!Returned(lin, op, t, "present")
        BY <1>2, <1>14, ReturnSeen
    <2>2. "present" \in C[t]
        BY <1>4, <1>14 DEF Choice
    <2>3. Granted(lin, op, M, C)
        BY <1>6, <1>8, <1>14
    <2> QED
        BY <1>1, <1>4, <1>10, <1>14, <2>1, <2>2, <2>3, ReturnGranted
<1>15. CASE /\ Finishes(t) /\ ~Done(t) /\ Linked' = Linked
            /\ pc[t] # "idle" /\ pc'[t] = "idle"
    <2>1. PICK x : x = result'[t]
        OBVIOUS
    <2>2. lin' = L!Returned(lin, op, t, x)
        BY <1>2, <1>15, <2>1, ReturnSeen
    <2>3. x \in C[t]
        BY <1>9, <1>15, <2>1
    <2>4. x \in Status
        <3>1. result'[t] \in S!Answer
            BY <1>7, <1>15 DEF Finishes, Found, RemovedMeanwhile, MissSnapshot, Recheck, Return, S!Answer,
                               Good, TypeOK
        <3> QED
            BY <2>1, <3>1 DEF Status
    <2>5. Granted(lin, op, M, C)
        BY <1>6, <1>8, <1>15
    <2> QED
        BY <1>1, <1>4, <1>15, <2>2, <2>3, <2>4, <2>5, ReturnGranted
<1> QED
    BY <1>1, <1>11, <1>12, <1>13, <1>14, <1>15 DEF Visible

-----------------------------------------------------------------------------
(* The invariant *)

\* Between the calls and returns of a program that has leaked no lock, the observer
\* keeps every account in which the keys are those of the linked nodes, and each call
\* in progress has had any of the effects that its history allows.
Accounted(since, poss) ==
    /\ poss \in [Thread -> SUBSET S!Answer]
    /\ \A u \in Thread : pc[u] # "idle" => History(u, since[u], poss[u])
    /\ (\A t \in Thread : leaked[t] = {}) => Granted(lin, op, Keys(Linked), Choices(poss))

LinearInv ==
    /\ InOrder /\ LinkInv /\ IdleOp /\ PopulationOK /\ lin \in SUBSET Proper(op)
    /\ \E since, poss : Accounted(since, poss)

\* An answer is one.
LEMMA ReadsAnswer == \A o, M : ReadOnly(o, M) \subseteq S!Answer
    BY DEF ReadOnly, L!Reply, S!Answer

\* The histories after a step or a call.
Grown(since, poss, s, p, M) ==
    \A u \in Thread :
        /\ pc[u] # "idle" => s[u] = since[u] \cup Linked' /\ p[u] = poss[u] \cup ReadOnly(op[u], M)
        /\ pc[u] = "idle" => s[u] = Linked' /\ p[u] = ReadOnly(op'[u], M)

\* There are such histories.
LEMMA Grow ==
    ASSUME NEW since, NEW poss, Accounted(since, poss), NEW M
    PROVE  \E s, p : Grown(since, poss, s, p, M) /\ p \in [Thread -> SUBSET S!Answer]
<1>1. PICK s : s = [u \in Thread |-> IF pc[u] = "idle" THEN Linked' ELSE since[u] \cup Linked']
    OBVIOUS
<1>2. PICK p : p = [u \in Thread |-> IF pc[u] = "idle" THEN ReadOnly(op'[u], M)
                                     ELSE poss[u] \cup ReadOnly(op[u], M)]
    OBVIOUS
<1>3. Grown(since, poss, s, p, M)
    BY <1>1, <1>2 DEF Grown
<1>4. \A u \in Thread : poss[u] \in SUBSET S!Answer
    BY DEF Accounted
<1>5. p \in [Thread -> SUBSET S!Answer]
    BY <1>2, <1>4, ReadsAnswer
<1> QED
    BY <1>3, <1>5

\* They are histories of the calls that are in progress after the step.
LEMMA HistoriesGrow ==
    ASSUME NEW g, Good(g), LinkInv, LinkedNow', Leaves, NEW since, NEW poss, Accounted(since, poss),
           NEW M, M = Keys(Linked)', NEW s, NEW p, Grown(since, poss, s, p, M),
           NEW u \in Thread, pc[u] # "idle", pc'[u] # "idle"
    PROVE  History(u, s[u], p[u])'
<1>1. History(u, since[u], poss[u])
    BY DEF Accounted
<1>2. s[u] = since[u] \cup Linked' /\ p[u] = poss[u] \cup ReadOnly(op[u], Keys(Linked)')
    BY DEF Grown
<1> QED
    BY <1>1, <1>2, HistoryGrows

\* A step of a call keeps the observer's accounts.
LEMMA StepAccounted ==
    ASSUME IsFiniteSet(Thread), lin \in SUBSET Proper(op), NEW g, Good(g), TypeOK', LinkInv, LinkedNow',
           NEW t \in Thread, Step(t), Observe, NEW since, NEW poss, Accounted(since, poss)
    PROVE  \E s, p : Accounted(s, p)'
<1>1. PICK M : M = Keys(Linked)'
    OBVIOUS
<1>2. PICK s, p : Grown(since, poss, s, p, M) /\ p \in [Thread -> SUBSET S!Answer]
    BY Grow
<1>3. Leaves /\ (\A u \in Thread \ {t} : Keeps(u)) /\ Visible(t)
    BY StepLeaves, StepVisible
<1>4. ASSUME NEW u \in Thread, pc'[u] # "idle"
      PROVE  History(u, s[u], p[u])'
    <2>1. pc[u] # "idle"
        BY <1>3, <1>4 DEF Keeps, Visible
    <2> QED
        BY <1>1, <1>2, <1>3, <1>4, <2>1, HistoriesGrow, SMTT(30)
<1>5. ASSUME \A u \in Thread : leaked'[u] = {}
      PROVE  Granted(lin', op', M, Choices(p)')
    <2>1. \A u \in Thread : leaked[u] = {}
        <3>1. [Next]_vars
            BY DEF Next
        <3> QED
            BY <1>5, <3>1, LeakStays DEF Good
    <2>2. Granted(lin, op, Keys(Linked), Choices(poss))
        BY <2>1 DEF Accounted
    <2>3. Records(poss, p, M)
        BY <1>2 DEF Records, Grown
    <2>4. ASSUME Finishes(t) PROVE result'[t] \in poss[t]
        <3>1. pc[t] # "idle"
            BY <2>4 DEF Finishes, Found, RemovedMeanwhile, MissSnapshot, Recheck
        <3>2. History(t, since[t], poss[t])
            BY <3>1 DEF Accounted
        <3> QED
            BY <1>5, <2>4, <3>2, AnswerKnown
    <2> QED
        BY <1>1, <2>2, <2>3, <2>4, StepGranted
<1>6. Accounted(s, p)'
    BY <1>1, <1>2, <1>4, <1>5 DEF Accounted
<1> QED
    BY <1>6

\* A call leaves everything but its thread alone.
LEMMA CallLeaves ==
    ASSUME NEW g, Good(g), LinkInv, NEW t \in Thread, NEW o \in S!Op, Call(t, o)
    PROVE  /\ Leaves /\ Linked' = Linked /\ \A u \in Thread \ {t} : Keeps(u)
           /\ pc[t] = "idle" /\ pc'[t] = "walk" /\ op'[t] = o /\ reg'[t].node = root
           /\ leaked' = leaked
<1>1. /\ pc \in [Thread -> Location] /\ reg \in [Thread -> Locals]
      /\ op \in [Thread -> S!Op \cup {NoOp}]
    BY DEF Good, TypeOK
<1>2. /\ pc[t] = "idle" /\ pc'[t] = "walk" /\ op'[t] = o /\ link' = link /\ alloc' = alloc
      /\ todo' = todo /\ leaked' = leaked /\ reg'[t] = AtRoot
      /\ \A u \in Thread \ {t} : pc'[u] = pc[u] /\ op'[u] = op[u] /\ reg'[u] = reg[u]
    BY <1>1 DEF Call, Goto, heap
<1>3. reg'[t].node = root
    BY <1>2 DEF AtRoot, Blank
<1>4. Linked' = Linked
    BY CallLinks
<1>5. \A u \in Thread \ {t} : Keeps(u)
    BY <1>2 DEF Keeps, Done, Removing, Cutting
<1>6. Shown \subseteq Shown'
    BY <1>2, ShownMore DEF Adding, New
<1>7. Leaves
    BY <1>2, <1>4, <1>6 DEF Leaves, Follows
<1> QED
    BY <1>2, <1>3, <1>4, <1>5, <1>7

\* A call keeps the observer's accounts.
LEMMA CallAccounted ==
    ASSUME IsFiniteSet(Thread), lin \in SUBSET Proper(op), NEW g, Good(g), TypeOK', LinkInv, LinkedNow',
           NEW t \in Thread, NEW o \in S!Op, Call(t, o), Observe,
           NEW since, NEW poss, Accounted(since, poss)
    PROVE  \E s, p : Accounted(s, p)'
<1>1. PICK M : M = Keys(Linked)'
    OBVIOUS
<1>2. PICK s, p : Grown(since, poss, s, p, M) /\ p \in [Thread -> SUBSET S!Answer]
    BY Grow
<1>3. /\ Leaves /\ Linked' = Linked /\ \A u \in Thread \ {t} : Keeps(u)
      /\ pc[t] = "idle" /\ pc'[t] = "walk" /\ op'[t] = o /\ reg'[t].node = root
      /\ leaked' = leaked
    BY CallLeaves
<1>4. ASSUME NEW u \in Thread, pc'[u] # "idle"
      PROVE  History(u, s[u], p[u])'
    <2>1. CASE u # t
        <3>1. pc[u] # "idle"
            BY <1>3, <1>4, <2>1 DEF Keeps
        <3> QED
            BY <1>1, <1>2, <1>3, <1>4, <3>1, HistoriesGrow
    <2>2. CASE u = t
        <3>1. s[t] = Linked' /\ p[t] = ReadOnly(op'[t], M)
            BY <1>2, <1>3 DEF Grown
        <3> QED
            BY <1>1, <1>3, <2>2, <3>1 DEF History, LinkedNow
    <2> QED
        BY <2>1, <2>2
<1>5. ASSUME \A u \in Thread : leaked'[u] = {}
      PROVE  Granted(lin', op', M, Choices(p)')
    <2>1. Granted(lin, op, Keys(Linked), Choices(poss))
        BY <1>3, <1>5 DEF Accounted
    <2>2. Records(poss, p, M) /\ p[t] = ReadOnly(op'[t], M)
        BY <1>2, <1>3 DEF Records, Grown
    <2>3. lin' = L!Called(lin, t)
        <3>1. \A u \in Thread \ {t} : pc[u] = "idle" <=> pc'[u] = "idle"
            BY <1>3 DEF Keeps
        <3> QED
            BY <1>3, <3>1, CallSeen
    <2>4. M = Keys(Linked)
        BY <1>1, <1>3, KeysSame
    <2>5. Granted(lin, op, M, Choices(poss))
        BY <2>1, <2>4
    <2> QED
        BY <1>3, <2>2, <2>3, <2>5, CallGranted
<1>6. Accounted(s, p)'
    BY <1>1, <1>2, <1>4, <1>5 DEF Accounted
<1> QED
    BY <1>6

\* The program's other steps.
LEMMA IdleAccounted ==
    ASSUME UNCHANGED vars, lin' = lin, NEW since, NEW poss, Accounted(since, poss)
    PROVE  Accounted(since, poss)'
<1>1. Linked' = Linked
    BY DEF vars, Linked, Adding, New, Cutting, Removing
<1>2. Shown' = Shown
    BY DEF vars, Shown, Adding, New
<1>3. \A u : \A p : Choice(u, p)' = Choice(u, p)
    BY DEF vars, Choice, Done, Cutting, Removing
<1>4. Choices(poss)' = Choices(poss)
    BY <1>3 DEF Choices
<1>5. \A u \in Thread : History(u, since[u], poss[u])' <=> History(u, since[u], poss[u])
    BY <1>1, <1>2 DEF vars, History, Keys
<1> QED
    BY <1>1, <1>4, <1>5, KeysSame DEF vars, Accounted

\* The observer's accounts stay accounts of the calls in progress.
LEMMA AccountsProper ==
    ASSUME IsFiniteSet(Thread), lin \in SUBSET Proper(op), NEW g, Good(g), TypeOK', LinkInv,
           Observe, NEW t \in Thread, Step(t) \/ \E o \in S!Op : Call(t, o)
    PROVE  lin' \in SUBSET Proper(op')
<1>1. op \in [Thread -> S!Op \cup {NoOp}] /\ op' \in [Thread -> S!Op \cup {NoOp}]
    BY DEF Good, TypeOK
<1>2. \A u \in Thread \ {t} : Keeps(u)
    BY StepVisible, CallLeaves
<1>3. \A u \in Thread \ {t} : (pc[u] = "idle" <=> pc'[u] = "idle") /\ op'[u] = op[u]
    BY <1>2 DEF Keeps
<1>4. CASE pc[t] = "idle" /\ pc'[t] # "idle"
    <2>1. lin' = L!Called(lin, t)
        BY <1>3, <1>4, CallSeen
    <2>2. op'[t] \in S!Op
        <3>1. Step(t) => Visible(t)
            BY StepVisible
        <3>2. ~Step(t)
            BY <1>4, <3>1 DEF Visible, Keeps
        <3> QED
            BY <3>2, CallLeaves
    <2> QED
        BY <1>3, <2>1, <2>2, CalledProper
<1>5. CASE pc[t] # "idle" /\ pc'[t] = "idle"
    BY <1>3, <1>5, ReturnSeen, ReturnedProper
<1>6. CASE pc[t] = "idle" <=> pc'[t] = "idle"
    <2>1. lin' = lin
        BY <1>3, <1>6, NothingSeen
    <2>2. op'[t] = op[t]
        <3>1. Step(t) => Visible(t)
            BY StepVisible
        <3>2. Step(t)
            BY <1>6, CallLeaves
        <3> QED
            BY <1>6, <3>1, <3>2 DEF Visible, Keeps
    <2>3. op' = op
        BY <1>1, <1>3, <2>2
    <2> QED
        BY <2>1, <2>3
<1> QED
    BY <1>4, <1>5, <1>6

\* Every step of the program keeps the invariant.
LEMMA LinearNext ==
    ASSUME IsFiniteSet(Thread), LinearInv, [LinNext]_<<testVars, lin>>
    PROVE  LinearInv'
<1>1. [TestNext]_testVars /\ (Observe \/ UNCHANGED <<vars, lin>>)
    BY DEF LinNext, testVars
<1>2. PICK g : Good(g)
    BY DEF LinearInv, InOrder
<1>3. PopulationOK' /\ [Next]_vars
    BY <1>1, StaysTyped, TestStep DEF LinearInv
<1>4. InOrder' /\ IdleOp'
    BY <1>3, NextHeap, IdleKept DEF LinearInv
<1>5. TypeOK'
    BY <1>2, <1>3, NextTyped DEF Good
<1>6. LinkInv'
    BY <1>2, <1>3, StepLinks, CallLinks, IdleLinks DEF LinearInv, Next
<1>7. LinkedNow'
    BY <1>4, <1>6, NextLinked
<1>8. PICK since, poss : Accounted(since, poss)
    BY DEF LinearInv
<1>9. CASE UNCHANGED vars
    <2>1. lin' = lin
        BY <1>1, <1>9, NothingSeen DEF vars
    <2>2. \E s, p : Accounted(s, p)'
        BY <1>8, <1>9, <2>1, IdleAccounted
    <2>3. lin' \in SUBSET Proper(op')
        BY <1>9, <2>1 DEF LinearInv, vars
    <2> QED
        BY <1>3, <1>4, <1>6, <2>2, <2>3 DEF LinearInv
<1>10. CASE Next /\ ~UNCHANGED vars
    <2>1. Observe
        BY <1>1, <1>10 DEF vars
    <2>2. PICK t \in Thread : Step(t) \/ \E o \in S!Op : Call(t, o)
        BY <1>10 DEF Next
    <2>3. \E s, p : Accounted(s, p)'
        BY <1>2, <1>5, <1>7, <1>8, <2>1, <2>2, StepAccounted, CallAccounted DEF LinearInv
    <2>4. lin' \in SUBSET Proper(op')
        BY <1>2, <1>5, <2>1, <2>2, AccountsProper DEF LinearInv
    <2> QED
        BY <1>3, <1>4, <1>6, <2>3, <2>4 DEF LinearInv
<1> QED
    BY <1>3, <1>9, <1>10

\* It holds at first.
LEMMA LinearInit ==
    ASSUME IsFiniteSet(Thread), LinInit
    PROVE  LinearInv
<1>1. Init /\ PopulationOK /\ lin = L!Empty
    BY StartsTyped DEF LinInit, TestInit
<1>2. PICK g : Good(g)
    BY <1>1, InitHeap
<1>3. LinkInv /\ Linked = {leftSentinel, rightSentinel}
    BY <1>1, <1>2, LinksAtFirst
<1>4. /\ \A t \in Thread : pc[t] = "idle" /\ op[t] = NoOp
    BY <1>1 DEF Init
<1>5. PICK a : a = [set |-> {}, st |-> [t \in Thread |-> "idle"]]
    OBVIOUS
<1>6. lin = {a}
    BY <1>1, <1>5 DEF L!Empty
<1>7. lin \in SUBSET Proper(op)
    BY <1>5, <1>6 DEF Proper, Waiting, L!Account
<1>8. Keys(Linked) = {}
    BY <1>3 DEF Keys
<1>9. PICK poss : poss = [t \in Thread |-> {}]
    OBVIOUS
<1>10. Granted(lin, op, Keys(Linked), Choices(poss))
    <2> SUFFICES ASSUME NEW c \in [Thread -> Status],
                        \A t \in Thread : c[t] \in Choices(poss)[t]
                 PROVE  Account({}, c) \in L!Closure(lin, op)
        BY <1>8 DEF Granted
    <2>1. \A t \in Thread : c[t] = "idle"
        BY <1>4 DEF Choices, Choice
    <2>2. c = [t \in Thread |-> "idle"]
        BY <2>1
    <2>3. Account({}, c) = a
        BY <1>5, <2>2 DEF Account
    <2> QED
        BY <1>6, <1>7, <2>3, ClosureTyped
<1>11. Accounted(poss, poss)
    BY <1>4, <1>9, <1>10 DEF Accounted
<1> QED
    BY <1>1, <1>2, <1>3, <1>4, <1>7, <1>11 DEF LinearInv, InOrder, IdleOp

\* Hence it always holds.
LEMMA LinearAlways ==
    ASSUME IsFiniteSet(Thread)
    PROVE  LinSpec => []LinearInv
<1>1. LinInit => LinearInv
    BY LinearInit
<1>2. LinearInv /\ [LinNext]_<<testVars, lin>> => LinearInv'
    BY LinearNext
<1> QED
    BY <1>1, <1>2, PTL DEF LinSpec

\* As long as no call has left a lock behind, the answers of add, remove and contains are
\* those of operations that took effect one at a time, each between its call and its
\* return, for any threads, keys, nodes and lists of operations (main.cpp:107-537).
THEOREM ProgramLinearizable ==
    ASSUME IsFiniteSet(Thread)
    PROVE  LinSpec => []((\A t \in Thread : leaked[t] = {}) => Linearizable)
<1>1. LinearInv => ((\A t \in Thread : leaked[t] = {}) => Linearizable)
    <2> SUFFICES ASSUME LinearInv, \A t \in Thread : leaked[t] = {}
                 PROVE  Linearizable
        OBVIOUS
    <2>1. PICK since, poss : Accounted(since, poss)
        BY DEF LinearInv
    <2>2. PICK C : C = Choices(poss)
        OBVIOUS
    <2>3. \A t \in Thread : C[t] \subseteq Status /\ C[t] # {}
        <3>1. \A t \in Thread : poss[t] \subseteq S!Answer
            BY <2>1 DEF Accounted
        <3> QED
            BY <2>2, <3>1 DEF Choices, Choice, Status, S!Answer
    <2>4. Granted(lin, op, Keys(Linked), C)
        BY <2>1, <2>2 DEF Accounted
    <2> QED
        BY <2>3, <2>4, AccountLeft DEF LinearInv, Linearizable
<1> QED
    BY <1>1, LinearAlways, PTL

-----------------------------------------------------------------------------
(* When no call is in progress *)

\* The linked nodes are then the live ones.
LEMMA QuietLinked ==
    ASSUME NEW g, Good(g), \A t \in Thread : pc[t] = "idle"
    PROVE  Settled /\ Linked = Live
<1>1. Settled
    BY DEF Good, LockInv, Settled
<1>2. \A t \in Thread : ~Adding(t) /\ ~Cutting(t)
    BY DEF Adding, Cutting, Removing
<1> QED
    BY <1>1, <1>2 DEF Linked, Live

\* A search finds the keys of the tree, and no other (main.cpp:115-131).
LEMMA QuietFound ==
    ASSUME NEW g, Good(g), Settled, IsFiniteSet(Node), Keys(Live) \subseteq Key
    PROVE  Keys(Live) = {k \in Key : Find(k) # NULL}
<1>1. /\ NULL \notin Live /\ Key \subseteq Int
      /\ \A k \in Key : k # value[leftSentinel] /\ k # value[rightSentinel]
    BY LiveFacts, NodeAssumption
<1>2. ASSUME NEW x \in Live \ {leftSentinel, rightSentinel}
      PROVE  value[x] \in Key /\ Find(value[x]) # NULL
    <2>1. Find(value[x]) = x
        BY SearchFinds
    <2>2. value[x] \in Keys(Live)
        BY DEF Keys
    <2> QED
        BY <1>1, <2>1, <2>2
<1>3. ASSUME NEW k \in Key, Find(k) # NULL
      PROVE  k \in Keys(Live)
    <2>1. PICK x : x = Find(k)
        OBVIOUS
    <2>2. x \in Live /\ value[x] = k
        BY <1>1, <1>3, <2>1, SearchEnds
    <2>3. x \notin {leftSentinel, rightSentinel}
        BY <1>1, <2>2
    <2> QED
        BY <2>2, <2>3 DEF Keys
<1> QED
    BY <1>2, <1>3 DEF Keys

\* No call waits in an account of the observer.
LEMMA QuietAccounts ==
    ASSUME NEW A \in SUBSET Proper(op), \A t \in Thread : op[t] = NoOp, NEW a \in A
    PROVE  Waiting(a) = {}
<1>1. NoOp \notin S!Op
    BY DEF NoOp, S!Op, S!OpType
<1> QED
    BY <1>1 DEF Proper, Waiting

\* As long as no call has left a lock behind, the tree holds exactly the keys that the
\* operations leave in some account of their answers, whenever none is in progress: no
\* key is lost and none comes back (main.cpp:107-537).
THEOREM ProgramContents ==
    ASSUME IsFiniteSet(Thread), IsFiniteSet(Node)
    PROVE  LinSpec => []((\A t \in Thread : leaked[t] = {}) => QuiescentContents)
<1>1. LinearInv => ((\A t \in Thread : leaked[t] = {}) => QuiescentContents)
    <2> SUFFICES ASSUME LinearInv, \A t \in Thread : leaked[t] = {} /\ pc[t] = "idle"
                 PROVE  \E a \in lin : a.set = {k \in Key : Find(k) # NULL}
        BY DEF QuiescentContents
    <2>1. PICK g : Good(g)
        BY DEF LinearInv, InOrder
    <2>2. PICK since, poss : Accounted(since, poss)
        BY DEF LinearInv
    <2>3. Settled /\ Linked = Live
        BY <2>1, QuietLinked
    <2>4. Granted(lin, op, Keys(Live), Choices(poss))
        <3>1. PICK M, C : M = Keys(Live) /\ C = Choices(poss)
            OBVIOUS
        <3>2. Keys(Linked) = M
            BY <2>3, <3>1
        <3> QED
            BY <2>2, <3>1, <3>2 DEF Accounted
    <2>5. PICK st : st = [t \in Thread |-> "idle"]
        OBVIOUS
    <2>6. Account(Keys(Live), st) \in L!Closure(lin, op)
        <3>1. st \in [Thread -> Status] /\ \A t \in Thread : st[t] \in Choices(poss)[t]
            BY <2>5 DEF Status, Choices, Choice
        <3> QED
            BY <2>4, <3>1 DEF Granted
    <2>7. lin \in SUBSET Proper(op) /\ \A a \in lin : Waiting(a) = {}
        BY QuietAccounts DEF LinearInv, IdleOp
    <2>8. L!Closure(lin, op) = lin
        BY <2>7, ClosureQuiet
    <2>9. PICK a : a = Account(Keys(Live), st)
        OBVIOUS
    <2>10. a \in lin /\ a.set = Keys(Live)
        BY <2>6, <2>8, <2>9 DEF Account
    <2>11. Keys(Live) \subseteq Key
        BY <2>7, <2>10 DEF Proper, L!Account
    <2>12. Keys(Live) = {k \in Key : Find(k) # NULL}
        BY <2>1, <2>3, <2>11, QuietFound
    <2> QED
        BY <2>10, <2>12
<1> QED
    BY <1>1, LinearAlways, PTL
=============================================================================
