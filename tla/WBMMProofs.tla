----------------------------- MODULE WBMMProofs -----------------------------
(* Theorems about the allocator of WBMM.tla and the transactions of           *)
(* WBMMClient.tla, for any threads, blocks, pools and transactions.           *)
EXTENDS WBMMClient, SequenceTheorems, FiniteSetTheorems, WellFoundedInduction, TLAPS

-----------------------------------------------------------------------------
(* Sequences as sets, and the least of a set *)

LEMMA Least ==
    ASSUME NEW S \in SUBSET Nat, S # {}
    PROVE  Min(S) \in S /\ \A n \in S : Min(S) <= n
<1>1. \E x \in S : \A y \in S : ~(<<y, x>> \in OpToRel(<, Nat))
    BY NatLessThanWellFounded, WFMin
<1>2. PICK x \in S : \A y \in S : ~(<<y, x>> \in OpToRel(<, Nat))
    BY <1>1
<1>3. \A y \in S : ~(y < x)
    BY <1>2 DEF OpToRel
<1>4. \A y \in S : x <= y
    BY <1>3
<1> QED
    BY <1>4 DEF Min

LEMMA Member ==
    ASSUME NEW S, NEW s \in Seq(S)
    PROVE  /\ ToSet(s) \subseteq S
           /\ \A x : x \in ToSet(s) <=> \E i \in 1 .. Len(s) : s[i] = x
BY DEF ToSet

LEMMA EmptySet == ToSet(<< >>) = {}
BY DEF ToSet

LEMMA AppendMember ==
    ASSUME NEW S, NEW s \in Seq(S), NEW e \in S
    PROVE  ToSet(Append(s, e)) = ToSet(s) \cup {e}
<1> DEFINE r == Append(s, e)
<1>1. /\ r \in Seq(S) /\ Len(r) = Len(s) + 1 /\ Len(s) \in Nat
      /\ r[Len(s) + 1] = e /\ \A i \in 1 .. Len(s) : r[i] = s[i]
    OBVIOUS
<1> HIDE DEF r
<1>2. ASSUME NEW x \in ToSet(r) PROVE x \in ToSet(s) \cup {e}
    <2>1. PICK i \in 1 .. Len(r) : r[i] = x
        BY <1>1, Member
    <2> QED
        BY <1>1, <2>1, Member
<1>3. ASSUME NEW x \in ToSet(s) \cup {e} PROVE x \in ToSet(r)
    <2>1. CASE x = e
        BY <1>1, <2>1, Member
    <2>2. CASE x \in ToSet(s)
        <3>1. PICK i \in 1 .. Len(s) : s[i] = x
            BY <2>2, Member
        <3> QED
            BY <1>1, <3>1, Member
    <2> QED
        BY <2>1, <2>2
<1> QED
    BY <1>2, <1>3 DEF r

LEMMA TailMember ==
    ASSUME NEW S, NEW s \in Seq(S), s # << >>
    PROVE  /\ Tail(s) \in Seq(S) /\ Head(s) \in S
           /\ ToSet(s) = ToSet(Tail(s)) \cup {Head(s)}
<1> DEFINE r == Tail(s)
<1>1. /\ r \in Seq(S) /\ Len(r) = Len(s) - 1 /\ Len(s) \in Nat \ {0} /\ Head(s) = s[1]
      /\ Head(s) \in S /\ \A i \in 1 .. Len(r) : r[i] = s[i + 1]
    BY HeadTailProperties, EmptySeq
<1> HIDE DEF r
<1>2. ASSUME NEW x \in ToSet(r) \cup {Head(s)} PROVE x \in ToSet(s)
    <2>1. CASE x = Head(s)
        BY <1>1, <2>1, Member
    <2>2. CASE x \in ToSet(r)
        <3>1. PICK i \in 1 .. Len(r) : r[i] = x
            BY <1>1, <2>2, Member
        <3>2. s[i + 1] = x /\ i + 1 \in 1 .. Len(s)
            BY <1>1, <3>1
        <3> QED
            BY <3>2, Member
    <2> QED
        BY <2>1, <2>2
<1>3. ASSUME NEW x \in ToSet(s) PROVE x \in ToSet(r) \cup {Head(s)}
    <2>1. PICK i \in 1 .. Len(s) : s[i] = x
        BY Member
    <2>2. CASE i = 1
        BY <1>1, <2>1, <2>2
    <2>3. CASE i # 1
        <3>1. i - 1 \in 1 .. Len(r) /\ r[i - 1] = x
            BY <1>1, <2>1, <2>3
        <3> QED
            BY <1>1, <3>1, Member
    <2> QED
        BY <2>2, <2>3
<1> QED
    BY <1>1, <1>2, <1>3 DEF r

Distinct(s) == \A i, j \in DOMAIN s : s[i] = s[j] => i = j

LEMMA TailDistinct ==
    ASSUME NEW S, NEW s \in Seq(S), s # << >>, Distinct(s)
    PROVE  Distinct(Tail(s)) /\ Head(s) \notin ToSet(Tail(s))
<1> DEFINE r == Tail(s)
<1>1. /\ r \in Seq(S) /\ Len(r) = Len(s) - 1 /\ Len(s) \in Nat \ {0} /\ Head(s) = s[1]
      /\ \A i \in 1 .. Len(r) : r[i] = s[i + 1]
    BY HeadTailProperties, EmptySeq
<1> HIDE DEF r
<1>2. /\ DOMAIN s = 1 .. Len(s) /\ DOMAIN r = 1 .. Len(r)
      /\ \A i \in 1 .. Len(r) : i + 1 \in DOMAIN s /\ r[i] = s[i + 1]
    BY <1>1
<1>3. Distinct(r)
    BY <1>1, <1>2 DEF Distinct
<1>4. \A i \in 1 .. Len(r) : r[i] # s[1]
    <2> TAKE i \in 1 .. Len(r)
    <2>1. i + 1 # 1 /\ i + 1 \in DOMAIN s /\ 1 \in DOMAIN s /\ r[i] = s[i + 1]
        BY <1>1, <1>2
    <2> QED
        BY <2>1 DEF Distinct
<1>5. Head(s) \notin ToSet(r)
    BY <1>1, <1>4, Member
<1> QED
    BY <1>3, <1>5 DEF r

LEMMA AppendDistinct ==
    ASSUME NEW S, NEW s \in Seq(S), NEW e \in S, Distinct(s), e \notin ToSet(s)
    PROVE  Distinct(Append(s, e))
<1> DEFINE r == Append(s, e)
<1>1. /\ r \in Seq(S) /\ Len(r) = Len(s) + 1 /\ Len(s) \in Nat
      /\ r[Len(s) + 1] = e /\ \A i \in 1 .. Len(s) : r[i] = s[i]
      /\ DOMAIN s = 1 .. Len(s) /\ DOMAIN r = 1 .. Len(r)
    OBVIOUS
<1>2. \A i \in 1 .. Len(s) : s[i] # e
    BY Member
<1> HIDE DEF r
<1>3. Distinct(r)
    BY <1>1, <1>2 DEF Distinct
<1> QED
    BY <1>3 DEF r
-----------------------------------------------------------------------------
(* The inductive invariant *)

Stamped == [pool : Seq(Block), ts : Seq(Nat)]

Types ==
    /\ threadcount \in 0 .. Threads /\ used \in 0 .. Blocks /\ alone \in 0 .. Threads
    /\ trans_nums \in [Thread -> Nat] /\ my_ts \in [Thread -> Nat]
    /\ allocs \in [Thread -> SUBSET Block] /\ held \in [Thread -> SUBSET Block]
    /\ frees \in [Thread -> Seq(Block)] /\ prelimbo \in [Thread -> Seq(Block)]
    /\ length \in [Thread -> Nat] /\ ts \in [Thread -> Seq(Nat)]
    /\ limbo \in [Thread -> Seq(Stamped)]
    /\ freed \in [Block -> Nat] /\ slot \in Block \cup {NULL}
    /\ pc \in [Thread -> {"new", "out", "live", "commit"}]
    /\ seen \in [Thread -> Block \cup {NULL, Unread}]
    /\ mine \in [Thread -> Block \cup {NULL}] /\ wrote \in [Thread -> BOOLEAN]

\* How far memory may be behind a thread's epoch, wherever it is.
Lag ==
    \A t \in Thread :
        /\ trans_nums[t] <= my_ts[t] /\ my_ts[t] <= trans_nums[t] + 2
        /\ Inside(t) => my_ts[t] <= trans_nums[t] + 1
        /\ pc[t] = "new" => my_ts[t] = trans_nums[t]

Sizes ==
    \A t \in Thread :
        /\ Len(prelimbo[t]) <= POOL_SIZE
        /\ Len(ts[t]) <= length[t] /\ length[t] <= threadcount
        /\ \A i \in DOMAIN limbo[t] : Len(limbo[t][i].pool) = POOL_SIZE

\* What a thread has depends on where it is.
Places ==
    /\ \A t \in Thread :
        /\ pc[t] = "new" <=> t > threadcount
        /\ pc[t] # "commit" => ~Stamping(t)
        /\ ~Stamping(t) => length[t] = 0 /\ ts[t] = << >>
        /\ pc[t] # "live" => seen[t] = Unread /\ mine[t] = NULL /\ held[t] = {} /\ ~wrote[t]
        /\ ~Inside(t) => allocs[t] = {} /\ frees[t] = << >>
    /\ alone # 0 => pc[alone] = "live" /\ \A u \in Thread : u # alone => ~Inside(u)

\* A block that was not allocated yet is nowhere.
Numbered ==
    /\ slot # NULL => slot <= used
    /\ \A b \in Block : freed[b] > 0 => b <= used
    /\ \A t \in Thread :
        /\ \A b \in allocs[t] \cup ToSet(frees[t]) \cup Pooled(t) : b <= used
        /\ seen[t] \in Block => seen[t] <= used
        /\ \A u \in Thread : u # t => allocs[t] \cap allocs[u] = {}

\* What a running transaction has read, allocated and freed.
Log(t) ==
    /\ seen[t] = Unread => mine[t] = NULL /\ ~wrote[t]
    /\ seen[t] # Unread /\ ~wrote[t] => mine[t] = seen[t]
    /\ ~wrote[t] => allocs[t] = {} /\ frees[t] = << >>
    /\ held[t] \subseteq {mine[t]} \ {NULL}
    /\ mine[t] \in allocs[t] \cup {seen[t], NULL}
    /\ allocs[t] \subseteq ToSet(frees[t]) \cup {mine[t]}
    /\ ToSet(frees[t]) \subseteq allocs[t] \cup {seen[t]}
    /\ seen[t] \in Block => seen[t] \in ToSet(frees[t]) \cup {mine[t]}
    /\ mine[t] \notin ToSet(frees[t])
    /\ Distinct(frees[t])
    /\ alone = t /\ seen[t] # Unread => mine[t] = slot

Logs == \A t \in Thread : pc[t] = "live" => Log(t)

\* Its writes and frees may still be undone.
Speculative(t) == pc[t] = "live" /\ alone # t

\* The blocks it allocated are its own.
Private ==
    \A t \in Thread :
        Speculative(t) =>
            \A b \in allocs[t] :
                /\ freed[b] = 0 /\ b # slot
                /\ \A u \in Thread : b \notin Doomed(u) /\ b # seen[u]

Final(t) == pc[t] = "commit" \/ alone = t

\* A block waits to be freed in one place.
Waiting ==
    \A t \in Thread :
        /\ \A b \in Doomed(t) :
              /\ freed[b] = 0 /\ b # slot
              /\ \A u \in Thread : u # t => b \notin Doomed(u)
        /\ Final(t) => Distinct(frees[t]) /\ ToSet(frees[t]) \cap Pooled(t) = {}
        /\ \A i \in DOMAIN limbo[t] :
              /\ ToSet(prelimbo[t]) \cap ToSet(limbo[t][i].pool) = {}
              /\ \A j \in DOMAIN limbo[t] :
                    i # j => ToSet(limbo[t][i].pool) \cap ToSet(limbo[t][j].pool) = {}

\* No block is lost.
Kept ==
    \A b \in 1 .. used :
        \/ freed[b] > 0 \/ slot = b
        \/ \E t \in Thread : b \in Doomed(t)
        \/ \E t \in Thread : Speculative(t) /\ b \in allocs[t]

\* While u has hold of a block that t is to free, every stamp of t since then shows
\* the epoch that u is still in.
Shows(stamp, u) == u \in DOMAIN stamp /\ stamp[u] = trans_nums[u]

Stuck ==
    \A t, u \in Thread :
        u # t =>
            /\ \A j \in DOMAIN limbo[t] :
                  ToSet(limbo[t][j].pool) \cap held[u] # {} =>
                      \A i \in 1 .. j : Shows(limbo[t][i].ts, u)
            /\ Stamping(t) /\ Pooled(t) \cap held[u] # {} =>
                  /\ u <= length[t]
                  /\ u \in DOMAIN ts[t] => ts[t][u] = trans_nums[u]

\* What is in use was not freed.
Safe ==
    /\ slot # NULL => freed[slot] = 0
    /\ \A t \in Thread : \A b \in held[t] : freed[b] = 0
Once == \A b \in Block : freed[b] <= 1

Told == EpochsTell /\ Numbered /\ Logs /\ Private /\ Waiting /\ Kept /\ Stuck /\ Safe /\ Once

WBMMInv == Types /\ Lag /\ Sizes /\ Places /\ (told => Told)

-----------------------------------------------------------------------------
(* What becomes of the limbo list *)

\* A sweep puts the new pool in front and frees the pools from the m-th on, the first
\* of which the new one dominates.
SweepKeeps(t, m) ==
    /\ limbo' = [limbo EXCEPT ![t] = limbo'[t]] /\ limbo'[t] \in Seq(Stamped)
    /\ Len(limbo'[t]) = m
    /\ limbo'[t][1] = [pool |-> prelimbo[t], ts |-> ts[t]]
    /\ \A i \in 2 .. m : limbo'[t][i] = limbo[t][i - 1]

SweepFrees(t, m) ==
    /\ Free(UNION {ToSet(limbo[t][j].pool) : j \in m .. Len(limbo[t])})
    /\ m <= Len(limbo[t]) => is_strictly_older(ts[t], limbo[t][m].ts)

LEMMA SweepEffect ==
    ASSUME Types, NEW t \in Thread, Sweep(t)
    PROVE  \E m \in 1 .. Len(limbo[t]) + 1 : SweepKeeps(t, m) /\ SweepFrees(t, m)
<1> DEFINE new == [pool |-> prelimbo[t], ts |-> ts[t]]
           n == Len(limbo[t])
           pools == <<new>> \o limbo[t]
           older == {j \in 2 .. Len(pools) : is_strictly_older(pools[1].ts, pools[j].ts)}
           ended == Dominated(pools)
           kept == SubSeq(pools, 1, Len(pools) - Cardinality(ended))
<1>1. new \in Stamped /\ limbo[t] \in Seq(Stamped) /\ n \in Nat
    <2>1. prelimbo[t] \in Seq(Block) /\ ts[t] \in Seq(Nat) /\ limbo[t] \in Seq(Stamped)
        BY DEF Types
    <2> QED
        BY <2>1 DEF Stamped
<1>2. /\ pools \in Seq(Stamped) /\ Len(pools) = n + 1 /\ pools[1] = new
      /\ \A i \in 2 .. n + 1 : pools[i] = limbo[t][i - 1]
    BY <1>1
<1>3. /\ Free(UNION {ToSet(pools[j].pool) : j \in ended})
      /\ limbo' = [limbo EXCEPT ![t] = kept]
    BY DEF Sweep
<1>4. limbo'[t] = kept
    BY <1>3 DEF Types
<1> HIDE DEF new, n, pools
<1>5. CASE older = {}
    <2>1. ended = {}
        BY <1>5 DEF Dominated
    <2>2. kept = pools
        BY <1>2, <2>1, FS_EmptySet
    <2>3. Len(limbo'[t]) = n + 1 /\ limbo'[t][1] = new /\ limbo'[t] \in Seq(Stamped)
          /\ \A i \in 2 .. n + 1 : limbo'[t][i] = limbo[t][i - 1]
        BY <1>2, <1>4, <2>2
    <2>4. SweepKeeps(t, n + 1)
        BY <1>3, <1>4, <2>3 DEF SweepKeeps, new
    <2>5. (n + 1) .. n = {} /\ ~(n + 1 <= n)
        BY <1>1
    <2>6. UNION {ToSet(pools[j].pool) : j \in ended}
              = UNION {ToSet(limbo[t][j].pool) : j \in (n + 1) .. n}
        BY <2>1, <2>5
    <2>7. SweepFrees(t, n + 1)
        BY <1>3, <2>5, <2>6 DEF SweepFrees, n
    <2> QED
        BY <1>1, <2>4, <2>7 DEF n
<1>6. CASE older # {}
    <2> DEFINE m == Min(older) - 1
    <2>1. Min(older) \in older /\ older \subseteq 2 .. n + 1
        <3>1. older \subseteq 2 .. n + 1 /\ older \in SUBSET Nat
            BY <1>1, <1>2
        <3> HIDE DEF older
        <3> QED
            BY <1>6, <3>1, Least
    <2>2. m \in 1 .. n /\ is_strictly_older(pools[1].ts, pools[m + 1].ts) /\ Min(older) = m + 1
        BY <1>1, <2>1
    <2>3. ended = m + 1 .. n + 1
        BY <1>2, <1>6, <2>2 DEF Dominated
    <2> HIDE DEF m, older, ended
    <2>4. Cardinality(ended) = n + 1 - m
        BY <1>1, <2>2, <2>3, FS_Interval
    <2>5. Len(pools) - Cardinality(ended) = m
        BY <1>1, <1>2, <2>2, <2>4
    <2>6. kept = SubSeq(pools, 1, m)
        BY <2>5
    <2>7. \A i \in 1 .. m : pools[i] \in Stamped
        BY <1>1, <1>2, <2>2
    <2>8. kept \in Seq(Stamped) /\ Len(kept) = m /\ \A i \in 1 .. m : kept[i] = pools[i]
        <3> DEFINE cut == SubSeq(pools, 1, m)
        <3>1. m \in Int /\ 1 \in Int /\ 1 <= m /\ m - 1 + 1 = m
            BY <1>1, <2>2
        <3>2. /\ cut \in Seq(Stamped) /\ Len(cut) = m
              /\ \A i \in 1 .. m : cut[i] = pools[1 + i - 1]
            BY <2>7, <3>1, SubSeqProperties
        <3> HIDE DEF cut
        <3>3. \A i \in 1 .. m : 1 + i - 1 = i
            BY <3>1
        <3> QED
            BY <2>6, <3>2, <3>3 DEF cut
    <2>9. SweepKeeps(t, m)
        <3>1. kept[1] = new /\ \A i \in 2 .. m : kept[i] = limbo[t][i - 1]
            BY <1>1, <1>2, <2>2, <2>8
        <3> QED
            BY <1>3, <1>4, <2>8, <3>1 DEF SweepKeeps, new
    <2>10. UNION {ToSet(pools[j].pool) : j \in ended}
              = UNION {ToSet(limbo[t][j].pool) : j \in m .. n}
        <3>1. \A j \in ended : j - 1 \in m .. n /\ pools[j] = limbo[t][j - 1]
            BY <1>1, <1>2, <2>2, <2>3
        <3>2. \A j \in m .. n : j + 1 \in ended /\ pools[j + 1] = limbo[t][j]
            BY <1>1, <1>2, <2>2, <2>3
        <3> QED
            BY <3>1, <3>2
    <2>11. pools[1].ts = ts[t] /\ pools[m + 1] = limbo[t][m]
        BY <1>1, <1>2, <2>2 DEF new
    <2>12. SweepFrees(t, m)
        BY <1>3, <2>2, <2>10, <2>11 DEF SweepFrees, n
    <2> QED
        BY <1>1, <2>2, <2>9, <2>12 DEF n
<1> QED
    BY <1>5, <1>6

-----------------------------------------------------------------------------
(* Types and places *)

LEMMA TypesInit == ClientInit => Types /\ Lag /\ Sizes /\ Places
<1> SUFFICES ASSUME ClientInit PROVE Types /\ Lag /\ Sizes /\ Places
    OBVIOUS
<1> USE WBMMAssumption, ClientAssumption DEF ClientInit, WBMMInit
<1>1. Types
    BY DEF Types, Block, Thread, Stamped
<1>2. Lag
    BY DEF Lag, Inside
<1>3. Sizes
    BY DEF Sizes
<1>4. Places
    BY DEF Places, Stamping, Inside, Thread
<1> QED
    BY <1>1, <1>2, <1>3, <1>4

LEMMA FreeTyped ==
    ASSUME Types, NEW B, Free(B)
    PROVE  freed' \in [Block -> Nat]
BY DEF Types, Free

\* What undoing a transaction changes keeps its type.
Undone ==
    /\ freed \in [Block -> Nat] /\ frees \in [Thread -> Seq(Block)]
    /\ allocs \in [Thread -> SUBSET Block] /\ my_ts \in [Thread -> Nat]
    /\ seen \in [Thread -> Block \cup {NULL, Unread}] /\ held \in [Thread -> SUBSET Block]
    /\ mine \in [Thread -> Block \cup {NULL}] /\ wrote \in [Thread -> BOOLEAN]

LEMMA UndoneTyped ==
    ASSUME Types, NEW t \in Thread, onTxAbort(t), Forget(t)
    PROVE  Undone'
<1>1. freed' \in [Block -> Nat] /\ << >> \in Seq(Block)
    BY FreeTyped, EmptySeq DEF onTxAbort
<1>2. frees' \in [Thread -> Seq(Block)] /\ allocs' \in [Thread -> SUBSET Block]
    BY <1>1 DEF onTxAbort, Types
<1>3. my_ts' \in [Thread -> Nat]
    BY DEF onTxAbort, NextEpoch, Types
<1>4. /\ seen' \in [Thread -> Block \cup {NULL, Unread}] /\ held' \in [Thread -> SUBSET Block]
      /\ mine' \in [Thread -> Block \cup {NULL}] /\ wrote' \in [Thread -> BOOLEAN]
    BY DEF Forget, Types
<1> QED
    BY <1>1, <1>2, <1>3, <1>4 DEF Undone

LEMMA TypesStep == ASSUME Types, Sizes, NEW t \in Thread, Step(t) PROVE Types'
<1> USE WBMMAssumption
<1>0. t \in 0 .. Threads /\ 0 \in 0 .. Threads /\ t \in Nat /\ 0 .. Threads \subseteq Nat
    BY DEF Thread
<1>1. CASE Register(t)
    BY <1>0, <1>1 DEF Register, Types, lists, Goto
<1>2. CASE Begin(t)
    BY <1>2 DEF Begin, onTxBegin, NextEpoch, Types, lists, Goto
<1>3. CASE Read(t)
    BY <1>3 DEF Read, Types, wbmmVars, epochs, lists
<1>4. CASE Link(t)
    <2>1. used + 1 \in Block /\ used' \in 0 .. Blocks
        BY <1>4 DEF Link, txAlloc, Types, Block
    <2> QED
        BY <1>4, <2>1 DEF Link, txAlloc, Store, Types, epochs
<1>5. CASE Unlink(t)
    <2>1. mine[t] \in Block
        BY <1>5 DEF Unlink, Types
    <2>2. Append(frees[t], mine[t]) \in Seq(Block)
        BY <2>1 DEF Types
    <2>3. \/ frees' = [frees EXCEPT ![t] = Append(frees[t], mine[t])] /\ freed' = freed
          \/ frees' = frees /\ Free({mine[t]})
        BY <1>5 DEF Unlink, txFree
    <2>4. frees \in [Thread -> Seq(Block)] /\ freed \in [Block -> Nat]
        BY DEF Types
    <2>5. freed' \in [Block -> Nat]
        BY <2>3, <2>4, FreeTyped
    <2>6. frees' \in [Thread -> Seq(Block)]
        BY <2>2, <2>3, <2>4
    <2> QED
        BY <1>5, <2>1, <2>5, <2>6 DEF Unlink, Store, Types, epochs
<1>6. CASE Commit(t)
    BY <1>0, <1>6 DEF Commit, Forget, Goto, Types, wbmmVars, epochs, lists
<1>7. CASE Replay(t)
    <2>1. CASE schedForReclaim(t)
        <3>1. Tail(frees[t]) \in Seq(Block) /\ Append(prelimbo[t], Head(frees[t])) \in Seq(Block)
            BY <2>1, TailMember DEF schedForReclaim, Types
        <3>2. length' \in [Thread -> Nat]
            BY <1>0, <2>1 DEF schedForReclaim, Types
        <3> QED
            BY <1>7, <2>1, <3>1, <3>2 DEF Replay, schedForReclaim, Types, clientVars, epochs
    <2>2. CASE ReadEpoch(t)
        <3> DEFINE i == Len(ts[t]) + 1
                   e == IF i = t THEN my_ts[t] ELSE trans_nums[i]
        <3>1. ts' = [ts EXCEPT ![t] = Append(@, e)]
            BY <2>2 DEF ReadEpoch
        <3>2. i \in Thread
            <4>1. Len(ts[t]) \in Nat /\ length[t] \in Nat /\ Len(ts[t]) < length[t]
                BY <2>2 DEF ReadEpoch, Types
            <4>2. length[t] <= threadcount /\ threadcount \in 0 .. Threads
                BY DEF Sizes, Types
            <4> QED
                BY <4>1, <4>2 DEF Thread
        <3>3. e \in Nat
            BY <3>2 DEF Types
        <3>4. Append(ts[t], e) \in Seq(Nat)
            BY <3>3 DEF Types
        <3> HIDE DEF e
        <3> QED
            BY <1>7, <2>2, <3>1, <3>4 DEF Replay, ReadEpoch, Types, clientVars, epochs
    <2>3. CASE Sweep(t)
        <3>1. freed' \in [Block -> Nat]
            BY <2>3, FreeTyped DEF Sweep
        <3>2. limbo' \in [Thread -> Seq(Stamped)]
            BY <2>3, SweepEffect DEF SweepKeeps, Types
        <3>3. << >> \in Seq(Block) /\ << >> \in Seq(Nat)
            BY EmptySeq
        <3> QED
            BY <1>7, <2>3, <3>1, <3>2, <3>3 DEF Replay, Sweep, Types, clientVars, epochs
    <2> QED
        BY <1>7, <2>1, <2>2, <2>3 DEF Replay
<1>8. CASE CommitEnds(t)
    BY <1>8 DEF CommitEnds, Committed, NextEpoch, Goto, Types
<1>9. CASE Abort(t)
    <2>1. Undone'
        BY <1>9, UndoneTyped DEF Abort
    <2>2. pc' \in [Thread -> {"new", "out", "live", "commit"}]
        BY <1>9 DEF Abort, Goto, Types
    <2> QED
        BY <1>9, <2>1, <2>2 DEF Abort, onTxAbort, Undone, Types
<1>10. CASE Become(t)
    BY <1>0, <1>10 DEF Become, Types, wbmmVars, epochs, lists
<1>11. CASE Restart(t)
    <2>1. Undone'
        BY <1>11, UndoneTyped DEF Restart
    <2>2. alone' \in 0 .. Threads
        BY <1>0, <1>11 DEF Restart
    <2> QED
        BY <1>11, <2>1, <2>2 DEF Restart, onTxAbort, Undone, Types
<1>12. CASE Drain(t) /\ UNCHANGED clientVars
    BY <1>12 DEF Drain, Types, clientVars, lists
<1> QED
    BY <1>1, <1>2, <1>3, <1>4, <1>5, <1>6, <1>7, <1>8, <1>9, <1>10, <1>11, <1>12 DEF Step

LEMMA LagStep == ASSUME Types, Lag, NEW t \in Thread, Step(t) PROVE Lag'
<1>0. /\ trans_nums \in [Thread -> Nat] /\ my_ts \in [Thread -> Nat]
      /\ pc \in [Thread -> {"new", "out", "live", "commit"}]
    BY DEF Types
<1> USE <1>0 DEF Lag, Inside
<1>1. CASE Register(t)
    BY <1>1 DEF Register, Goto
<1>2. CASE Begin(t)
    BY <1>2 DEF Begin, onTxBegin, NextEpoch, Goto, Drained
<1>3. CASE Read(t) \/ Link(t) \/ Unlink(t) \/ Replay(t) \/ Become(t)
    <2>1. UNCHANGED <<trans_nums, my_ts, pc>>
        BY <1>3 DEF Read, Link, Unlink, Replay, Become, wbmmVars, epochs, clientVars,
                    schedForReclaim, ReadEpoch, Sweep
    <2> QED
        BY <2>1
<1>4. CASE Commit(t)
    BY <1>4 DEF Commit, Goto, wbmmVars, epochs
<1>5. CASE CommitEnds(t)
    BY <1>5 DEF CommitEnds, Committed, NextEpoch, Goto
<1>6. CASE Abort(t)
    BY <1>6 DEF Abort, onTxAbort, NextEpoch, Goto
<1>7. CASE Restart(t)
    BY <1>7 DEF Restart, onTxAbort, NextEpoch, Drained
<1>8. CASE Drain(t) /\ UNCHANGED clientVars
    BY <1>8 DEF Drain, Drained, clientVars
<1> QED
    BY <1>1, <1>2, <1>3, <1>4, <1>5, <1>6, <1>7, <1>8 DEF Step

\* What only a commit touches.
Reclaiming == <<prelimbo, length, ts, limbo>>

LEMMA SizesStep == ASSUME Types, Sizes, Places, NEW t \in Thread, Step(t) PROVE Sizes'
<1>1. CASE Register(t)
    <2>1. UNCHANGED lists /\ threadcount' = threadcount + 1 /\ threadcount \in Nat
        BY <1>1 DEF Register, Types
    <2>2. length \in [Thread -> Nat]
        BY DEF Types
    <2> QED
        BY <2>1, <2>2 DEF Sizes, lists
<1>2. CASE UNCHANGED <<Reclaiming, threadcount>>
    BY <1>2 DEF Sizes, Reclaiming
<1>3. CASE Replay(t)
    <2>1. CASE schedForReclaim(t)
        <3>1. /\ prelimbo[t] \in Seq(Block) /\ Head(frees[t]) \in Block
              /\ prelimbo' = [prelimbo EXCEPT ![t] = Append(prelimbo[t], Head(frees[t]))]
              /\ UNCHANGED <<threadcount, ts, limbo>>
            BY <2>1, TailMember DEF schedForReclaim, Types, epochs
        <3>2. Len(prelimbo'[t]) = Len(prelimbo[t]) + 1 /\ Len(prelimbo[t]) \in Nat
            BY <3>1 DEF Types
        <3>3. Len(prelimbo'[t]) <= POOL_SIZE
            BY <2>1, <3>2, WBMMAssumption DEF schedForReclaim, Stamping, Sizes
        <3>4. ts[t] = << >> /\ Len(ts[t]) = 0
            BY <2>1 DEF schedForReclaim, Places
        <3>5. /\ length' = [length EXCEPT ![t] = length'[t]]
              /\ length'[t] \in {0, threadcount} /\ threadcount \in Nat
            BY <2>1 DEF schedForReclaim, Types
        <3>6. \A u \in Thread : u # t => prelimbo'[u] = prelimbo[u] /\ length'[u] = length[u]
            BY <3>1, <3>5 DEF Types
        <3>7. length'[t] \in Nat /\ length'[t] <= threadcount /\ 0 <= length'[t]
            BY <3>5
        <3> QED
            BY <3>1, <3>3, <3>4, <3>6, <3>7 DEF Sizes
    <2>2. CASE ReadEpoch(t)
        <3> DEFINE e == IF Len(ts[t]) + 1 = t THEN my_ts[t] ELSE trans_nums[Len(ts[t]) + 1]
        <3>1. ts' = [ts EXCEPT ![t] = Append(ts[t], e)] /\ Len(ts[t]) < length[t]
              /\ UNCHANGED <<prelimbo, limbo, length, threadcount>>
            BY <2>2 DEF ReadEpoch, epochs
        <3> HIDE DEF e
        <3>2. ts[t] \in Seq(Nat) /\ ts'[t] = Append(ts[t], e) /\ length[t] \in Nat
            BY <3>1 DEF Types
        <3>3. Len(ts'[t]) = Len(ts[t]) + 1 /\ Len(ts[t]) \in Nat
            BY <3>2
        <3>4. \A u \in Thread : u # t => ts'[u] = ts[u]
            BY <3>1 DEF Types
        <3> QED
            BY <3>1, <3>2, <3>3, <3>4 DEF Sizes
    <2>3. CASE Sweep(t)
        <3>1. PICK m \in 1 .. Len(limbo[t]) + 1 : SweepKeeps(t, m)
            BY <2>3, SweepEffect
        <3>2. /\ prelimbo' = [prelimbo EXCEPT ![t] = << >>] /\ length' = [length EXCEPT ![t] = 0]
              /\ ts' = [ts EXCEPT ![t] = << >>] /\ UNCHANGED threadcount
              /\ Len(prelimbo[t]) = POOL_SIZE
            BY <2>3 DEF Sweep, epochs, Stamping
        <3>3. \A i \in DOMAIN limbo'[t] : Len(limbo'[t][i].pool) = POOL_SIZE
            <4> TAKE i \in DOMAIN limbo'[t]
            <4>1. i \in 1 .. m /\ m \in Nat /\ Len(limbo[t]) \in Nat /\ limbo[t] \in Seq(Stamped)
                BY <3>1 DEF SweepKeeps, Types
            <4>2. CASE i = 1
                BY <3>1, <3>2, <4>2 DEF SweepKeeps
            <4>3. CASE i # 1
                <5>1. i \in 2 .. m /\ i - 1 \in DOMAIN limbo[t]
                    BY <3>1, <4>1, <4>3
                <5> QED
                    BY <3>1, <5>1 DEF SweepKeeps, Sizes
            <4> QED
                BY <4>2, <4>3
        <3>4. \A u \in Thread : u # t => limbo'[u] = limbo[u]
            BY <3>1 DEF SweepKeeps, Types
        <3>5. threadcount \in Nat /\ POOL_SIZE \in Nat /\ Len(<< >>) = 0
            BY WBMMAssumption DEF Types
        <3>6. /\ \A u \in Thread : u # t => /\ prelimbo'[u] = prelimbo[u]
                                           /\ length'[u] = length[u] /\ ts'[u] = ts[u]
              /\ prelimbo'[t] = << >> /\ length'[t] = 0 /\ ts'[t] = << >>
            BY <3>2 DEF Types
        <3> QED
            BY <3>2, <3>3, <3>4, <3>5, <3>6 DEF Sizes
    <2> QED
        BY <1>3, <2>1, <2>2, <2>3 DEF Replay
<1>4. Step(t) => Register(t) \/ Replay(t) \/ UNCHANGED <<Reclaiming, threadcount>>
    BY DEF Step, Begin, onTxBegin, Read, Link, txAlloc, Unlink, txFree, Commit, CommitEnds, Committed,
           Abort, onTxAbort, Become, Restart, Drain, wbmmVars, epochs, lists, Reclaiming
<1> QED
    BY <1>1, <1>2, <1>3, <1>4

\* What Places says of one thread, and what it says depends on.
Placed(t) ==
    /\ pc[t] = "new" <=> t > threadcount
    /\ pc[t] # "commit" => ~Stamping(t)
    /\ ~Stamping(t) => length[t] = 0 /\ ts[t] = << >>
    /\ pc[t] # "live" => seen[t] = Unread /\ mine[t] = NULL /\ held[t] = {} /\ ~wrote[t]
    /\ ~Inside(t) => allocs[t] = {} /\ frees[t] = << >>
State(t) == <<pc[t], prelimbo[t], length[t], ts[t], seen[t], mine[t], held[t], wrote[t],
              allocs[t], frees[t]>>

\* Only t moves.
LEMMA PlacedOne ==
    ASSUME Types, Places, NEW t \in Thread, threadcount' = threadcount,
           \A u \in Thread : u # t => State(u)' = State(u),
           Placed(t)', alone' = alone, alone = t => pc'[t] = "live",
           Inside(t)' => Inside(t) \/ alone = 0
    PROVE  Places'
<1>1. \A u \in Thread : Placed(u)'
    BY DEF Places, Placed, State, Stamping, Inside
<1>2. ASSUME alone # 0 PROVE pc'[alone] = "live" /\ \A u \in Thread : u # alone => ~Inside(u)'
    <2>1. pc[alone] = "live" /\ \A u \in Thread : u # alone => ~Inside(u)
        BY <1>2 DEF Places
    <2>2. \A u \in Thread : u # t => (Inside(u)' <=> Inside(u)) /\ pc'[u] = pc[u]
        BY DEF State, Inside
    <2>3. alone \in Thread
        BY <1>2, WBMMAssumption DEF Types, Thread
    <2> QED
        BY <1>2, <2>1, <2>2, <2>3
<1> QED
    BY <1>1, <1>2 DEF Places, Placed

LEMMA PlacesStep == ASSUME Types, Places, NEW t \in Thread, Step(t) PROVE Places'
<1>0. /\ pc \in [Thread -> {"new", "out", "live", "commit"}]
      /\ threadcount \in Nat /\ Thread \subseteq Nat
    BY DEF Types, Thread
<1>p. Placed(t) /\ (alone # 0 => pc[alone] = "live" /\ \A u \in Thread : u # alone => ~Inside(u))
    BY DEF Places, Placed
<1>1. CASE Register(t)
    <2>1. /\ pc' = [pc EXCEPT ![t] = "out"] /\ threadcount' = t /\ t = threadcount + 1
          /\ pc[t] = "new" /\ alone = 0 /\ UNCHANGED <<lists, seen, mine, held, wrote, alone>>
        BY <1>1 DEF Register, Goto
    <2> QED
        BY <1>0, <2>1, WBMMAssumption DEF Places, Inside, Stamping, lists
<1>d. /\ DOMAIN pc = Thread /\ DOMAIN prelimbo = Thread /\ DOMAIN length = Thread
      /\ DOMAIN ts = Thread /\ DOMAIN seen = Thread /\ DOMAIN mine = Thread
      /\ DOMAIN held = Thread /\ DOMAIN wrote = Thread /\ DOMAIN allocs = Thread
      /\ DOMAIN frees = Thread
    BY DEF Types
<1>2. CASE Begin(t)
    <2>1. \A u \in Thread : u # t => State(u)' = State(u)
        BY <1>d, <1>2 DEF Begin, onTxBegin, Goto, lists, State
    <2>2. Placed(t)'
        BY <1>d, <1>p, <1>2 DEF Begin, onTxBegin, Goto, lists, Placed, Stamping, Inside
    <2>3. /\ threadcount' = threadcount /\ alone' = alone /\ (alone = t => pc'[t] = "live")
          /\ (Inside(t)' => Inside(t) \/ alone = 0)
        BY <1>d, <1>p, <1>2 DEF Begin, onTxBegin, Goto, lists, Inside
    <2> QED
        BY <2>1, <2>2, <2>3, PlacedOne
<1>3. CASE Read(t)
    <2>1. \A u \in Thread : u # t => State(u)' = State(u)
        BY <1>d, <1>3 DEF Read, wbmmVars, epochs, lists, State
    <2>2. Placed(t)'
        BY <1>d, <1>p, <1>3 DEF Read, wbmmVars, epochs, lists, Placed, Stamping, Inside
    <2>3. /\ threadcount' = threadcount /\ alone' = alone /\ (alone = t => pc'[t] = "live")
          /\ (Inside(t)' => Inside(t) \/ alone = 0)
        BY <1>d, <1>p, <1>3 DEF Read, wbmmVars, epochs, lists, Inside
    <2> QED
        BY <2>1, <2>2, <2>3, PlacedOne
<1>4. CASE Link(t)
    <2>1. \A u \in Thread : u # t => State(u)' = State(u)
        BY <1>d, <1>4 DEF Link, txAlloc, Store, epochs, State
    <2>2. Placed(t)'
        BY <1>d, <1>p, <1>4 DEF Link, txAlloc, Store, epochs, Placed, Stamping, Inside
    <2>3. /\ threadcount' = threadcount /\ alone' = alone /\ (alone = t => pc'[t] = "live")
          /\ (Inside(t)' => Inside(t) \/ alone = 0)
        BY <1>d, <1>p, <1>4 DEF Link, txAlloc, Store, epochs, Inside
    <2> QED
        BY <2>1, <2>2, <2>3, PlacedOne
<1>5. CASE Unlink(t)
    <2>1. \A u \in Thread : u # t => State(u)' = State(u)
        BY <1>d, <1>5 DEF Unlink, txFree, Store, epochs, State
    <2>2. Placed(t)'
        BY <1>d, <1>p, <1>5 DEF Unlink, txFree, Store, epochs, Placed, Stamping, Inside
    <2>3. /\ threadcount' = threadcount /\ alone' = alone /\ (alone = t => pc'[t] = "live")
          /\ (Inside(t)' => Inside(t) \/ alone = 0)
        BY <1>d, <1>p, <1>5 DEF Unlink, txFree, Store, epochs, Inside
    <2> QED
        BY <2>1, <2>2, <2>3, PlacedOne
<1>6. CASE Commit(t)
    <2>1. /\ \A u \in Thread : u # t => State(u)' = State(u)
          /\ pc'[t] = "commit" /\ seen'[t] = Unread /\ mine'[t] = NULL /\ held'[t] = {}
          /\ wrote'[t] = FALSE /\ pc[t] = "live" /\ alone' = IF alone = t THEN 0 ELSE alone
          /\ UNCHANGED <<threadcount, prelimbo, length, ts, allocs, frees>>
        BY <1>d, <1>6 DEF Commit, Forget, Goto, wbmmVars, epochs, lists, State
    <2>2. \A u \in Thread : Placed(u)'
        BY <1>p, <2>1 DEF Places, Placed, State, Stamping, Inside
    <2>3. alone' # 0 => alone # 0 /\ alone # t /\ pc[t] = "live"
        BY <2>1
    <2>4. alone' = 0
        BY <1>p, <2>1, <2>3 DEF Inside
    <2> QED
        BY <2>2, <2>4 DEF Places, Placed
<1>7. CASE Replay(t)
    <2>0. pc[t] = "commit" /\ UNCHANGED clientVars
        BY <1>7 DEF Replay
    <2>z. t # 0
        BY WBMMAssumption DEF Thread
    <2>1. CASE schedForReclaim(t)
        <3>1. \A u \in Thread : u # t => State(u)' = State(u)
            BY <1>d, <2>0, <2>1 DEF schedForReclaim, clientVars, State
        <3>2. ~Stamping(t)' => length'[t] = 0
            BY <1>d, <2>1 DEF schedForReclaim
        <3>3. Placed(t)'
            BY <1>d, <1>p, <2>0, <2>1, <3>2 DEF schedForReclaim, clientVars, epochs, Placed, Inside
        <3>4. /\ threadcount' = threadcount /\ alone' = alone /\ (alone = t => pc'[t] = "live")
              /\ (Inside(t)' => Inside(t) \/ alone = 0)
            BY <1>p, <2>0, <2>z, <2>1 DEF schedForReclaim, clientVars, epochs, Inside
        <3> QED
            BY <3>1, <3>3, <3>4, PlacedOne
    <2>2. CASE ReadEpoch(t)
        <3>1. \A u \in Thread : u # t => State(u)' = State(u)
            BY <1>d, <2>0, <2>2 DEF ReadEpoch, clientVars, State
        <3>2. Placed(t)'
            BY <1>d, <1>p, <2>0, <2>2 DEF ReadEpoch, clientVars, epochs, Placed, Stamping, Inside
        <3>4. /\ threadcount' = threadcount /\ alone' = alone /\ (alone = t => pc'[t] = "live")
              /\ (Inside(t)' => Inside(t) \/ alone = 0)
            BY <1>p, <2>0, <2>z, <2>2 DEF ReadEpoch, clientVars, epochs, Inside
        <3> QED
            BY <3>1, <3>2, <3>4, PlacedOne
    <2>3. CASE Sweep(t)
        <3>1. \A u \in Thread : u # t => State(u)' = State(u)
            BY <1>d, <2>0, <2>3 DEF Sweep, clientVars, State
        <3>2. length'[t] = 0 /\ ts'[t] = << >>
            BY <1>d, <2>3 DEF Sweep
        <3>3. Placed(t)'
            BY <1>p, <2>0, <2>3, <3>2 DEF Sweep, clientVars, epochs, Placed, Inside
        <3>4. /\ threadcount' = threadcount /\ alone' = alone /\ (alone = t => pc'[t] = "live")
              /\ (Inside(t)' => Inside(t) \/ alone = 0)
            BY <1>p, <2>0, <2>z, <2>3 DEF Sweep, clientVars, epochs, Inside
        <3> QED
            BY <3>1, <3>3, <3>4, PlacedOne
    <2> QED
        BY <1>7, <2>1, <2>2, <2>3 DEF Replay
<1>8. CASE CommitEnds(t)
    <2>1. \A u \in Thread : u # t => State(u)' = State(u)
        BY <1>d, <1>8 DEF CommitEnds, Committed, Goto, State
    <2>2. Placed(t)'
        BY <1>d, <1>p, <1>8 DEF CommitEnds, Committed, Goto, Placed, Stamping, Inside
    <2>3. /\ threadcount' = threadcount /\ alone' = alone /\ (alone = t => pc'[t] = "live")
          /\ (Inside(t)' => Inside(t) \/ alone = 0)
        BY <1>d, <1>p, <1>8 DEF CommitEnds, Committed, Goto, Inside
    <2> QED
        BY <2>1, <2>2, <2>3, PlacedOne
<1>9. CASE Abort(t)
    <2>1. \A u \in Thread : u # t => State(u)' = State(u)
        BY <1>d, <1>9 DEF Abort, onTxAbort, Goto, Forget, State
    <2>2. Placed(t)'
        BY <1>d, <1>p, <1>9 DEF Abort, onTxAbort, Goto, Forget, Placed, Stamping, Inside
    <2>3. /\ threadcount' = threadcount /\ alone' = alone /\ (alone = t => pc'[t] = "live")
          /\ (Inside(t)' => Inside(t) \/ alone = 0)
        BY <1>d, <1>p, <1>9 DEF Abort, onTxAbort, Goto, Forget, Inside
    <2> QED
        BY <2>1, <2>2, <2>3, PlacedOne
<1>10. CASE Become(t)
    BY <1>10, <1>0, WBMMAssumption DEF Become, wbmmVars, epochs, lists, Thread, Places, Inside, Stamping
<1>11. CASE Restart(t)
    <2>1. /\ \A u \in Thread : u # t => State(u)' = State(u)
          /\ seen'[t] = Unread /\ mine'[t] = NULL /\ held'[t] = {} /\ wrote'[t] = FALSE
          /\ allocs'[t] = {} /\ frees'[t] = << >> /\ pc[t] = "live" /\ alone' = t
          /\ UNCHANGED <<threadcount, prelimbo, length, ts, pc>>
        BY <1>d, <1>11 DEF Restart, onTxAbort, Forget, State
    <2>2. \A u \in Thread : Placed(u)'
        BY <1>p, <2>1 DEF Places, Placed, State, Stamping, Inside
    <2>3. \A u \in Thread : u # t => ~Inside(u)'
        BY <1>11, <2>1 DEF Restart, Inside
    <2> QED
        BY <2>1, <2>2, <2>3 DEF Places, Placed
<1>12. CASE Drain(t) /\ UNCHANGED clientVars
    BY <1>12 DEF Drain, clientVars, lists, Places, Inside, Stamping
<1> QED
    BY <1>1, <1>2, <1>3, <1>4, <1>5, <1>6, <1>7, <1>8, <1>9, <1>10, <1>11, <1>12 DEF Step

-----------------------------------------------------------------------------
(* The steps of the told part that move no block *)

LEMMA PooledMember ==
    ASSUME NEW t \in Thread
    PROVE  \A b : b \in Pooled(t) <=>
                \/ b \in ToSet(prelimbo[t])
                \/ \E i \in DOMAIN limbo[t] : b \in ToSet(limbo[t][i].pool)
BY DEF Pooled

LEMMA PooledSame ==
    ASSUME NEW t \in Thread, prelimbo'[t] = prelimbo[t], limbo'[t] = limbo[t]
    PROVE  Pooled(t)' = Pooled(t)
BY DEF Pooled

LEMMA ListsTyped ==
    ASSUME Types, NEW t \in Thread
    PROVE  /\ ToSet(frees[t]) \subseteq Block /\ Pooled(t) \subseteq Block
           /\ \A i \in DOMAIN limbo[t] : limbo[t][i].pool \in Seq(Block) /\ limbo[t][i].ts \in Seq(Nat)
<1>1. frees[t] \in Seq(Block) /\ prelimbo[t] \in Seq(Block) /\ limbo[t] \in Seq(Stamped)
    BY DEF Types
<1>2. \A i \in DOMAIN limbo[t] : limbo[t][i] \in Stamped
    BY <1>1
<1>3. \A i \in DOMAIN limbo[t] : limbo[t][i].pool \in Seq(Block) /\ limbo[t][i].ts \in Seq(Nat)
    BY <1>2 DEF Stamped
<1>4. ToSet(frees[t]) \subseteq Block /\ ToSet(prelimbo[t]) \subseteq Block
    BY <1>1, Member
<1>5. \A i \in DOMAIN limbo[t] : ToSet(limbo[t][i].pool) \subseteq Block
    BY <1>3, Member
<1> QED
    BY <1>3, <1>4, <1>5 DEF Pooled

\* The blocks that the threads know of, and where.
Blocked == <<allocs, frees, prelimbo, length, ts, limbo, used, freed, slot, seen, mine, wrote, held, alone>>

LEMMA EmptyDistinct == Distinct(<< >>)
BY DEF Distinct

LEMMA StillTold ==
    ASSUME Types, Places, Told, UNCHANGED Blocked, EpochsTell',
           \A u \in Thread : pc'[u] = "commit" <=> pc[u] = "commit",
           \A u \in Thread : pc'[u] = "live" => pc[u] \in {"live", "out"},
           \A u \in Thread : pc[u] = "live" => pc'[u] = "live",
           \A u \in Thread : held[u] # {} => trans_nums'[u] = trans_nums[u]
    PROVE  Told'
<1>1. \A u \in Thread : Pooled(u)' = Pooled(u) /\ Doomed(u)' = Doomed(u)
    BY PooledSame DEF Doomed, Blocked
<1>2. Numbered'
    BY <1>1 DEF Told, Numbered, Blocked
<1>3. \A u \in Thread : pc[u] = "out" => /\ seen[u] = Unread /\ mine[u] = NULL /\ ~wrote[u]
                                          /\ held[u] = {} /\ allocs[u] = {} /\ frees[u] = << >>
                                          /\ alone # u /\ Unread # NULL /\ Unread \notin Block
    BY ClientAssumption DEF Places, Inside, Thread
<1>4. Logs'
    <2> SUFFICES ASSUME NEW u \in Thread, pc'[u] = "live"
                 PROVE  Log(u)'
        BY DEF Logs
    <2>1. CASE pc[u] = "live"
        BY <2>1 DEF Told, Logs, Log, Blocked
    <2>2. CASE pc[u] = "out"
        BY <1>3, <2>2, EmptySet, EmptyDistinct DEF Log, Blocked
    <2> QED
        BY <2>1, <2>2
<1>5. \A u \in Thread : Speculative(u)' => Speculative(u) \/ allocs[u] = {}
    BY <1>3 DEF Speculative, Blocked
<1>6. Private'
    BY <1>1, <1>5 DEF Told, Private, Blocked
<1>7. \A u \in Thread : Final(u)' <=> Final(u)
    BY DEF Final, Blocked
<1>8. Waiting'
    BY <1>1, <1>7 DEF Told, Waiting, Blocked
<1>9. \A u \in Thread : Speculative(u) => Speculative(u)'
    BY DEF Speculative, Blocked
<1>10. Kept'
    BY <1>1, <1>9 DEF Told, Kept, Blocked
<1>11. Stuck'
    BY <1>1 DEF Told, Stuck, Stamping, Shows, Blocked
<1>12. Safe' /\ Once'
    BY DEF Told, Safe, Once, Blocked
<1> QED
    BY <1>2, <1>4, <1>6, <1>8, <1>10, <1>11, <1>12 DEF Told

LEMMA RegisterTold ==
    ASSUME Types, Places, Told, NEW t \in Thread, Register(t), EpochsTell' PROVE Told'
<1>1. /\ UNCHANGED Blocked /\ UNCHANGED trans_nums
      /\ pc' = [pc EXCEPT ![t] = "out"] /\ pc[t] = "new"
    BY DEF Register, Blocked, lists, Goto
<1> QED
    BY <1>1, StillTold DEF Types

LEMMA BeginTold ==
    ASSUME Types, Places, Told, NEW t \in Thread, Begin(t), EpochsTell' PROVE Told'
<1>1. /\ UNCHANGED Blocked /\ UNCHANGED trans_nums
      /\ pc' = [pc EXCEPT ![t] = "live"] /\ pc[t] = "out"
    BY DEF Begin, onTxBegin, Blocked, lists, Goto
<1> QED
    BY <1>1, StillTold DEF Types

\* A thread that has hold of a block has no store in its buffer.
LEMMA DrainTold ==
    ASSUME Types, Places, Lag, Told, NEW t \in Thread, Drain(t) /\ UNCHANGED clientVars, EpochsTell'
    PROVE  Told'
<1>1. /\ UNCHANGED Blocked /\ UNCHANGED pc
      /\ trans_nums' = [trans_nums EXCEPT ![t] = @ + 1] /\ my_ts' = my_ts /\ my_ts[t] # trans_nums[t]
    BY DEF Drain, Drained, Blocked, lists, clientVars
<1>2. held[t] = {}
    <2> SUFFICES ASSUME held[t] # {} PROVE FALSE
        OBVIOUS
    <2>1. pc[t] = "live" /\ Odd(my_ts[t]) /\ Odd(trans_nums[t])
        BY DEF Types, Places, Told, EpochsTell, OddInside, Inside
    <2>2. /\ my_ts[t] \in Nat /\ trans_nums[t] \in Nat
          /\ trans_nums[t] <= my_ts[t] /\ my_ts[t] <= trans_nums[t] + 1
        BY <2>1 DEF Types, Lag, Inside
    <2>3. my_ts[t] = trans_nums[t] + 1
        BY <1>1, <2>2
    <2> QED
        BY <2>1, <2>2, <2>3 DEF Odd
<1> QED
    BY <1>1, <1>2, StillTold DEF Types

LEMMA CommitEndsTold ==
    ASSUME Types, Places, Told, NEW t \in Thread, CommitEnds(t), EpochsTell' PROVE Told'
<1>1. /\ UNCHANGED <<trans_nums, frees, prelimbo, length, ts, limbo, used, freed, slot, seen, mine,
                     wrote, held, alone>>
      /\ allocs' = [allocs EXCEPT ![t] = {}]
      /\ pc' = [pc EXCEPT ![t] = "out"] /\ pc[t] = "commit" /\ frees[t] = << >>
    BY DEF CommitEnds, Committed, Goto
<1>2. /\ \A u \in Thread : u # t => pc'[u] = pc[u] /\ allocs'[u] = allocs[u]
      /\ pc'[t] = "out" /\ allocs'[t] = {}
    BY <1>1 DEF Types
<1>3. \A u \in Thread : Pooled(u)' = Pooled(u) /\ Doomed(u)' = Doomed(u)
    <2>1. \A u \in Thread : Pooled(u)' = Pooled(u)
        BY <1>1, PooledSame
    <2>2. \A u \in Thread : u # t => Doomed(u)' = Doomed(u)
        BY <1>1, <1>2, <2>1 DEF Doomed
    <2>3. Doomed(t)' = Doomed(t)
        BY <1>1, <1>2, <2>1, EmptySet DEF Doomed
    <2> QED
        BY <2>1, <2>2, <2>3
<1>4. Numbered'
    BY <1>1, <1>2, <1>3 DEF Told, Numbered
<1>5. Logs'
    BY <1>1, <1>2 DEF Told, Logs, Log
<1>6. \A u \in Thread : Speculative(u)' <=> Speculative(u)
    BY <1>1, <1>2 DEF Speculative
<1>7. Private'
    BY <1>1, <1>2, <1>3, <1>6 DEF Told, Private
<1>8. \A u \in Thread : Final(u)' => Final(u)
    BY <1>1, <1>2 DEF Final
<1>9. Waiting'
    <2>1. \A u \in Thread : \A b \in Doomed(u)' :
              freed'[b] = 0 /\ b # slot' /\ \A v \in Thread : v # u => b \notin Doomed(v)'
        BY <1>1, <1>3 DEF Told, Waiting
    <2>2. \A u \in Thread : Final(u)' => Distinct(frees'[u]) /\ ToSet(frees'[u]) \cap Pooled(u)' = {}
        BY <1>1, <1>3, <1>8 DEF Told, Waiting
    <2> QED
        BY <1>1, <2>1, <2>2 DEF Told, Waiting
<1>10. ~Speculative(t)
    BY <1>1 DEF Speculative
<1>11. Kept'
    BY <1>1, <1>2, <1>3, <1>6, <1>10 DEF Told, Kept
<1>12. Stuck'
    BY <1>1, <1>3 DEF Told, Stuck, Stamping, Shows
<1>13. Safe' /\ Once'
    BY <1>1 DEF Told, Safe, Once
<1> QED
    BY <1>4, <1>5, <1>7, <1>9, <1>11, <1>12, <1>13 DEF Told

-----------------------------------------------------------------------------
(* The steps of a running transaction *)

LEMMA ReadTold ==
    ASSUME Types, Places, Told, NEW t \in Thread, Read(t), EpochsTell' PROVE Told'
<1>1. /\ UNCHANGED <<trans_nums, allocs, frees, prelimbo, length, ts, limbo, used, freed, slot, pc,
                     wrote, alone>>
      /\ \A u \in Thread : u # t => seen'[u] = seen[u] /\ mine'[u] = mine[u] /\ held'[u] = held[u]
      /\ seen'[t] = slot /\ mine'[t] = slot /\ held'[t] = {slot} \ {NULL}
      /\ pc[t] = "live" /\ seen[t] = Unread
    BY DEF Read, Types, wbmmVars, epochs, lists
<1>2. /\ ~wrote[t] /\ allocs[t] = {} /\ frees[t] = << >> /\ ToSet(frees[t]) = {}
      /\ slot \in Block \cup {NULL} /\ Unread # NULL /\ Unread \notin Block /\ NULL \notin Block
    BY <1>1, ClientAssumption, WBMMAssumption, EmptySet DEF Told, Logs, Log, Types, Block
<1>3. \A u \in Thread : /\ Pooled(u)' = Pooled(u) /\ Doomed(u)' = Doomed(u)
                        /\ Speculative(u)' = Speculative(u) /\ Final(u)' = Final(u)
    <2>1. \A u \in Thread : Pooled(u)' = Pooled(u)
        BY <1>1, PooledSame
    <2> QED
        BY <1>1, <2>1 DEF Doomed, Speculative, Final
<1>4. Numbered'
    BY <1>1, <1>2, <1>3 DEF Told, Numbered
<1>5. Logs'
    <2> SUFFICES ASSUME NEW u \in Thread, pc'[u] = "live"
                 PROVE  Log(u)'
        BY DEF Logs
    <2>1. CASE u # t
        BY <1>1, <2>1 DEF Told, Logs, Log
    <2>2. CASE u = t
        BY <1>1, <1>2, <2>2, EmptyDistinct DEF Log
    <2> QED
        BY <2>1, <2>2
<1>6. Private'
    BY <1>1, <1>2, <1>3 DEF Told, Private
<1>7. Waiting'
    <2>1. \A u \in Thread : \A b \in Doomed(u)' :
              freed'[b] = 0 /\ b # slot' /\ \A v \in Thread : v # u => b \notin Doomed(v)'
        BY <1>1, <1>3 DEF Told, Waiting
    <2>2. \A u \in Thread : Final(u)' => Distinct(frees'[u]) /\ ToSet(frees'[u]) \cap Pooled(u)' = {}
        BY <1>1, <1>3 DEF Told, Waiting
    <2> QED
        BY <1>1, <2>1, <2>2 DEF Told, Waiting
<1>8. Kept'
    BY <1>1, <1>3 DEF Told, Kept
<1>9. Stuck'
    <2>1. \A u \in Thread : slot \notin Pooled(u)
        BY DEF Told, Waiting, Doomed
    <2>2. \A u \in Thread : Pooled(u) \cap held'[t] = {}
        BY <1>1, <2>1
    <2>3. \A u \in Thread : \A j \in DOMAIN limbo[u] : ToSet(limbo[u][j].pool) \cap held'[t] = {}
        BY <2>2, PooledMember
    <2> QED
        BY <1>1, <1>3, <2>2, <2>3 DEF Told, Stuck, Stamping, Shows
<1>10. Safe' /\ Once'
    BY <1>1 DEF Told, Safe, Once
<1> QED
    BY <1>4, <1>5, <1>6, <1>7, <1>8, <1>9, <1>10 DEF Told

LEMMA LinkTold ==
    ASSUME Types, Places, Told, NEW t \in Thread, Link(t), EpochsTell' PROVE Told'
<1> DEFINE b == used + 1
<1>1. /\ UNCHANGED <<trans_nums, frees, prelimbo, length, ts, limbo, freed, seen, pc, alone>>
      /\ \A u \in Thread : u # t => /\ mine'[u] = mine[u] /\ held'[u] = held[u]
                                    /\ wrote'[u] = wrote[u] /\ allocs'[u] = allocs[u]
      /\ mine'[t] = b /\ wrote'[t] /\ held'[t] = held[t] \cup {b} /\ allocs'[t] = allocs[t] \cup {b}
      /\ slot' = IF alone = t THEN b ELSE slot
      /\ pc[t] = "live" /\ seen[t] # Unread /\ mine[t] = NULL /\ used' = used + 1 /\ used < Blocks
    BY DEF Link, txAlloc, Store, Types, epochs, Told, EpochsTell, OddInside, Inside
<1>2. b \in Block /\ used \in Nat /\ NULL \notin Block /\ \A c \in Block : c \in Nat
    BY <1>1, WBMMAssumption DEF Types, Block
<1>3. /\ freed[b] = 0 /\ b # slot /\ freed[b] <= 1
      /\ \A u \in Thread : /\ b \notin allocs[u] /\ b \notin ToSet(frees[u]) /\ b \notin Pooled(u)
                           /\ b # seen[u] /\ b \notin Doomed(u)
    <2>1. freed[b] \in Nat /\ ~(b <= used) /\ ~(freed[b] > 0)
        BY <1>2 DEF Types, Told, Numbered
    <2>2. b # slot
        BY <1>2, <2>1 DEF Told, Numbered
    <2>3. ASSUME NEW u \in Thread
          PROVE  b \notin allocs[u] /\ b \notin ToSet(frees[u]) /\ b \notin Pooled(u) /\ b # seen[u]
        BY <1>2, <2>1 DEF Told, Numbered
    <2> QED
        BY <2>1, <2>2, <2>3 DEF Doomed
<1>4. \A u \in Thread : /\ Pooled(u)' = Pooled(u) /\ Doomed(u)' = Doomed(u)
                        /\ Speculative(u)' = Speculative(u) /\ Final(u)' = Final(u)
    <2>1. \A u \in Thread : Pooled(u)' = Pooled(u)
        BY <1>1, PooledSame
    <2> QED
        BY <1>1, <2>1 DEF Doomed, Speculative, Final
<1> HIDE DEF b
<1>5. \A u \in Thread : b \notin held[u]
    <2> TAKE u \in Thread
    <2>1. CASE pc[u] = "live"
        BY <1>2, <1>3, <2>1 DEF Told, Logs, Log
    <2>2. CASE pc[u] # "live"
        BY <2>2 DEF Places
    <2> QED
        BY <2>1, <2>2
<1>6. Numbered'
    <2>1. \A c \in Block : c <= used => c <= used'
        BY <1>1, <1>2
    <2>2. b <= used'
        BY <1>1, <1>2 DEF b
    <2>3. \A u \in Thread : ToSet(frees[u]) \subseteq Block /\ Pooled(u) \subseteq Block
        BY ListsTyped
    <2>4. slot' # NULL => slot' <= used'
        BY <1>1, <2>1, <2>2 DEF Told, Numbered, Types
    <2>5. \A c \in Block : freed'[c] > 0 => c <= used'
        BY <1>1, <2>1 DEF Told, Numbered
    <2>6. ASSUME NEW u \in Thread
          PROVE  /\ \A c \in allocs'[u] \cup ToSet(frees'[u]) \cup Pooled(u)' : c <= used'
                 /\ seen'[u] \in Block => seen'[u] <= used'
        <3>1. \A c \in allocs[u] \cup ToSet(frees[u]) \cup Pooled(u) : c <= used'
            BY <2>1, <2>3 DEF Told, Numbered, Types
        <3> QED
            BY <1>1, <1>4, <2>1, <2>2, <3>1 DEF Told, Numbered
    <2>7. \A u, v \in Thread : u # v => allocs'[u] \cap allocs'[v] = {}
        BY <1>1, <1>3 DEF Told, Numbered
    <2> QED
        BY <2>4, <2>5, <2>6, <2>7 DEF Numbered
<1>7. Logs'
    <2> SUFFICES ASSUME NEW u \in Thread, pc'[u] = "live" PROVE Log(u)'
        BY DEF Logs
    <2>1. CASE u # t
        <3>1. Log(u)
            BY <1>1 DEF Told, Logs
        <3>2. alone = u => slot' = slot
            BY <1>1, <2>1
        <3> QED
            BY <1>1, <2>1, <3>1, <3>2 DEF Log
    <2>2. CASE u = t
        <3>1. Log(t)
            BY <1>1 DEF Told, Logs
        <3>2. allocs[t] \subseteq Block
            BY DEF Types
        <3>3. /\ held[t] = {} /\ allocs[t] \subseteq ToSet(frees[t])
              /\ seen[t] \in Block => seen[t] \in ToSet(frees[t])
              /\ ToSet(frees[t]) \subseteq allocs[t] \cup {seen[t]} /\ Distinct(frees[t])
            BY <1>1, <1>2, <3>1, <3>2 DEF Log
        <3>4. b # NULL /\ b \notin ToSet(frees[t])
            BY <1>2, <1>3
        <3> QED
            BY <1>1, <2>2, <3>3, <3>4 DEF Log
    <2> QED
        BY <2>1, <2>2
<1>8. Private'
    <2> SUFFICES ASSUME NEW u \in Thread, Speculative(u)', NEW c \in allocs'[u]
                 PROVE  /\ freed'[c] = 0 /\ c # slot'
                        /\ \A v \in Thread : c \notin Doomed(v)' /\ c # seen'[v]
        BY DEF Private
    <2>1. CASE c = b
        <3>1. u = t /\ alone # t
            BY <1>1, <1>3, <1>4, <2>1 DEF Speculative
        <3> QED
            BY <1>1, <1>3, <1>4, <2>1, <3>1
    <2>2. CASE c # b
        <3>1. c \in allocs[u] /\ Speculative(u)
            BY <1>1, <1>4, <2>2
        <3> QED
            BY <1>1, <1>4, <2>2, <3>1 DEF Told, Private
    <2> QED
        BY <2>1, <2>2
<1>9. Waiting'
    <2>1. \A u \in Thread : \A c \in Doomed(u)' :
              freed'[c] = 0 /\ c # slot' /\ \A v \in Thread : v # u => c \notin Doomed(v)'
        BY <1>1, <1>3, <1>4 DEF Told, Waiting
    <2>2. \A u \in Thread : Final(u)' => Distinct(frees'[u]) /\ ToSet(frees'[u]) \cap Pooled(u)' = {}
        BY <1>1, <1>4 DEF Told, Waiting
    <2> QED
        BY <1>1, <2>1, <2>2 DEF Told, Waiting
<1>10. Kept'
    <2> SUFFICES ASSUME NEW c \in 1 .. used'
                 PROVE  \/ freed'[c] > 0 \/ slot' = c
                        \/ \E u \in Thread : c \in Doomed(u)'
                        \/ \E u \in Thread : Speculative(u)' /\ c \in allocs'[u]
        BY DEF Kept
    <2>1. CASE c = b
        BY <1>1, <1>4, <2>1 DEF Speculative
    <2>2. CASE c # b
        <3>1. c \in 1 .. used
            BY <1>1, <1>2, <2>2 DEF b
        <3>2. freed[c] > 0 \/ slot = c \/ (\E u \in Thread : c \in Doomed(u))
                  \/ \E u \in Thread : Speculative(u) /\ c \in allocs[u]
            BY <3>1 DEF Told, Kept
        <3>3. slot = c => slot' = c
            <4>1. alone = t => slot = NULL
                BY <1>1 DEF Told, Logs, Log
            <4>2. NULL # c
                BY <1>1, <1>2, <3>1, WBMMAssumption DEF Block, Types
            <4> QED
                BY <1>1, <4>1, <4>2
        <3> QED
            BY <1>1, <1>4, <3>2, <3>3
    <2> QED
        BY <2>1, <2>2
<1>11. Stuck'
    <2>1. \A u, h \in Thread : Pooled(u)' \cap held'[h] = Pooled(u) \cap held[h]
        BY <1>1, <1>3, <1>4
    <2>2. \A u, h \in Thread : \A j \in DOMAIN limbo[u] :
              ToSet(limbo[u][j].pool) \cap held'[h] = ToSet(limbo[u][j].pool) \cap held[h]
        BY <1>1, <1>3, PooledMember
    <2> HIDE <1>3, <1>4, <1>5
    <2> QED
        BY <1>1, <2>1, <2>2 DEF Told, Stuck, Stamping, Shows
<1>12. Safe' /\ Once'
    BY <1>1, <1>3 DEF Told, Safe, Once
<1> QED
    BY <1>6, <1>7, <1>8, <1>9, <1>10, <1>11, <1>12 DEF Told

LEMMA UnlinkTold ==
    ASSUME Types, Places, Told, NEW t \in Thread, Unlink(t), EpochsTell' PROVE Told'
<1> DEFINE b == mine[t]
<1>1. /\ UNCHANGED <<trans_nums, allocs, prelimbo, length, ts, limbo, used, freed, seen, pc, alone>>
      /\ \A u \in Thread : u # t => /\ mine'[u] = mine[u] /\ held'[u] = held[u]
                                    /\ wrote'[u] = wrote[u] /\ frees'[u] = frees[u]
      /\ mine'[t] = NULL /\ wrote'[t] /\ held'[t] = held[t] \ {b} /\ frees'[t] = Append(frees[t], b)
      /\ slot' = IF alone = t THEN NULL ELSE slot
      /\ pc[t] = "live" /\ seen[t] # Unread /\ b # NULL
    BY DEF Unlink, txFree, Store, Types, epochs, Told, EpochsTell, OddInside, Inside
<1>2. b \in Block /\ NULL \notin Block /\ Unread \notin Block \cup {NULL} /\ frees[t] \in Seq(Block)
    BY <1>1, WBMMAssumption, ClientAssumption DEF Types, Block
<1>3. Log(t)
    BY <1>1 DEF Told, Logs
<1>4. ToSet(frees'[t]) = ToSet(frees[t]) \cup {b} /\ Distinct(frees'[t]) /\ b \notin ToSet(frees[t])
    BY <1>1, <1>2, <1>3, AppendMember, AppendDistinct DEF Log
<1>5. b <= used
    BY <1>1, <1>2, <1>3 DEF Told, Numbered, Log
<1>6. \A u \in Thread : /\ Pooled(u)' = Pooled(u)
                        /\ Speculative(u)' = Speculative(u) /\ Final(u)' = Final(u)
    BY <1>1, PooledSame DEF Speculative, Final
<1>7. Final(t) <=> alone = t
    BY <1>1 DEF Final
<1>8. alone = t => b = slot
    BY <1>1, <1>3 DEF Log
<1>9. \A u \in Thread : Doomed(u)' = IF u = t /\ alone = t THEN Doomed(u) \cup {b} ELSE Doomed(u)
    <2>1. \A u \in Thread : u # t => Doomed(u)' = Doomed(u)
        BY <1>1, <1>6 DEF Doomed
    <2>2. Doomed(t)' = IF alone = t THEN Doomed(t) \cup {b} ELSE Doomed(t)
        BY <1>1, <1>4, <1>6 DEF Doomed
    <2> QED
        BY <2>1, <2>2
<1> HIDE DEF b
<1>10. Numbered'
    <2>1. slot' # NULL => slot' <= used
        BY <1>1 DEF Told, Numbered
    <2>2. ASSUME NEW u \in Thread
          PROVE  /\ \A c \in allocs'[u] \cup ToSet(frees'[u]) \cup Pooled(u)' : c <= used'
                 /\ seen'[u] \in Block => seen'[u] <= used'
        BY <1>1, <1>4, <1>5, <1>6 DEF Told, Numbered
    <2> QED
        BY <1>1, <2>1, <2>2 DEF Told, Numbered
<1>11. Logs'
    <2> SUFFICES ASSUME NEW u \in Thread, pc'[u] = "live" PROVE Log(u)'
        BY DEF Logs
    <2>1. CASE u # t
        <3>1. Log(u) /\ (alone = u => slot' = slot)
            BY <1>1, <2>1 DEF Told, Logs
        <3> QED
            BY <1>1, <2>1, <3>1 DEF Log
    <2>2. CASE u = t
        <3>1. /\ held[t] \subseteq {b}
              /\ b \in allocs[t] \cup {seen[t]}
              /\ allocs[t] \subseteq ToSet(frees'[t])
              /\ ToSet(frees'[t]) \subseteq allocs[t] \cup {seen[t]}
              /\ seen[t] \in Block => seen[t] \in ToSet(frees'[t])
            BY <1>2, <1>3, <1>4 DEF Log, b
        <3>2. NULL \notin ToSet(frees'[t])
            BY <1>2, <1>4, Member
        <3>3. held'[t] = {}
            BY <1>1, <3>1
        <3> QED
            BY <1>1, <1>4, <2>2, <3>1, <3>2, <3>3 DEF Log
    <2> QED
        BY <2>1, <2>2
<1>12. Private'
    <2> SUFFICES ASSUME NEW u \in Thread, Speculative(u)', NEW c \in allocs'[u]
                 PROVE  /\ freed'[c] = 0 /\ c # slot'
                        /\ \A v \in Thread : c \notin Doomed(v)' /\ c # seen'[v]
        BY DEF Private
    <2>1. /\ freed[c] = 0 /\ c # slot /\ c \in Block
          /\ \A v \in Thread : c \notin Doomed(v) /\ c # seen[v]
        BY <1>1, <1>6 DEF Told, Private, Types
    <2>2. alone = t => c # b
        BY <1>8, <2>1
    <2> QED
        BY <1>1, <1>2, <1>9, <2>1, <2>2
<1>13. Waiting'
    <2>1. \A u \in Thread : \A c \in Doomed(u)' :
              freed'[c] = 0 /\ c # slot' /\ \A v \in Thread : v # u => c \notin Doomed(v)'
        <3> SUFFICES ASSUME NEW u \in Thread, NEW c \in Doomed(u)'
                     PROVE  freed'[c] = 0 /\ c # slot' /\ \A v \in Thread : v # u => c \notin Doomed(v)'
            OBVIOUS
        <3>1. CASE c \in Doomed(u)
            <4>1. freed[c] = 0 /\ c # slot /\ \A v \in Thread : v # u => c \notin Doomed(v)
                BY <3>1 DEF Told, Waiting
            <4>2. c # NULL
                BY <1>2, <3>1, ListsTyped DEF Doomed
            <4> QED
                BY <1>1, <1>8, <1>9, <4>1, <4>2
        <3>2. CASE c \notin Doomed(u)
            <4>1. u = t /\ alone = t /\ c = b /\ slot # NULL
                BY <1>1, <1>2, <1>8, <1>9, <3>2
            <4>2. freed[slot] = 0 /\ \A v \in Thread : slot \notin Doomed(v)
                BY <4>1 DEF Told, Safe, Waiting
            <4> QED
                BY <1>1, <1>2, <1>8, <1>9, <4>1, <4>2
        <3> QED
            BY <3>1, <3>2
    <2>2. \A u \in Thread : Final(u)' => Distinct(frees'[u]) /\ ToSet(frees'[u]) \cap Pooled(u)' = {}
        <3>1. alone = t => b \notin Pooled(t)
            <4>1. alone = t => slot \notin Doomed(t)
                BY DEF Told, Waiting
            <4> QED
                BY <1>8, <4>1 DEF Doomed
        <3>2. Final(t)' => Distinct(frees'[t]) /\ ToSet(frees'[t]) \cap Pooled(t)' = {}
            BY <1>4, <1>6, <1>7, <3>1 DEF Told, Waiting
        <3> QED
            BY <1>1, <1>6, <3>2 DEF Told, Waiting
    <2> QED
        BY <1>1, <2>1, <2>2 DEF Told, Waiting
<1>14. Kept'
    <2> SUFFICES ASSUME NEW c \in 1 .. used
                 PROVE  \/ freed'[c] > 0 \/ slot' = c
                        \/ \E u \in Thread : c \in Doomed(u)'
                        \/ \E u \in Thread : Speculative(u)' /\ c \in allocs'[u]
        BY <1>1 DEF Kept
    <2>1. freed[c] > 0 \/ slot = c \/ (\E u \in Thread : c \in Doomed(u))
              \/ \E u \in Thread : Speculative(u) /\ c \in allocs[u]
        BY DEF Told, Kept
    <2>2. CASE slot = c /\ alone = t
        BY <1>8, <1>9, <2>2
    <2>3. CASE ~(slot = c /\ alone = t)
        BY <1>1, <1>6, <1>9, <2>1, <2>3
    <2> QED
        BY <2>2, <2>3
<1>15. Stuck'
    <2>1. \A u, h \in Thread : Pooled(u)' \cap held'[h] \subseteq Pooled(u) \cap held[h]
        BY <1>1, <1>6
    <2>2. \A u, h \in Thread : \A j \in DOMAIN limbo[u] :
              ToSet(limbo[u][j].pool) \cap held'[h] \subseteq ToSet(limbo[u][j].pool) \cap held[h]
        BY <1>1
    <2> HIDE <1>4, <1>6, <1>9
    <2> QED
        BY <1>1, <2>1, <2>2 DEF Told, Stuck, Stamping, Shows
<1>16. Safe' /\ Once'
    BY <1>1 DEF Told, Safe, Once
<1> QED
    BY <1>10, <1>11, <1>12, <1>13, <1>14, <1>15, <1>16 DEF Told

-----------------------------------------------------------------------------
(* The steps that decide a transaction *)

\* From now on t's writes and frees count: it is irrevocable, has written nothing or
\* is the only one that can have replaced what it read.
Decides(t) ==
    \/ alone = t /\ slot' = slot
    \/ ~wrote[t] /\ slot' = slot
    \/ alone # t /\ wrote[t] /\ seen[t] = slot /\ slot' = mine[t]

LEMMA DecidedTold ==
    ASSUME Types, Told, NEW t \in Thread, pc[t] = "live", Decides(t),
           UNCHANGED <<allocs, frees, prelimbo, limbo, used, freed>>,
           \A u \in Thread : u # t => (Speculative(u)' <=> Speculative(u)) /\ (Final(u)' <=> Final(u)),
           ~Speculative(t)', Final(t)',
           \A u \in Thread : seen'[u] \in {seen[u], Unread}
    PROVE  Numbered' /\ Private' /\ Waiting' /\ Kept' /\ (slot # NULL => freed[slot] = 0)'
<1>1. Log(t) /\ Unread \notin Block /\ NULL \notin Block /\ NULL # Unread
    BY ClientAssumption, WBMMAssumption DEF Told, Logs, Block
<1>2. \A u \in Thread : Pooled(u)' = Pooled(u)
    BY PooledSame
<1>3. \A u \in Thread : Doomed(u) = Pooled(u) \cup IF Final(u) THEN ToSet(frees[u]) ELSE {}
    BY DEF Doomed, Final
<1>4. \A u \in Thread : Doomed(u)' = Pooled(u)' \cup IF Final(u)' THEN ToSet(frees[u])' ELSE {}
    BY DEF Doomed, Final
<1>5. \A u \in Thread : Doomed(u)' = IF u = t THEN Pooled(u) \cup ToSet(frees[u]) ELSE Doomed(u)
    BY <1>2, <1>3, <1>4
<1>6. Doomed(t) \subseteq Doomed(t)'
    BY <1>3, <1>5
<1>7. ASSUME NEW c \in ToSet(frees[t])
      PROVE  /\ freed[c] = 0 /\ c # slot' /\ c \in Block
             /\ \A u \in Thread : u # t => c \notin Doomed(u)
             /\ alone # t => c \notin Pooled(t)
    <2>1. c \in Block
        BY ListsTyped
    <2>2. CASE alone = t
        <3>1. c \in Doomed(t)
            BY <2>2 DEF Doomed
        <3> QED
            BY <2>1, <2>2, <3>1 DEF Told, Waiting, Decides
    <2>3. CASE alone # t
        <3>1. wrote[t] /\ seen[t] = slot /\ slot' = mine[t]
            BY <1>1, <2>3, EmptySet DEF Log, Decides
        <3>2. c \in allocs[t] \/ c = slot
            BY <1>1, <3>1 DEF Log
        <3>3. c # slot'
            BY <1>1, <3>1 DEF Log
        <3>4. freed[c] = 0 /\ \A u \in Thread : c \notin Doomed(u)
            <4>1. CASE c \in allocs[t]
                BY <2>3, <4>1 DEF Told, Private, Speculative
            <4>2. CASE c = slot
                BY <1>1, <2>1, <4>2 DEF Told, Safe, Waiting
            <4> QED
                BY <3>2, <4>1, <4>2
        <3> QED
            BY <2>1, <3>3, <3>4 DEF Doomed
    <2> QED
        BY <2>2, <2>3
<1>8. ASSUME slot' # NULL
      PROVE  /\ freed[slot'] = 0 /\ slot' <= used
             /\ \A u \in Thread : slot' \notin Doomed(u)
             /\ \A u \in Thread : Speculative(u)' => slot' \notin allocs[u]
    <2>1. CASE slot' = slot
        <3>1. freed[slot] = 0 /\ slot <= used
            BY <1>8, <2>1 DEF Told, Safe, Numbered
        <3> QED
            BY <2>1, <3>1 DEF Told, Waiting, Private
    <2>2. CASE slot' # slot
        <3>1. alone # t /\ wrote[t] /\ seen[t] = slot /\ slot' = mine[t] /\ Speculative(t)
            BY <2>2 DEF Decides, Speculative
        <3>2. slot' \in allocs[t]
            BY <1>1, <1>8, <2>2, <3>1 DEF Log
        <3>3. freed[slot'] = 0 /\ \A u \in Thread : slot' \notin Doomed(u)
            BY <3>1, <3>2 DEF Told, Private
        <3>4. slot' <= used /\ \A u \in Thread : u # t => slot' \notin allocs[u]
            BY <3>2 DEF Told, Numbered
        <3> QED
            BY <3>3, <3>4
    <2> QED
        BY <2>1, <2>2
<1>9. ASSUME NEW u \in Thread, u # t, Speculative(u), NEW c \in allocs[u]
      PROVE  /\ freed[c] = 0 /\ c # slot' /\ c \notin ToSet(frees[t])
             /\ \A v \in Thread : c \notin Doomed(v) /\ c # seen[v]
    <2>1. freed[c] = 0 /\ c # slot /\ c \in Block /\ \A v \in Thread : c \notin Doomed(v) /\ c # seen[v]
        BY <1>9 DEF Told, Private, Types
    <2>2. c # slot'
        BY <1>1, <1>8, <1>9, <2>1
    <2>3. c \notin ToSet(frees[t])
        <3>1. c \notin allocs[t]
            BY <1>9 DEF Told, Numbered
        <3> QED
            BY <1>1, <2>1, <3>1 DEF Log
    <2> QED
        BY <2>1, <2>2, <2>3
<1>10. Numbered'
    <2>1. \A u \in Thread : seen'[u] \in Block => seen'[u] <= used'
        BY <1>1 DEF Told, Numbered
    <2> QED
        BY <1>2, <1>8, <2>1 DEF Told, Numbered
<1>11. Private'
    <2> SUFFICES ASSUME NEW u \in Thread, Speculative(u)', NEW c \in allocs'[u]
                 PROVE  /\ freed'[c] = 0 /\ c # slot'
                        /\ \A v \in Thread : c \notin Doomed(v)' /\ c # seen'[v]
        BY DEF Private
    <2>1. u # t /\ Speculative(u) /\ c \in allocs[u] /\ c \in Block
        BY DEF Types
    <2> QED
        BY <1>1, <1>3, <1>5, <1>9, <2>1
<1>12. Waiting'
    <2>1. ASSUME NEW u \in Thread, NEW c \in Doomed(u)'
          PROVE  freed'[c] = 0 /\ c # slot' /\ \A v \in Thread : v # u => c \notin Doomed(v)'
        <3>1. CASE u = t /\ c \in ToSet(frees[t])
            BY <1>5, <1>7, <3>1
        <3>2. CASE c \in Doomed(u)
            <4>1. freed[c] = 0 /\ \A v \in Thread : v # u => c \notin Doomed(v)
                BY <3>2 DEF Told, Waiting
            <4>2. c # slot'
                <5>1. c \in Block
                    BY <1>3, <3>2, ListsTyped
                <5> QED
                    BY <1>1, <1>8, <3>2, <5>1
            <4>3. u # t => c \notin Doomed(t)'
                BY <1>3, <1>5, <1>7, <3>2, <4>1
            <4> QED
                BY <1>5, <4>1, <4>2, <4>3
        <3> QED
            BY <1>3, <1>5, <2>1, <3>1, <3>2
    <2>2. Distinct(frees[t]) /\ ToSet(frees[t]) \cap Pooled(t) = {}
        <3>1. CASE alone = t
            BY <3>1 DEF Told, Waiting, Final
        <3>2. CASE alone # t
            BY <1>1, <1>7, <3>2 DEF Log
        <3> QED
            BY <3>1, <3>2
    <2>3. \A u \in Thread : Final(u)' => Distinct(frees'[u]) /\ ToSet(frees'[u]) \cap Pooled(u)' = {}
        BY <1>2, <2>2 DEF Told, Waiting
    <2> QED
        BY <2>1, <2>3 DEF Told, Waiting
<1>13. Kept'
    <2> SUFFICES ASSUME NEW c \in 1 .. used
                 PROVE  \/ freed'[c] > 0 \/ slot' = c
                        \/ \E u \in Thread : c \in Doomed(u)'
                        \/ \E u \in Thread : Speculative(u)' /\ c \in allocs'[u]
        BY DEF Kept
    <2>1. freed[c] > 0 \/ slot = c \/ (\E u \in Thread : c \in Doomed(u))
              \/ \E u \in Thread : Speculative(u) /\ c \in allocs[u]
        BY DEF Told, Kept
    <2>2. \A u \in Thread : Doomed(u) \subseteq Doomed(u)'
        BY <1>5, <1>6
    <2>3. slot = c => slot' = c \/ c \in Doomed(t)'
        <3> SUFFICES ASSUME slot = c, slot' # c PROVE c \in Doomed(t)'
            OBVIOUS
        <3>1. seen[t] = c /\ mine[t] # c
            BY DEF Decides
        <3>2. c \in Block
            BY WBMMAssumption DEF Types, Block
        <3>3. c \in ToSet(frees[t])
            BY <1>1, <3>1, <3>2 DEF Log
        <3> QED
            BY <1>5, <3>3
    <2>4. c \in allocs[t] /\ Speculative(t) => slot' = c \/ c \in Doomed(t)'
        <3> SUFFICES ASSUME c \in allocs[t], Speculative(t) PROVE slot' = c \/ c \in Doomed(t)'
            OBVIOUS
        <3>1. wrote[t] /\ alone # t
            BY <1>1 DEF Log, Speculative
        <3>2. slot' = mine[t]
            BY <3>1 DEF Decides
        <3> QED
            BY <1>1, <1>5, <3>2 DEF Log
    <2> QED
        BY <2>1, <2>2, <2>3, <2>4
<1>14. (slot # NULL => freed[slot] = 0)'
    BY <1>8
<1> QED
    BY <1>10, <1>11, <1>12, <1>13, <1>14

\* What the irrevocable thread leaves to the others.
LEMMA NoneBesides ==
    ASSUME Types, Places, NEW t \in Thread, pc[t] = "live" PROVE \A u \in Thread : u # t => alone # u
BY WBMMAssumption DEF Types, Places, Inside, Thread

LEMMA HeldShrinks ==
    ASSUME Told, UNCHANGED <<trans_nums, prelimbo, length, ts, limbo>>,
           \A u \in Thread : held'[u] \subseteq held[u]
    PROVE  Stuck'
<1>1. \A u, h \in Thread : Pooled(u)' \cap held'[h] \subseteq Pooled(u) \cap held[h]
    BY PooledSame
<1>2. \A u, h \in Thread : \A j \in DOMAIN limbo[u] :
          ToSet(limbo[u][j].pool) \cap held'[h] \subseteq ToSet(limbo[u][j].pool) \cap held[h]
    OBVIOUS
<1> QED
    BY <1>1, <1>2 DEF Told, Stuck, Stamping, Shows

LEMMA CommitTold ==
    ASSUME Types, Places, Told, NEW t \in Thread, Commit(t), EpochsTell' PROVE Told'
<1>1. /\ UNCHANGED <<allocs, frees, prelimbo, length, ts, limbo, used, freed, trans_nums>>
      /\ pc[t] = "live" /\ pc'[t] = "commit" /\ alone' = (IF alone = t THEN 0 ELSE alone)
      /\ seen'[t] = Unread /\ held'[t] = {}
      /\ \A u \in Thread : u # t => /\ pc'[u] = pc[u] /\ seen'[u] = seen[u] /\ held'[u] = held[u]
                                    /\ mine'[u] = mine[u] /\ wrote'[u] = wrote[u]
    BY DEF Commit, Types, Goto, Forget, wbmmVars, epochs, lists
<1>2. Log(t)
    BY <1>1 DEF Told, Logs
<1>3. Decides(t)
    BY <1>1, <1>2 DEF Commit, Valid, Decides, Log
<1>4. \A u \in Thread : u # t => alone # u /\ alone' # u
    BY <1>1, NoneBesides DEF Thread
<1>5. \A u \in Thread : u # t => (Speculative(u)' <=> Speculative(u)) /\ (Final(u)' <=> Final(u))
    BY <1>1, <1>4 DEF Speculative, Final
<1>6. ~Speculative(t)' /\ Final(t)' /\ \A u \in Thread : seen'[u] \in {seen[u], Unread}
    BY <1>1 DEF Speculative, Final
<1>7. Numbered' /\ Private' /\ Waiting' /\ Kept' /\ (slot # NULL => freed[slot] = 0)'
    BY <1>1, <1>3, <1>5, <1>6, DecidedTold
<1>8. Logs'
    <2> SUFFICES ASSUME NEW u \in Thread, pc'[u] = "live" PROVE Log(u)'
        BY DEF Logs
    <2>1. u # t /\ alone' # u /\ Log(u)
        BY <1>1, <1>4 DEF Told, Logs
    <2> QED
        BY <1>1, <2>1 DEF Log
<1>9. Stuck'
    BY <1>1, HeldShrinks
<1>10. Safe' /\ Once'
    BY <1>1, <1>7 DEF Told, Safe, Once
<1> QED
    BY <1>7, <1>8, <1>9, <1>10 DEF Told

LEMMA BecomeTold ==
    ASSUME Types, Places, Told, NEW t \in Thread, Become(t), EpochsTell' PROVE Told'
<1>1. /\ UNCHANGED <<allocs, frees, prelimbo, length, ts, limbo, used, freed, trans_nums, pc, seen,
                     mine, wrote, held>>
      /\ pc[t] = "live" /\ alone' = t /\ alone = 0 /\ 0 # t
      /\ \A u \in Thread : u # t => ~Inside(u)
    BY DEF Become, wbmmVars, epochs, lists, Thread
<1>2. Log(t)
    BY <1>1 DEF Told, Logs
<1>3. Decides(t) /\ (seen[t] # Unread => slot' = mine[t])
    BY <1>1, <1>2 DEF Become, Valid, Decides, Log
<1>4. \A u \in Thread : u # t => (Speculative(u)' <=> Speculative(u)) /\ (Final(u)' <=> Final(u))
    BY <1>1 DEF Speculative, Final, Thread
<1>5. ~Speculative(t)' /\ Final(t)' /\ \A u \in Thread : seen'[u] \in {seen[u], Unread}
    BY <1>1 DEF Speculative, Final
<1>6. Numbered' /\ Private' /\ Waiting' /\ Kept' /\ (slot # NULL => freed[slot] = 0)'
    BY <1>1, <1>3, <1>4, <1>5, DecidedTold
<1>7. Logs'
    <2> SUFFICES ASSUME NEW u \in Thread, pc'[u] = "live" PROVE Log(u)'
        BY DEF Logs
    <2>1. u = t
        BY <1>1 DEF Inside
    <2> QED
        BY <1>1, <1>2, <1>3, <2>1 DEF Log
<1>8. Stuck'
    BY <1>1, HeldShrinks
<1>9. Safe' /\ Once'
    BY <1>1, <1>6 DEF Told, Safe, Once
<1> QED
    BY <1>6, <1>7, <1>8, <1>9 DEF Told

\* A transaction that restarts as irrevocable does so with an even epoch.
LEMMA RestartUntold ==
    ASSUME Types, Told, NEW t \in Thread, Restart(t) PROVE ~EpochsTell'
<1>1. pc[t] = "live" /\ pc'[t] = "live" /\ my_ts'[t] = my_ts[t] + 1 /\ my_ts[t] \in Nat
    BY DEF Restart, onTxAbort, NextEpoch, Types
<1>2. Odd(my_ts[t])
    BY <1>1 DEF Told, EpochsTell, OddInside, Inside
<1>3. ~Odd(my_ts[t])'
    BY <1>1, <1>2 DEF Odd
<1> QED
    BY <1>1, <1>3 DEF EpochsTell, OddInside, Inside

LEMMA AbortTold ==
    ASSUME Types, Places, Told, NEW t \in Thread, Abort(t), EpochsTell' PROVE Told'
<1>1. /\ UNCHANGED <<prelimbo, length, ts, limbo, used, trans_nums, slot, alone>>
      /\ pc[t] = "live" /\ pc'[t] = "out" /\ alone # t
      /\ seen'[t] = Unread /\ held'[t] = {} /\ frees'[t] = << >> /\ allocs'[t] = {}
      /\ \A u \in Thread : u # t => /\ pc'[u] = pc[u] /\ seen'[u] = seen[u] /\ held'[u] = held[u]
                                    /\ mine'[u] = mine[u] /\ wrote'[u] = wrote[u]
                                    /\ frees'[u] = frees[u] /\ allocs'[u] = allocs[u]
      /\ \A b \in Block : freed'[b] = freed[b] + IF b \in allocs[t] THEN 1 ELSE 0
    BY DEF Abort, onTxAbort, Types, Goto, Forget, Free
<1>2. /\ Speculative(t) /\ ~Speculative(t)' /\ ~Final(t) /\ ~Final(t)'
      /\ \A u \in Thread : u # t => (Speculative(u)' <=> Speculative(u)) /\ (Final(u)' <=> Final(u))
    BY <1>1 DEF Speculative, Final
<1>3. Unread \notin Block /\ NULL \notin Block
    BY ClientAssumption, WBMMAssumption DEF Block
<1>4. \A b \in allocs[t] : /\ b \in Block /\ freed[b] = 0 /\ b # slot /\ b <= used
                           /\ \A u \in Thread : b \notin Doomed(u) /\ b # seen[u]
                           /\ \A u \in Thread : u # t => b \notin allocs[u]
    BY <1>2 DEF Told, Private, Numbered, Types
<1>5. \A b \in Block : b \notin allocs[t] => freed'[b] = freed[b]
    BY <1>1 DEF Types
<1>6. \A b \in allocs[t] : freed'[b] = 1
    BY <1>1, <1>4
<1>7. \A u \in Thread : Pooled(u)' = Pooled(u) /\ Doomed(u)' = Doomed(u)
    <2>1. \A u \in Thread : Pooled(u)' = Pooled(u)
        BY <1>1, PooledSame
    <2>2. \A u \in Thread : u # t => Doomed(u)' = Doomed(u)
        BY <1>1, <2>1 DEF Doomed
    <2>3. Doomed(t)' = Doomed(t)
        BY <1>1, <2>1 DEF Doomed
    <2> QED
        BY <2>1, <2>2, <2>3
<1>8. \A u \in Thread : Doomed(u) \subseteq Block
    BY ListsTyped DEF Doomed
<1>9. Numbered'
    <2>1. \A b \in Block : freed'[b] > 0 => b <= used
        BY <1>4, <1>5 DEF Told, Numbered
    <2>2. ASSUME NEW u \in Thread
          PROVE  /\ \A c \in allocs'[u] \cup ToSet(frees'[u]) \cup Pooled(u)' : c <= used'
                 /\ seen'[u] \in Block => seen'[u] <= used'
        <3>1. CASE u = t
            BY <1>1, <1>3, <1>7, <3>1, EmptySet DEF Told, Numbered
        <3>2. CASE u # t
            BY <1>1, <1>7, <3>2 DEF Told, Numbered
        <3> QED
            BY <3>1, <3>2
    <2>3. \A u, v \in Thread : u # v => allocs'[u] \cap allocs'[v] = {}
        BY <1>1 DEF Told, Numbered
    <2>4. slot' # NULL => slot' <= used'
        BY <1>1 DEF Told, Numbered
    <2> QED
        BY <1>1, <2>1, <2>2, <2>3, <2>4 DEF Numbered
<1>10. Logs'
    <2> SUFFICES ASSUME NEW u \in Thread, pc'[u] = "live" PROVE Log(u)'
        BY DEF Logs
    <2>1. u # t /\ Log(u)
        BY <1>1 DEF Told, Logs
    <2> QED
        BY <1>1, <2>1 DEF Log
<1>11. Private'
    <2> SUFFICES ASSUME NEW u \in Thread, Speculative(u)', NEW c \in allocs'[u]
                 PROVE  /\ freed'[c] = 0 /\ c # slot'
                        /\ \A v \in Thread : c \notin Doomed(v)' /\ c # seen'[v]
        BY DEF Private
    <2>1. u # t /\ Speculative(u) /\ c \in allocs[u] /\ c \in Block
        BY <1>1, <1>2 DEF Types
    <2>2. freed[c] = 0 /\ c # slot /\ \A v \in Thread : c \notin Doomed(v) /\ c # seen[v]
        BY <2>1 DEF Told, Private
    <2> QED
        BY <1>1, <1>3, <1>4, <1>5, <1>7, <2>1, <2>2
<1>12. Waiting'
    <2>1. \A u \in Thread : \A c \in Doomed(u)' :
              freed'[c] = 0 /\ c # slot' /\ \A v \in Thread : v # u => c \notin Doomed(v)'
        BY <1>1, <1>4, <1>5, <1>7, <1>8 DEF Told, Waiting
    <2>2. \A u \in Thread : Final(u)' => Distinct(frees'[u]) /\ ToSet(frees'[u]) \cap Pooled(u)' = {}
        BY <1>1, <1>2, <1>7 DEF Told, Waiting
    <2> QED
        BY <1>1, <2>1, <2>2 DEF Told, Waiting
<1>13. Kept'
    <2> SUFFICES ASSUME NEW c \in 1 .. used
                 PROVE  \/ freed'[c] > 0 \/ slot' = c
                        \/ \E u \in Thread : c \in Doomed(u)'
                        \/ \E u \in Thread : Speculative(u)' /\ c \in allocs'[u]
        BY <1>1 DEF Kept
    <2>1. freed[c] > 0 \/ slot = c \/ (\E u \in Thread : c \in Doomed(u))
              \/ \E u \in Thread : Speculative(u) /\ c \in allocs[u]
        BY DEF Told, Kept
    <2>2. c \in Block
        BY WBMMAssumption DEF Types, Block
    <2>3. CASE c \in allocs[t]
        BY <1>6, <2>3
    <2>4. CASE c \notin allocs[t]
        BY <1>1, <1>2, <1>5, <1>7, <2>1, <2>2, <2>4
    <2> QED
        BY <2>3, <2>4
<1>14. Stuck'
    BY <1>1, HeldShrinks
<1>15. Safe'
    <2>1. slot' # NULL => freed'[slot'] = 0
        BY <1>1, <1>4, <1>5 DEF Told, Safe, Types
    <2>2. ASSUME NEW u \in Thread, NEW b \in held'[u] PROVE freed'[b] = 0
        <3>1. u # t /\ b \in held[u] /\ b \in Block /\ freed[b] = 0
            BY <1>1, <2>2 DEF Told, Safe, Types
        <3>2. Log(u)
            BY <3>1 DEF Told, Logs, Places
        <3>3. b \in allocs[u] \cup {seen[u]}
            BY <1>3, <3>1, <3>2 DEF Log
        <3>4. b \notin allocs[t]
            BY <1>4, <3>1, <3>3
        <3> QED
            BY <1>5, <3>1, <3>4
    <2> QED
        BY <2>1, <2>2 DEF Safe
<1>16. Once'
    BY <1>1, <1>5, <1>6 DEF Told, Once
<1> QED
    BY <1>9, <1>10, <1>11, <1>12, <1>13, <1>14, <1>15, <1>16 DEF Told

-----------------------------------------------------------------------------
(* The steps of a commit *)

\* What a transaction sees stays the same.
LEMMA OutsideSame ==
    ASSUME Types, Told, UNCHANGED clientVars, UNCHANGED <<epochs, allocs, used>>,
           \A u \in Thread : pc[u] = "live" => frees'[u] = frees[u]
    PROVE  /\ Logs'
           /\ \A u \in Thread : (Speculative(u)' <=> Speculative(u)) /\ (Final(u)' <=> Final(u))
<1>1. Logs'
    BY DEF Told, Logs, Log, clientVars
<1> QED
    BY <1>1 DEF Speculative, Final, clientVars

LEMMA SchedTold ==
    ASSUME Types, Places, Sizes, Told, NEW t \in Thread, pc[t] = "commit", schedForReclaim(t),
           UNCHANGED clientVars, EpochsTell'
    PROVE  Told'
<1> DEFINE b == Head(frees[t])
<1>1. /\ UNCHANGED <<epochs, allocs, ts, limbo, used, freed, clientVars>>
      /\ frees[t] # << >> /\ frees[t] \in Seq(Block) /\ prelimbo[t] \in Seq(Block)
      /\ \A u \in Thread : u # t => frees'[u] = frees[u] /\ prelimbo'[u] = prelimbo[u]
                                    /\ length'[u] = length[u]
      /\ frees'[t] = Tail(frees[t]) /\ prelimbo'[t] = Append(prelimbo[t], b)
      /\ length'[t] = IF Stamping(t)' THEN threadcount ELSE 0
      /\ ~Stamping(t)
    BY DEF schedForReclaim, Types
<1>2. b \in Block /\ ToSet(frees[t]) = ToSet(frees'[t]) \cup {b}
    BY <1>1, TailMember
<1>3. ToSet(prelimbo'[t]) = ToSet(prelimbo[t]) \cup {b}
    BY <1>1, <1>2, AppendMember
<1>4. Final(t) /\ Distinct(frees[t]) /\ ToSet(frees[t]) \cap Pooled(t) = {}
    BY DEF Told, Waiting, Final
<1>5. Distinct(frees'[t]) /\ b \notin ToSet(frees'[t])
    BY <1>1, <1>4, TailDistinct
<1>6. Pooled(t)' = Pooled(t) \cup {b}
    BY <1>1, <1>3 DEF Pooled
<1>7. \A u \in Thread : u # t => Pooled(u)' = Pooled(u)
    BY <1>1, PooledSame
<1>8. /\ Logs'
      /\ \A u \in Thread : (Speculative(u)' <=> Speculative(u)) /\ (Final(u)' <=> Final(u))
    <2>1. \A u \in Thread : pc[u] = "live" => frees'[u] = frees[u]
        BY <1>1
    <2>2. UNCHANGED clientVars /\ UNCHANGED <<epochs, allocs, used>>
        BY <1>1
    <2> QED
        BY <2>1, <2>2, OutsideSame
<1>9. \A u \in Thread : Doomed(u)' = Doomed(u)
    <2>1. \A u \in Thread : u # t => Doomed(u)' = Doomed(u)
        BY <1>1, <1>7 DEF Doomed, clientVars
    <2>2. Doomed(t)' = Doomed(t)
        BY <1>1, <1>2, <1>6 DEF Doomed, clientVars
    <2> QED
        BY <2>1, <2>2
<1> HIDE DEF b
<1>10. Numbered'
    <2>1. ASSUME NEW u \in Thread
          PROVE  \A c \in allocs'[u] \cup ToSet(frees'[u]) \cup Pooled(u)' : c <= used'
        <3>1. allocs'[u] \cup ToSet(frees'[u]) \cup Pooled(u)'
                  \subseteq allocs[u] \cup ToSet(frees[u]) \cup Pooled(u)
            BY <1>1, <1>2, <1>6, <1>7
        <3> QED
            BY <1>1, <3>1 DEF Told, Numbered
    <2> QED
        BY <1>1, <2>1 DEF Told, Numbered, clientVars
<1>11. Private'
    BY <1>1, <1>8, <1>9 DEF Told, Private, clientVars
<1>12. Waiting'
    <2>1. \A u \in Thread : \A c \in Doomed(u)' :
              freed'[c] = 0 /\ c # slot' /\ \A v \in Thread : v # u => c \notin Doomed(v)'
        BY <1>1, <1>9 DEF Told, Waiting, clientVars
    <2>2. \A u \in Thread : Final(u)' => Distinct(frees'[u]) /\ ToSet(frees'[u]) \cap Pooled(u)' = {}
        <3> SUFFICES ASSUME NEW u \in Thread, Final(u)
                     PROVE  Distinct(frees'[u]) /\ ToSet(frees'[u]) \cap Pooled(u)' = {}
            BY <1>8
        <3>1. CASE u = t
            BY <1>2, <1>4, <1>5, <1>6, <3>1
        <3>2. CASE u # t
            BY <1>1, <1>7, <3>2 DEF Told, Waiting
        <3> QED
            BY <3>1, <3>2
    <2>3. b \notin Pooled(t)
        BY <1>2, <1>4
    <2>4. ASSUME NEW u \in Thread, NEW i \in DOMAIN limbo'[u]
          PROVE  /\ ToSet(prelimbo'[u]) \cap ToSet(limbo'[u][i].pool) = {}
                 /\ \A j \in DOMAIN limbo'[u] :
                       i # j => ToSet(limbo'[u][i].pool) \cap ToSet(limbo'[u][j].pool) = {}
        <3>1. i \in DOMAIN limbo[u] /\ limbo' = limbo
            BY <1>1
        <3>2. /\ ToSet(prelimbo[u]) \cap ToSet(limbo[u][i].pool) = {}
              /\ \A j \in DOMAIN limbo[u] :
                    i # j => ToSet(limbo[u][i].pool) \cap ToSet(limbo[u][j].pool) = {}
            BY <3>1 DEF Told, Waiting
        <3>3. u = t => b \notin ToSet(limbo[u][i].pool)
            BY <2>3, <3>1, PooledMember
        <3> QED
            BY <1>1, <1>3, <3>1, <3>2, <3>3
    <2> QED
        BY <2>1, <2>2, <2>4 DEF Waiting
<1>13. Kept'
    BY <1>1, <1>8, <1>9 DEF Told, Kept, clientVars
<1>14. Stuck'
    <2> SUFFICES ASSUME NEW r \in Thread, NEW h \in Thread, h # r
                 PROVE  (/\ \A j \in DOMAIN limbo[r] :
                               ToSet(limbo[r][j].pool) \cap held[h] # {} =>
                                   \A i \in 1 .. j : Shows(limbo[r][i].ts, h)
                         /\ Stamping(r) /\ Pooled(r) \cap held[h] # {} =>
                               /\ h <= length[r]
                               /\ h \in DOMAIN ts[r] => ts[r][h] = trans_nums[h])'
        BY DEF Stuck
    <2>1. \A j \in DOMAIN limbo[r] :
              ToSet(limbo[r][j].pool) \cap held[h] # {} => \A i \in 1 .. j : Shows(limbo[r][i].ts, h)
        BY DEF Told, Stuck
    <2>2. CASE r # t
        <3>1. Stamping(r) /\ Pooled(r) \cap held[h] # {} =>
                   h <= length[r] /\ (h \in DOMAIN ts[r] => ts[r][h] = trans_nums[h])
            BY DEF Told, Stuck
        <3> QED
            BY <1>1, <1>7, <2>1, <2>2, <3>1 DEF Stamping, Shows, clientVars, epochs
    <2>3. CASE r = t
        <3>1. ts'[t] = << >>
            BY <1>1 DEF Places
        <3>2. held[h] # {} => h <= threadcount
            BY DEF Places, Types, Thread
        <3> QED
            BY <1>1, <2>1, <2>3, <3>1, <3>2 DEF Shows, clientVars, epochs
    <2> QED
        BY <2>2, <2>3
<1>15. Safe' /\ Once'
    BY <1>1 DEF Told, Safe, Once, clientVars
<1> QED
    BY <1>8, <1>10, <1>11, <1>12, <1>13, <1>14, <1>15 DEF Told

LEMMA ReadEpochTold ==
    ASSUME Types, Sizes, Told, NEW t \in Thread, ReadEpoch(t), UNCHANGED clientVars, EpochsTell'
    PROVE  Told'
<1> DEFINE k == Len(ts[t]) + 1
           e == IF k = t THEN my_ts[t] ELSE trans_nums[k]
<1>1. /\ UNCHANGED <<epochs, allocs, frees, prelimbo, length, limbo, used, freed>>
      /\ ts[t] \in Seq(Nat) /\ ts'[t] = Append(ts[t], e)
      /\ \A u \in Thread : u # t => ts'[u] = ts[u]
    BY DEF ReadEpoch, Types
<1>2. \A u \in Thread : /\ Pooled(u)' = Pooled(u) /\ Doomed(u)' = Doomed(u)
                        /\ (Speculative(u)' <=> Speculative(u)) /\ (Final(u)' <=> Final(u))
    <2>1. \A u \in Thread : Pooled(u)' = Pooled(u)
        BY <1>1, PooledSame
    <2> QED
        BY <1>1, <2>1 DEF Doomed, Speculative, Final, clientVars
<1>3. Logs' /\ Numbered'
    BY <1>1, <1>2 DEF Told, Logs, Log, Numbered, clientVars
<1>4. Private' /\ Kept'
    BY <1>1, <1>2 DEF Told, Private, Kept, clientVars
<1>5. Waiting'
    <2>1. \A u \in Thread : \A c \in Doomed(u)' :
              freed'[c] = 0 /\ c # slot' /\ \A v \in Thread : v # u => c \notin Doomed(v)'
        BY <1>1, <1>2 DEF Told, Waiting, clientVars
    <2>2. \A u \in Thread : Final(u)' => Distinct(frees'[u]) /\ ToSet(frees'[u]) \cap Pooled(u)' = {}
        BY <1>1, <1>2 DEF Told, Waiting
    <2> QED
        BY <1>1, <2>1, <2>2 DEF Told, Waiting
<1>6. \A h \in Thread : h # t /\ h \in DOMAIN ts'[t] /\ h \notin DOMAIN ts[t] => ts'[t][h] = trans_nums[h]
    <2> SUFFICES ASSUME NEW h \in Thread, h # t, h \in DOMAIN ts'[t], h \notin DOMAIN ts[t]
                 PROVE  ts'[t][h] = trans_nums[h]
        OBVIOUS
    <2>1. e \in Nat
        <3>1. k \in Thread
            <4>1. Len(ts[t]) \in Nat /\ length[t] \in Nat /\ Len(ts[t]) < length[t]
                BY DEF ReadEpoch, Types
            <4>2. length[t] <= threadcount /\ threadcount \in 0 .. Threads
                BY DEF Sizes, Types
            <4> QED
                BY <4>1, <4>2, WBMMAssumption DEF Thread
        <3> QED
            BY <3>1 DEF Types
    <2> HIDE DEF e
    <2>2. DOMAIN ts[t] = 1 .. Len(ts[t]) /\ DOMAIN ts'[t] = 1 .. k /\ ts'[t][k] = e /\ Len(ts[t]) \in Nat
        BY <1>1, <2>1
    <2>3. h = k
        BY <2>2
    <2> QED
        BY <2>2, <2>3 DEF e
<1>7. \A h \in Thread : h \in DOMAIN ts[t] => ts'[t][h] = ts[t][h]
    <2> HIDE DEF e
    <2> QED
        BY <1>1
<1>8. Stuck'
    <2> SUFFICES ASSUME NEW r \in Thread, NEW h \in Thread, h # r
                 PROVE  (/\ \A j \in DOMAIN limbo[r] :
                               ToSet(limbo[r][j].pool) \cap held[h] # {} =>
                                   \A i \in 1 .. j : Shows(limbo[r][i].ts, h)
                         /\ Stamping(r) /\ Pooled(r) \cap held[h] # {} =>
                               /\ h <= length[r]
                               /\ h \in DOMAIN ts[r] => ts[r][h] = trans_nums[h])'
        BY DEF Stuck
    <2>1. \A j \in DOMAIN limbo[r] :
              ToSet(limbo[r][j].pool) \cap held[h] # {} => \A i \in 1 .. j : Shows(limbo[r][i].ts, h)
        BY DEF Told, Stuck
    <2>2. Stamping(r) /\ Pooled(r) \cap held[h] # {} =>
               h <= length[r] /\ (h \in DOMAIN ts[r] => ts[r][h] = trans_nums[h])
        BY DEF Told, Stuck
    <2>3. \/ ts'[r] = ts[r] \/ r = t
        BY <1>1
    <2>4. h \in DOMAIN ts'[r] =>
             (h \in DOMAIN ts[r] /\ ts'[r][h] = ts[r][h]) \/ ts'[r][h] = trans_nums[h]
        BY <1>6, <1>7, <2>3
    <2> HIDE DEF e
    <2> QED
        BY <1>1, <1>2, <2>1, <2>2, <2>4 DEF Stamping, Shows, clientVars, epochs
<1>9. Safe' /\ Once'
    BY <1>1 DEF Told, Safe, Once, clientVars
<1> QED
    BY <1>3, <1>4, <1>5, <1>8, <1>9 DEF Told

\* No pool that a sweep frees holds a block that another thread has hold of: its
\* newest stamp shows that the thread is still where all stamps since have seen it.
LEMMA SweepSpares ==
    ASSUME Types, Told, NEW t \in Thread, pc[t] = "commit", Stamping(t), Len(ts[t]) = length[t],
           NEW u \in Thread, u # t, NEW m \in 1 .. Len(limbo[t]), NEW j \in m .. Len(limbo[t]),
           is_strictly_older(ts[t], limbo[t][m].ts)
    PROVE  ToSet(limbo[t][j].pool) \cap held[u] = {}
<1> SUFFICES ASSUME ToSet(limbo[t][j].pool) \cap held[u] # {} PROVE FALSE
    OBVIOUS
<1>1. /\ limbo[t] \in Seq(Stamped) /\ Len(limbo[t]) \in Nat /\ ts[t] \in Seq(Nat) /\ Len(ts[t]) \in Nat
      /\ u \in Nat /\ 1 <= u
    BY WBMMAssumption DEF Types, Thread
<1>2. j \in DOMAIN limbo[t] /\ m \in 1 .. j
    BY <1>1
<1>3. Shows(limbo[t][m].ts, u)
    BY <1>2 DEF Told, Stuck
<1>4. Pooled(t) \cap held[u] # {}
    BY <1>2, PooledMember
<1>5. u <= length[t] /\ (u \in DOMAIN ts[t] => ts[t][u] = trans_nums[u])
    BY <1>4 DEF Told, Stuck
<1>6. u \in DOMAIN ts[t]
    BY <1>1, <1>5
<1>7. Odd(ts[t][u])
    BY <1>5, <1>6 DEF Told, EpochsTell
<1>8. ts[t][u] > limbo[t][m].ts[u]
    BY <1>3, <1>7 DEF is_strictly_older, Shows
<1>9. ts[t][u] = limbo[t][m].ts[u] /\ ts[t][u] \in Nat
    BY <1>3, <1>5, <1>6 DEF Shows, Types
<1> QED
    BY <1>8, <1>9

LEMMA SweepTold ==
    ASSUME Types, Places, Told, NEW t \in Thread, pc[t] = "commit", Sweep(t),
           UNCHANGED clientVars, EpochsTell'
    PROVE  Told'
<1>1. PICK m \in 1 .. Len(limbo[t]) + 1 : SweepKeeps(t, m) /\ SweepFrees(t, m)
    BY SweepEffect
<1> DEFINE n == Len(limbo[t])
           F == UNION {ToSet(limbo[t][j].pool) : j \in m .. n}
<1>2. /\ UNCHANGED <<epochs, allocs, frees, used, clientVars>>
      /\ prelimbo' = [prelimbo EXCEPT ![t] = << >>] /\ ts' = [ts EXCEPT ![t] = << >>]
      /\ length' = [length EXCEPT ![t] = 0] /\ Stamping(t) /\ Len(ts[t]) = length[t]
    BY DEF Sweep
<1>3. /\ prelimbo'[t] = << >> /\ Len(prelimbo'[t]) = 0
      /\ \A u \in Thread : u # t => /\ prelimbo'[u] = prelimbo[u] /\ ts'[u] = ts[u]
                                    /\ length'[u] = length[u] /\ limbo'[u] = limbo[u]
    BY <1>1, <1>2 DEF Types, SweepKeeps
<1>4. /\ m \in Nat /\ n \in Nat /\ 1 <= m /\ m <= n + 1 /\ limbo[t] \in Seq(Stamped)
      /\ DOMAIN limbo[t] = 1 .. n /\ DOMAIN limbo'[t] = 1 .. m
      /\ limbo'[t][1].pool = prelimbo[t] /\ limbo'[t][1].ts = ts[t]
      /\ \A i \in 2 .. m : limbo'[t][i] = limbo[t][i - 1]
    BY <1>1 DEF SweepKeeps, Types
<1> HIDE DEF n
<1>5. \A b \in Block : freed'[b] = freed[b] + IF b \in F THEN 1 ELSE 0
    BY <1>1 DEF SweepFrees, Free, n
<1>6. \A i \in 1 .. n : ToSet(prelimbo[t]) \cap ToSet(limbo[t][i].pool) = {}
    BY <1>4 DEF Told, Waiting
<1>7. \A i, j \in 1 .. n : i # j => ToSet(limbo[t][i].pool) \cap ToSet(limbo[t][j].pool) = {}
    BY <1>4 DEF Told, Waiting
<1>8. \A b : b \in Pooled(t)' <=> b \in ToSet(prelimbo[t]) \/ \E i \in 1 .. m - 1 : b \in ToSet(limbo[t][i].pool)
    <2>1. \A b : b \in Pooled(t)' <=> \/ b \in ToSet(prelimbo'[t])
                                      \/ \E i \in DOMAIN limbo'[t] : b \in ToSet(limbo'[t][i].pool)
        BY DEF Pooled
    <2>2. ASSUME NEW b, NEW i \in 1 .. m, b \in ToSet(limbo'[t][i].pool)
          PROVE  b \in ToSet(prelimbo[t]) \/ \E j \in 1 .. m - 1 : b \in ToSet(limbo[t][j].pool)
        <3>1. CASE i = 1
            BY <1>4, <2>2, <3>1
        <3>2. CASE i # 1
            <4>1. i \in 2 .. m /\ i - 1 \in 1 .. m - 1
                BY <1>4, <3>2
            <4> QED
                BY <1>4, <2>2, <4>1
        <3> QED
            BY <3>1, <3>2
    <2>3. ASSUME NEW b, b \in ToSet(prelimbo[t]) PROVE \E i \in 1 .. m : b \in ToSet(limbo'[t][i].pool)
        BY <1>4, <2>3
    <2>4. ASSUME NEW b, NEW j \in 1 .. m - 1, b \in ToSet(limbo[t][j].pool)
          PROVE  \E i \in 1 .. m : b \in ToSet(limbo'[t][i].pool)
        <3>1. j + 1 \in 2 .. m /\ j + 1 - 1 = j /\ j + 1 \in 1 .. m
            BY <1>4
        <3>2. limbo'[t][j + 1] = limbo[t][j]
            BY <1>4, <3>1
        <3> QED
            BY <2>4, <3>1, <3>2
    <2> QED
        BY <1>3, <1>4, <2>1, <2>2, <2>3, <2>4, EmptySet
<1>9. \A b : b \in F <=> \E j \in m .. n : b \in ToSet(limbo[t][j].pool)
    OBVIOUS
<1> HIDE DEF F
<1>10. \A b : b \in Pooled(t) <=> b \in Pooled(t)' \/ b \in F
    <2>1. \A b : b \in Pooled(t) <=> \/ b \in ToSet(prelimbo[t])
                                     \/ \E i \in 1 .. n : b \in ToSet(limbo[t][i].pool)
        BY <1>4, PooledMember
    <2>2. 1 .. n = (1 .. m - 1) \cup (m .. n)
        BY <1>4
    <2> QED
        BY <1>8, <1>9, <2>1, <2>2
<1>11. \A b : ~(b \in Pooled(t)' /\ b \in F)
    <2> SUFFICES ASSUME NEW b, b \in Pooled(t)', b \in F PROVE FALSE
        OBVIOUS
    <2>1. PICK j \in m .. n : b \in ToSet(limbo[t][j].pool)
        BY <1>9
    <2>2. j \in 1 .. n
        BY <1>4
    <2>3. b \notin ToSet(prelimbo[t])
        BY <1>6, <2>1, <2>2
    <2>4. PICK i \in 1 .. m - 1 : b \in ToSet(limbo[t][i].pool)
        BY <1>8, <2>3
    <2>5. i \in 1 .. n /\ i # j
        BY <1>4
    <2> QED
        BY <1>7, <2>1, <2>2, <2>4, <2>5
<1>12. \A u \in Thread : u # t => Pooled(u)' = Pooled(u)
    BY <1>3, PooledSame
<1>13. /\ Logs'
       /\ \A u \in Thread : (Speculative(u)' <=> Speculative(u)) /\ (Final(u)' <=> Final(u))
    BY <1>2, OutsideSame
<1>14. \A u \in Thread : u # t => Doomed(u)' = Doomed(u)
    BY <1>2, <1>12 DEF Doomed, clientVars
<1>15. \A b : /\ b \in Doomed(t)' <=> b \in Doomed(t) /\ b \notin F
              /\ b \in F => b \in Doomed(t)
    <2>1. ToSet(frees[t]) \cap Pooled(t) = {}
        BY DEF Told, Waiting, Final
    <2>2. Doomed(t) = Pooled(t) \cup ToSet(frees[t]) /\ Doomed(t)' = Pooled(t)' \cup ToSet(frees[t])
        BY <1>2 DEF Doomed, clientVars
    <2> QED
        BY <1>10, <1>11, <2>1, <2>2
<1>16. \A b \in Block : b \notin F => freed'[b] = freed[b]
    BY <1>5 DEF Types
<1>17. \A b \in Block : b \in F => freed'[b] = 1 /\ freed[b] = 0 /\ b # slot
    BY <1>5, <1>15 DEF Told, Waiting
<1>18. \A u \in Thread : Doomed(u) \subseteq Block
    BY ListsTyped DEF Doomed
<1>19. Numbered'
    <2>1. \A b \in F : b \in Block /\ b <= used
        BY <1>10, ListsTyped DEF Told, Numbered
    <2>2. \A b \in Block : freed'[b] > 0 => b <= used
        BY <1>16, <2>1 DEF Told, Numbered
    <2>3. ASSUME NEW u \in Thread
          PROVE  \A c \in allocs'[u] \cup ToSet(frees'[u]) \cup Pooled(u)' : c <= used'
        BY <1>2, <1>10, <1>12 DEF Told, Numbered
    <2> QED
        BY <1>2, <2>2, <2>3 DEF Told, Numbered, clientVars
<1>20. Private'
    <2> SUFFICES ASSUME NEW u \in Thread, Speculative(u)', NEW c \in allocs'[u]
                 PROVE  /\ freed'[c] = 0 /\ c # slot'
                        /\ \A v \in Thread : c \notin Doomed(v)' /\ c # seen'[v]
        BY DEF Private
    <2>1. Speculative(u) /\ c \in allocs[u] /\ c \in Block
        BY <1>2, <1>13 DEF Types
    <2>2. freed[c] = 0 /\ c # slot /\ \A v \in Thread : c \notin Doomed(v) /\ c # seen[v]
        BY <2>1 DEF Told, Private
    <2> QED
        BY <1>2, <1>14, <1>15, <1>16, <2>1, <2>2 DEF clientVars
<1>21. Waiting'
    <2>1. ASSUME NEW u \in Thread, NEW c \in Doomed(u)'
          PROVE  freed'[c] = 0 /\ c # slot' /\ \A v \in Thread : v # u => c \notin Doomed(v)'
        <3>1. c \in Doomed(u) /\ c \in Block
            BY <1>14, <1>15, <1>18
        <3>2. freed[c] = 0 /\ c # slot /\ \A v \in Thread : v # u => c \notin Doomed(v)
            BY <3>1 DEF Told, Waiting
        <3>3. c \notin F
            BY <1>14, <1>15, <3>2
        <3> QED
            BY <1>2, <1>14, <1>15, <1>16, <3>1, <3>2, <3>3 DEF clientVars
    <2>2. \A u \in Thread : Final(u)' => Distinct(frees'[u]) /\ ToSet(frees'[u]) \cap Pooled(u)' = {}
        <3>1. \A u \in Thread : Pooled(u)' \subseteq Pooled(u)
            BY <1>10, <1>12
        <3> QED
            BY <1>2, <1>13, <3>1 DEF Told, Waiting
    <2>3. ASSUME NEW u \in Thread, NEW i \in DOMAIN limbo'[u]
          PROVE  /\ ToSet(prelimbo'[u]) \cap ToSet(limbo'[u][i].pool) = {}
                 /\ \A j \in DOMAIN limbo'[u] :
                       i # j => ToSet(limbo'[u][i].pool) \cap ToSet(limbo'[u][j].pool) = {}
        <3>1. CASE u # t
            BY <1>3, <3>1 DEF Told, Waiting
        <3>2. CASE u = t
            <4>1. \A j \in 1 .. m :
                     \/ j = 1 /\ limbo'[t][j].pool = prelimbo[t]
                     \/ j # 1 /\ j - 1 \in 1 .. n /\ limbo'[t][j].pool = limbo[t][j - 1].pool
                <5> TAKE j \in 1 .. m
                <5>1. j = 1 \/ (j \in 2 .. m /\ j - 1 \in 1 .. n)
                    BY <1>4
                <5> QED
                    BY <1>4, <5>1
            <4>2. ASSUME NEW j \in 1 .. m, i # j
                  PROVE  ToSet(limbo'[t][i].pool) \cap ToSet(limbo'[t][j].pool) = {}
                <5>1. i \in 1 .. m /\ (i # 1 /\ j # 1 => i - 1 # j - 1)
                    BY <1>4, <3>2, <4>2
                <5> QED
                    BY <1>6, <1>7, <4>1, <4>2, <5>1
            <4> QED
                BY <1>3, <1>4, <3>2, <4>2, EmptySet
        <3> QED
            BY <3>1, <3>2
    <2> QED
        BY <2>1, <2>2, <2>3 DEF Waiting
<1>22. Kept'
    <2> SUFFICES ASSUME NEW c \in 1 .. used
                 PROVE  \/ freed'[c] > 0 \/ slot' = c
                        \/ \E u \in Thread : c \in Doomed(u)'
                        \/ \E u \in Thread : Speculative(u)' /\ c \in allocs'[u]
        BY <1>2 DEF Kept
    <2>1. freed[c] > 0 \/ slot = c \/ (\E u \in Thread : c \in Doomed(u))
              \/ \E u \in Thread : Speculative(u) /\ c \in allocs[u]
        BY DEF Told, Kept
    <2>2. c \in Block
        BY WBMMAssumption DEF Types, Block
    <2>3. CASE c \in F
        BY <1>17, <2>2, <2>3
    <2>4. CASE c \notin F
        BY <1>2, <1>13, <1>14, <1>15, <1>16, <2>1, <2>2, <2>4 DEF clientVars
    <2> QED
        BY <2>3, <2>4
<1>23. Stuck'
    <2> SUFFICES ASSUME NEW r \in Thread, NEW h \in Thread, h # r
                 PROVE  (/\ \A j \in DOMAIN limbo[r] :
                               ToSet(limbo[r][j].pool) \cap held[h] # {} =>
                                   \A i \in 1 .. j : Shows(limbo[r][i].ts, h)
                         /\ Stamping(r) /\ Pooled(r) \cap held[h] # {} =>
                               /\ h <= length[r]
                               /\ h \in DOMAIN ts[r] => ts[r][h] = trans_nums[h])'
        BY DEF Stuck
    <2>1. CASE r # t
        <3>1. \A j \in DOMAIN limbo[r] :
                  ToSet(limbo[r][j].pool) \cap held[h] # {} => \A i \in 1 .. j : Shows(limbo[r][i].ts, h)
            BY DEF Told, Stuck
        <3>2. Stamping(r) /\ Pooled(r) \cap held[h] # {} =>
                   h <= length[r] /\ (h \in DOMAIN ts[r] => ts[r][h] = trans_nums[h])
            BY DEF Told, Stuck
        <3> QED
            BY <1>2, <1>3, <1>12, <2>1, <3>1, <3>2 DEF Stamping, Shows, clientVars, epochs
    <2>2. CASE r = t
        <3>1. ~Stamping(t)'
            BY <1>3, WBMMAssumption DEF Stamping
        <3>2. ASSUME NEW j \in 1 .. m, ToSet(limbo'[t][j].pool) \cap held[h] # {}, NEW i \in 1 .. j
              PROVE  Shows(limbo'[t][i].ts, h)
            <4>1. Pooled(t) \cap held[h] # {}
                <5>1. \A b \in ToSet(limbo'[t][j].pool) : b \in Pooled(t)'
                    BY <1>4, PooledMember DEF Pooled
                <5> QED
                    BY <1>10, <3>2, <5>1
            <4>2. h <= length[t] /\ (h \in DOMAIN ts[t] => ts[t][h] = trans_nums[h])
                BY <1>2, <2>2, <4>1 DEF Told, Stuck
            <4>3. Shows(ts[t], h)
                <5>1. ts[t] \in Seq(Nat) /\ h \in Nat /\ 1 <= h
                    BY WBMMAssumption DEF Types, Thread
                <5> QED
                    BY <1>2, <4>2, <5>1 DEF Shows
            <4>4. CASE i = 1
                BY <1>4, <4>3, <4>4
            <4>5. CASE i # 1
                <5>1. /\ i \in 2 .. m /\ j \in 2 .. m /\ i - 1 \in 1 .. j - 1
                      /\ j - 1 \in DOMAIN limbo[t]
                    BY <1>4, <4>5
                <5>2. limbo'[t][j] = limbo[t][j - 1] /\ limbo'[t][i] = limbo[t][i - 1]
                    BY <1>4, <5>1
                <5> QED
                    BY <2>2, <3>2, <5>1, <5>2 DEF Told, Stuck
            <4>6. Shows(limbo'[t][i].ts, h)
                BY <4>4, <4>5
            <4> QED
                BY <4>6
        <3>3. UNCHANGED <<held, trans_nums>>
            BY <1>2 DEF clientVars, epochs
        <3> QED
            BY <1>4, <2>2, <3>1, <3>2, <3>3 DEF Shows
    <2> QED
        BY <2>1, <2>2
<1>24. Safe'
    <2>1. slot # NULL => freed'[slot] = 0
        BY <1>16, <1>17 DEF Told, Safe, Types
    <2>2. ASSUME NEW u \in Thread, NEW b \in held[u] PROVE freed'[b] = 0
        <3>1. b \in Block /\ freed[b] = 0
            BY DEF Told, Safe, Types
        <3>2. u # t
            BY <2>2 DEF Places
        <3>3. b \notin F
            <4> SUFFICES ASSUME b \in F PROVE FALSE
                OBVIOUS
            <4>1. PICK j \in m .. n : b \in ToSet(limbo[t][j].pool)
                BY <1>9
            <4>2. m \in 1 .. Len(limbo[t]) /\ j \in m .. Len(limbo[t])
                BY <1>4 DEF n
            <4>3. is_strictly_older(ts[t], limbo[t][m].ts)
                BY <1>1, <4>2 DEF SweepFrees
            <4>4. ToSet(limbo[t][j].pool) \cap held[u] = {}
                BY <1>2, <3>2, <4>2, <4>3, SweepSpares
            <4> QED
                BY <2>2, <4>1, <4>4
        <3> QED
            BY <1>16, <3>1, <3>3
    <2> QED
        BY <1>2, <2>1, <2>2 DEF Safe, clientVars
<1>25. Once'
    BY <1>16, <1>17 DEF Told, Once
<1> QED
    BY <1>13, <1>19, <1>20, <1>21, <1>22, <1>23, <1>24, <1>25 DEF Told

-----------------------------------------------------------------------------
(* The invariant, and what it says *)

LEMMA ToldInit == ClientInit => Told
<1> SUFFICES ASSUME ClientInit PROVE Told
    OBVIOUS
<1> USE ClientAssumption, WBMMAssumption DEF ClientInit, WBMMInit
<1>1. 1 \in Block /\ NULL \notin Block /\ Unread \notin Block
    BY DEF Block
<1>2. \A t \in Thread : Pooled(t) = {} /\ Doomed(t) = {} /\ pc[t] = "new" /\ alone # t
    BY EmptySet DEF Pooled, Doomed, Thread
<1>3. EpochsTell
    BY <1>2 DEF EpochsTell, OddInside, Inside
<1>4. Numbered
    BY <1>1, <1>2, EmptySet DEF Numbered, Block
<1>5. Logs /\ Private
    BY <1>2 DEF Logs, Private, Speculative
<1>6. Waiting
    BY <1>2 DEF Waiting, Final
<1>7. Kept /\ Safe /\ Once
    BY <1>1 DEF Kept, Safe, Once
<1>8. Stuck
    BY <1>2 DEF Stuck
<1> QED
    BY <1>3, <1>4, <1>5, <1>6, <1>7, <1>8 DEF Told

LEMMA ToldStep ==
    ASSUME Types, Lag, Sizes, Places, Told, NEW t \in Thread, Step(t), EpochsTell'
    PROVE  Told'
<1>1. CASE Replay(t)
    <2>1. pc[t] = "commit" /\ UNCHANGED clientVars /\ (schedForReclaim(t) \/ ReadEpoch(t) \/ Sweep(t))
        BY <1>1 DEF Replay
    <2> QED
        BY <2>1, SchedTold, ReadEpochTold, SweepTold
<1> QED
    BY <1>1, RegisterTold, BeginTold, ReadTold, LinkTold, UnlinkTold, CommitTold, CommitEndsTold,
       AbortTold, BecomeTold, RestartUntold, DrainTold DEF Step

LEMMA StutterKeeps ==
    ASSUME WBMMInv, UNCHANGED <<wbmmVars, clientVars>>, told' => told PROVE WBMMInv'
<1>1. UNCHANGED <<wbmmVars, clientVars>>
    OBVIOUS
<1>2. (Types /\ Lag /\ Sizes /\ Places)'
    BY <1>1 DEF WBMMInv, Types, Lag, Sizes, Places, Inside, Stamping, wbmmVars, clientVars, epochs, lists
<1>3. Told => Told'
    <2> SUFFICES ASSUME Told PROVE Told'
        OBVIOUS
    <2>1. EpochsTell'
        BY <1>1 DEF Told, EpochsTell, OddInside, Inside, wbmmVars, clientVars, epochs
    <2> QED
        BY <1>1, <2>1, StillTold DEF WBMMInv, Blocked, wbmmVars, clientVars, epochs, lists
<1> QED
    BY <1>2, <1>3 DEF WBMMInv

LEMMA WBMMInductive == ClientSpec => []WBMMInv
<1>1. ClientInit => WBMMInv
    BY TypesInit, ToldInit DEF WBMMInv
<1>2. WBMMInv /\ [ClientNext]_vars => WBMMInv'
    <2> SUFFICES ASSUME WBMMInv, [ClientNext]_vars PROVE WBMMInv'
        OBVIOUS
    <2>1. ASSUME NEW t \in Thread, Step(t), told' = (told /\ EpochsTell') PROVE WBMMInv'
        <3>1. (Types /\ Lag /\ Sizes /\ Places)'
            BY <2>1, TypesStep, LagStep, SizesStep, PlacesStep DEF WBMMInv
        <3>2. told' => Told'
            BY <2>1, ToldStep DEF WBMMInv
        <3> QED
            BY <3>1, <3>2 DEF WBMMInv
    <2>2. CASE Finished /\ told' = (told /\ EpochsTell')
        BY <2>2, StutterKeeps DEF Finished
    <2>3. CASE UNCHANGED vars
        <3>1. UNCHANGED <<wbmmVars, clientVars>> /\ told' = told
            BY <2>3 DEF vars
        <3> QED
            BY <3>1, StutterKeeps
    <2> QED
        BY <2>1, <2>2, <2>3 DEF ClientNext
<1> QED
    BY <1>1, <1>2, PTL DEF ClientSpec

\* Sizes and types of the allocator's state, for any schedule of its threads.
THEOREM WBMMTyping == ClientSpec => []TypeOK
<1>1. WBMMInv => TypeOK
    <2> SUFFICES ASSUME WBMMInv PROVE TypeOK
        OBVIOUS
    <2>1. ASSUME NEW t \in Thread
          PROVE  /\ my_ts[t] - trans_nums[t] \in 0 .. 2
                 /\ allocs[t] \subseteq Block /\ Pooled(t) \subseteq Block
                 /\ Len(prelimbo[t]) <= POOL_SIZE
                 /\ Len(ts[t]) <= length[t] /\ length[t] <= threadcount
                 /\ \A i \in DOMAIN limbo[t] : Len(limbo[t][i].pool) = POOL_SIZE
                 /\ pc[t] \in {"new", "out", "live", "commit"}
                 /\ seen[t] \in Block \cup {NULL, Unread} /\ held[t] \subseteq Block
        <3>1. my_ts[t] - trans_nums[t] \in 0 .. 2
            <4>1. my_ts[t] \in Nat /\ trans_nums[t] \in Nat
                BY DEF WBMMInv, Types
            <4>2. trans_nums[t] <= my_ts[t] /\ my_ts[t] <= trans_nums[t] + 2
                BY DEF WBMMInv, Lag
            <4> QED
                BY <4>1, <4>2
        <3>2. Pooled(t) \subseteq Block
            BY ListsTyped DEF WBMMInv
        <3> QED
            BY <3>1, <3>2 DEF WBMMInv, Types, Sizes
    <2> QED
        BY <2>1 DEF WBMMInv, Types, TypeOK
<1> QED
    BY <1>1, WBMMInductive, PTL

\* No thread has hold of a block that went back to malloc: a pool is freed only once
\* its newest rival shows that every thread has left the transaction it was in
\* (WBMMPolicy.hpp:12-14).
THEOREM WBMMReclaimsSafely == ClientSpec => []NoUseAfterFree
<1>1. WBMMInv => NoUseAfterFree
    BY DEF WBMMInv, Told, Safe, NoUseAfterFree
<1> QED
    BY <1>1, WBMMInductive, PTL

\* Commits, aborts and sweeps of all threads together free a block once.
THEOREM WBMMFreesOnce == ClientSpec => []FreedOnce
<1>1. WBMMInv => FreedOnce
    BY DEF WBMMInv, Told, Once, FreedOnce
<1> QED
    BY <1>1, WBMMInductive, PTL

\* Each block is in use, waits in the lists of one thread, was freed, or is logged by
\* the transaction that allocated it.
THEOREM WBMMAccounts == ClientSpec => []Accounted
<1>1. WBMMInv => Accounted
    <2> SUFFICES ASSUME WBMMInv, told, NEW b \in 1 .. used
                 PROVE  LET keepers == {t \in Thread : b \in Doomed(t)}
                        IN  /\ Cardinality(keepers) <= 1
                            /\ freed[b] > 0 => keepers = {} /\ slot # b
                            /\ freed[b] = 0 => \/ slot = b \/ keepers # {}
                                               \/ \E t \in Thread : b \in allocs[t]
        BY DEF Accounted
    <2> DEFINE keepers == {t \in Thread : b \in Doomed(t)}
    <2>0. Types /\ Told
        BY DEF WBMMInv
    <2>1. \A t, u \in keepers : t = u
        BY <2>0 DEF Told, Waiting
    <2>2. Cardinality(keepers) <= 1
        <3>1. CASE keepers = {}
            BY <3>1, FS_EmptySet
        <3>2. CASE keepers # {}
            <4>1. PICK t \in keepers : TRUE
                BY <3>2
            <4>2. keepers = {t}
                BY <2>1, <4>1
            <4> HIDE DEF keepers
            <4> QED
                BY <4>2, FS_Singleton
        <3> QED
            BY <3>1, <3>2
    <2>3. freed[b] > 0 => keepers = {} /\ slot # b
        <3>1. b # NULL /\ b \in Block
            BY <2>0, WBMMAssumption DEF Types, Block
        <3>2. \A t \in Thread : b \in Doomed(t) => freed[b] = 0
            BY <2>0 DEF Told, Waiting
        <3>3. slot = b => freed[b] = 0
            BY <2>0, <3>1 DEF Told, Safe
        <3> QED
            BY <3>2, <3>3
    <2>4. freed[b] = 0 => slot = b \/ keepers # {} \/ \E t \in Thread : b \in allocs[t]
        BY <2>0 DEF Told, Kept
    <2> QED
        BY <2>2, <2>3, <2>4
<1> QED
    BY <1>1, WBMMInductive, PTL
=============================================================================
