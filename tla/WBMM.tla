-------------------------------- MODULE WBMM --------------------------------
(***************************************************************************)
(* RSTM's allocator: memory freed by a transaction is kept until no thread *)
(* can be in a transaction that began before, as their epochs tell.        *)
(*                                                                         *)
(* Each thread counts the beginnings and ends of its transactions in its   *)
(* own word of trans_nums: odd means inside.  A plain store to that word   *)
(* may wait in the processor's store buffer, so that the others still see  *)
(* an older value: my_ts is what its thread reads, trans_nums what is in   *)
(* memory.                                                                 *)
(*                                                                         *)
(* malloc never returns an address twice here: blocks are numbered as they *)
(* are allocated, and a freed one is gone for good.                        *)
(***************************************************************************)
EXTENDS Integers, SequencesExt, FiniteSetsExt

CONSTANTS Threads,    \* the threads are 1 .. Threads, in the order they register
          Blocks,     \* the blocks malloc can return are 1 .. Blocks
          POOL_SIZE,  \* how many freed blocks share a timestamp
          NULL        \* no block

ASSUME WBMMAssumption ==
    /\ Threads \in Nat \ {0} /\ Blocks \in Nat /\ POOL_SIZE \in Nat \ {0}
    /\ NULL \notin 1 .. Blocks

VARIABLES threadcount,  \* the threads registered so far
          trans_nums,   \* their epochs in memory
          my_ts,        \* their epochs as they know them
          allocs,       \* what t allocated in its transaction
          frees,        \* what t will free if it commits
          prelimbo,     \* what t freed and not stamped yet
          length,       \* the epochs t is about to collect
          ts,           \* those it has collected
          limbo,        \* t's stamped pools, the newest first
          used,         \* the blocks allocated so far
          freed         \* how often each block was freed

epochs == <<threadcount, trans_nums, my_ts>>
lists  == <<allocs, frees, prelimbo, length, ts, limbo>>
wbmmVars == <<epochs, lists, used, freed>>

Thread == 1 .. Threads
Block  == 1 .. Blocks
Odd(n) == n % 2 = 1

\* No thread is registered; which blocks are in use (used) the program says.
WBMMInit ==
    /\ threadcount = 0
    /\ trans_nums = [t \in Thread |-> 0]
    /\ my_ts      = [t \in Thread |-> 0]
    /\ allocs     = [t \in Thread |-> {}]
    /\ frees      = [t \in Thread |-> << >>]
    /\ prelimbo   = [t \in Thread |-> << >>]
    /\ length     = [t \in Thread |-> 0]
    /\ ts         = [t \in Thread |-> << >>]
    /\ limbo      = [t \in Thread |-> << >>]
    /\ freed      = [b \in Block |-> 0]

\* The blocks are given back to malloc.
Free(blocks) == freed' = [b \in Block |-> freed[b] + IF b \in blocks THEN 1 ELSE 0]

\* t's store of its next epoch: it knows it at once.
NextEpoch(t) == my_ts' = [my_ts EXCEPT ![t] = @ + 1]

\* A locked instruction of t waits until its stores are in memory.
Drained(t) == trans_nums[t] = my_ts[t]

\* Its oldest buffered store reaches memory.
Drain(t) ==
    /\ ~Drained(t)
    /\ trans_nums' = [trans_nums EXCEPT ![t] = @ + 1]
    /\ UNCHANGED <<threadcount, my_ts, lists, used, freed>>

-----------------------------------------------------------------------------
(* What a transaction calls.  Each says what becomes of the lists, of used and *)
(* of freed.                                                                   *)

\* Mutant: what it allocates is not logged.
txAllocUnlogged(t) == used < Blocks /\ used' = used + 1 /\ UNCHANGED allocs

txAlloc(t) ==
    /\ used < Blocks
    /\ used' = used + 1
    /\ allocs' = IF Odd(my_ts[t]) THEN [allocs EXCEPT ![t] = @ \cup {used + 1}] ELSE allocs

txFree(t, b) ==
    IF Odd(my_ts[t])
    THEN frees' = [frees EXCEPT ![t] = Append(@, b)] /\ UNCHANGED freed
    ELSE Free({b}) /\ UNCHANGED frees

onTxBegin(t) == NextEpoch(t) /\ UNCHANGED <<threadcount, trans_nums, lists, used, freed>>

\* Mutant: the blocks to free on commit stay in their list.
onTxAbortKeepsFrees(t) ==
    /\ Free(allocs[t])
    /\ allocs' = [allocs EXCEPT ![t] = {}]
    /\ NextEpoch(t)
    /\ UNCHANGED <<threadcount, trans_nums, frees, prelimbo, length, ts, limbo, used>>

onTxAbort(t) ==
    /\ Free(allocs[t])
    /\ frees'  = [frees EXCEPT ![t] = << >>]
    /\ allocs' = [allocs EXCEPT ![t] = {}]
    /\ NextEpoch(t)
    /\ UNCHANGED <<threadcount, trans_nums, prelimbo, length, ts, limbo, used>>

-----------------------------------------------------------------------------
(* onTxCommit, one step for each block it replays and each epoch it reads. *)

\* Mutant: a pool is found full one block late.
StampingLate(t) == Len(prelimbo[t]) > POOL_SIZE

Stamping(t) == Len(prelimbo[t]) = POOL_SIZE

\* schedForReclaim of the next of the frees; with a full pool handle_full_prelimbo
\* reads how many epochs there are.
schedForReclaim(t) ==
    /\ frees[t] # << >> /\ ~Stamping(t)
    /\ frees' = [frees EXCEPT ![t] = Tail(@)]
    /\ prelimbo' = [prelimbo EXCEPT ![t] = Append(@, Head(frees[t]))]
    /\ length' = [length EXCEPT ![t] = IF Stamping(t)' THEN threadcount ELSE 0]
    /\ UNCHANGED <<epochs, allocs, ts, limbo, used, freed>>

\* Its loop over trans_nums.
ReadEpoch(t) ==
    /\ Stamping(t) /\ Len(ts[t]) < length[t]
    /\ LET i == Len(ts[t]) + 1
       IN  ts' = [ts EXCEPT ![t] = Append(@, IF i = t THEN my_ts[t] ELSE trans_nums[i])]
    /\ UNCHANGED <<epochs, allocs, frees, prelimbo, length, limbo, used, freed>>

\* Mutant: the same odd epoch counts as a later one.
is_older(newer, older) == \A i \in DOMAIN older : newer[i] >= older[i] \/ ~Odd(newer[i])

\* Since older was collected, every thread was outside a transaction at some time.
is_strictly_older(newer, older) ==
    \A i \in DOMAIN older : newer[i] > older[i] \/ ~Odd(newer[i])

\* Of pools, the newest first, the first that the newest dominates and all behind it.
Dominated(pools) ==
    LET older == {j \in 2 .. Len(pools) : is_strictly_older(pools[1].ts, pools[j].ts)}
    IN  IF older = {} THEN {} ELSE Min(older) .. Len(pools)

\* The pool goes to the front of the limbo list, whose dominated end is freed.
Sweep(t) ==
    /\ Stamping(t) /\ Len(ts[t]) = length[t]
    /\ LET pools == <<[pool |-> prelimbo[t], ts |-> ts[t]]>> \o limbo[t]
           ended == Dominated(pools)
       IN  /\ Free(UNION {ToSet(pools[j].pool) : j \in ended})
           /\ limbo' = [limbo EXCEPT ![t] = SubSeq(pools, 1, Len(pools) - Cardinality(ended))]
    /\ prelimbo' = [prelimbo EXCEPT ![t] = << >>]
    /\ length'   = [length EXCEPT ![t] = 0]
    /\ ts'       = [ts EXCEPT ![t] = << >>]
    /\ UNCHANGED <<epochs, allocs, frees, used>>

\* All frees are scheduled: the lists are reset and the epoch ends.
Committed(t) ==
    /\ frees[t] = << >> /\ ~Stamping(t)
    /\ allocs' = [allocs EXCEPT ![t] = {}]
    /\ NextEpoch(t)
    /\ UNCHANGED <<threadcount, trans_nums, frees, prelimbo, length, ts, limbo, used, freed>>
=============================================================================
