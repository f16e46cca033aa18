----------------------------- MODULE WBMMClient -----------------------------
(***************************************************************************)
(* Transactions that insert and remove the block behind one shared pointer *)
(* and free what they remove, and what must then hold of WBMM.tla.         *)
(*                                                                         *)
(* NOrec is as in NOrecProperties.tla: a transaction that has read the     *)
(* pointer commits only if it still has that value, and runs on, doomed,   *)
(* until it notices.                                                       *)
(***************************************************************************)
EXTENDS WBMM

CONSTANTS Transactions,  \* Transactions[t]: how many transactions t begins
          Irrevocable,   \* the threads that may ask for irrevocability
          Unread         \* the slot of a transaction that has not read it

ASSUME ClientAssumption == Unread \notin Block \cup {NULL} /\ Blocks # 0

VARIABLES slot,   \* the shared pointer
          pc,     \* where t is: "new", "out", "live" or "commit"
          seen,   \* t's read set: what it read from the slot, or Unread
          mine,   \* the slot as t sees it, its own writes included
          wrote,  \* whether it wrote the slot
          held,   \* the blocks that t may still dereference
          alone,  \* the irrevocable thread, or 0
          left,   \* the transactions t may still begin
          told    \* the epochs have told who is inside: see EpochsTell

clientVars == <<slot, pc, seen, mine, wrote, held, alone, left>>
vars == <<wbmmVars, clientVars, told>>

Inside(t) == pc[t] \in {"live", "commit"}

ClientInit ==
    /\ WBMMInit
    /\ used = 1
    /\ slot = 1
    /\ pc   = [t \in Thread |-> "new"]
    /\ seen = [t \in Thread |-> Unread]
    /\ mine = [t \in Thread |-> NULL]
    /\ wrote = [t \in Thread |-> FALSE]
    /\ held = [t \in Thread |-> {}]
    /\ alone = 0
    /\ left = Transactions
    /\ told = TRUE

Goto(t, place) == pc' = [pc EXCEPT ![t] = place]
Forget(t) ==
    /\ seen' = [seen EXCEPT ![t] = Unread]
    /\ held' = [held EXCEPT ![t] = {}]
    /\ mine' = [mine EXCEPT ![t] = NULL]
    /\ wrote' = [wrote EXCEPT ![t] = FALSE]

\* The next thread registers, when the gate is open.
Register(t) ==
    /\ pc[t] = "new" /\ t = threadcount + 1 /\ alone = 0
    /\ threadcount' = t
    /\ Goto(t, "out")
    /\ UNCHANGED <<trans_nums, my_ts, lists, used, freed, slot, seen, mine, wrote, held, alone, left>>

\* TM_BEGIN installs the scope by a CAS, then calls begin.
Begin(t) ==
    /\ pc[t] = "out" /\ left[t] > 0 /\ alone = 0 /\ Drained(t)
    /\ onTxBegin(t)
    /\ Goto(t, "live")
    /\ left' = [left EXCEPT ![t] = @ - 1]
    /\ UNCHANGED <<slot, seen, mine, wrote, held, alone>>

Read(t) ==
    /\ pc[t] = "live" /\ seen[t] = Unread
    /\ seen' = [seen EXCEPT ![t] = slot]
    /\ mine' = [mine EXCEPT ![t] = slot]
    /\ held' = [held EXCEPT ![t] = {slot} \ {NULL}]
    /\ UNCHANGED <<wbmmVars, slot, pc, wrote, alone, left>>

\* An irrevocable thread stores at once.
Store(t, b) ==
    /\ mine' = [mine EXCEPT ![t] = b]
    /\ wrote' = [wrote EXCEPT ![t] = TRUE]
    /\ slot' = IF alone = t THEN b ELSE slot

Link(t) ==
    /\ pc[t] = "live" /\ seen[t] # Unread /\ mine[t] = NULL
    /\ txAlloc(t)
    /\ Store(t, used + 1)
    /\ held' = [held EXCEPT ![t] = @ \cup {used + 1}]
    /\ UNCHANGED <<epochs, frees, prelimbo, length, ts, limbo, freed, pc, seen, alone, left>>

\* Having freed a block, its transaction leaves it alone.
Unlink(t) ==
    /\ pc[t] = "live" /\ seen[t] # Unread /\ mine[t] # NULL
    /\ txFree(t, mine[t])
    /\ Store(t, NULL)
    /\ held' = [held EXCEPT ![t] = @ \ {mine[t]}]
    /\ UNCHANGED <<epochs, allocs, prelimbo, length, ts, limbo, used, pc, seen, alone, left>>

Valid(t) == seen[t] \in {Unread, slot}

\* A writer's commit takes the sequence lock by a CAS; a reader's writes nothing.
\* An irrevocable one opens the gate.
Commit(t) ==
    /\ pc[t] = "live"
    /\ IF alone = t \/ ~wrote[t] THEN UNCHANGED slot
       ELSE Valid(t) /\ Drained(t) /\ slot' = mine[t]
    /\ alone' = IF alone = t THEN 0 ELSE alone
    /\ Goto(t, "commit")
    /\ Forget(t)
    /\ UNCHANGED <<wbmmVars, left>>

Replay(t) ==
    /\ pc[t] = "commit"
    /\ schedForReclaim(t) \/ ReadEpoch(t) \/ Sweep(t)
    /\ UNCHANGED clientVars

CommitEnds(t) ==
    /\ pc[t] = "commit"
    /\ Committed(t)
    /\ Goto(t, "out")
    /\ UNCHANGED <<slot, seen, mine, wrote, held, alone, left>>

\* A value has changed, or another thread closed the gate first.
Abort(t) ==
    /\ pc[t] = "live" /\ alone # t
    /\ onTxAbort(t)
    /\ Goto(t, "out")
    /\ Forget(t)
    /\ UNCHANGED <<slot, alone, left>>

\* become_irrevoc has closed the gate and waited for the others to be outside.
\* NOrec's irrevoc stores the writes of a valid transaction, which goes on.
Become(t) ==
    /\ pc[t] = "live" /\ t \in Irrevocable /\ alone = 0 /\ Valid(t) /\ Drained(t)
    /\ \A u \in Thread \ {t} : ~Inside(u)
    /\ slot' = IF wrote[t] THEN mine[t] ELSE slot
    /\ alone' = t
    /\ UNCHANGED <<wbmmVars, pc, seen, mine, wrote, held, left>>

\* One that is not valid is aborted and starts again as irrevocable: begin_blocker
\* lets it through, without a call of onTxBegin.
Restart(t) ==
    /\ pc[t] = "live" /\ t \in Irrevocable /\ alone = 0 /\ ~Valid(t) /\ Drained(t)
    /\ \A u \in Thread \ {t} : ~Inside(u)
    /\ onTxAbort(t)
    /\ alone' = t
    /\ Forget(t)
    /\ UNCHANGED <<slot, pc, left>>

Finished ==
    /\ \A t \in Thread : pc[t] = "out" /\ left[t] = 0 /\ Drained(t)
    /\ UNCHANGED <<wbmmVars, clientVars>>

-----------------------------------------------------------------------------
Pooled(t) == ToSet(prelimbo[t]) \cup UNION {ToSet(limbo[t][i].pool) : i \in DOMAIN limbo[t]}

\* The blocks that t is to free, now that nothing can abort it.
Doomed(t) == Pooled(t) \cup IF pc[t] = "commit" \/ alone = t THEN ToSet(frees[t]) ELSE {}

\* Type invariant: a pool never overflows, and of each thread the epochs in memory
\* are at most two stores behind.
TypeOK ==
    /\ threadcount \in 0 .. Threads
    /\ \A t \in Thread :
        /\ my_ts[t] - trans_nums[t] \in 0 .. 2
        /\ allocs[t] \subseteq Block /\ Pooled(t) \subseteq Block
        /\ Len(prelimbo[t]) <= POOL_SIZE
        /\ Len(ts[t]) <= length[t] /\ length[t] <= threadcount
        /\ \A i \in DOMAIN limbo[t] : Len(limbo[t][i].pool) = POOL_SIZE
        /\ pc[t] \in {"new", "out", "live", "commit"}
        /\ seen[t] \in Block \cup {NULL, Unread} /\ held[t] \subseteq Block
    /\ used \in 0 .. Blocks /\ freed \in [Block -> Nat]
    /\ slot \in Block \cup {NULL} /\ alone \in 0 .. Threads

\* An epoch is odd inside a transaction (WBMMPolicy.hpp:146).
OddInside == \A t \in Thread : Inside(t) => Odd(my_ts[t])

\* It is odd in memory too before its thread gets hold of a block.
EpochsTell == OddInside /\ \A t \in Thread : held[t] # {} => Odd(trans_nums[t])

Step(t) ==
    \/ Register(t) \/ Begin(t) \/ Read(t) \/ Link(t) \/ Unlink(t) \/ Commit(t)
    \/ Replay(t) \/ CommitEnds(t) \/ Abort(t) \/ Become(t) \/ Restart(t)
    \/ Drain(t) /\ UNCHANGED clientVars

ClientNext ==
    /\ (\E t \in Thread : Step(t)) \/ Finished
    /\ told' = (told /\ EpochsTell')

ClientSpec == ClientInit /\ [][ClientNext]_vars

-----------------------------------------------------------------------------
(* As long as the epochs tell who is inside *)

\* No transaction, doomed or not, has hold of a block that was returned to malloc
\* (WBMMPolicy.hpp:12-14).
NoUseAfterFree == told => \A t \in Thread : \A b \in held[t] : freed[b] = 0

\* No block is freed twice, by whatever mixture of commits and aborts.
FreedOnce == told => \A b \in Block : freed[b] <= 1

\* A block that was neither freed nor is in use waits in exactly one list: nothing
\* leaks when a transaction aborts and nothing waits twice when it commits.
Accounted ==
    told => \A b \in 1 .. used :
        LET keepers == {t \in Thread : b \in Doomed(t)}
        IN  /\ Cardinality(keepers) <= 1
            /\ freed[b] > 0 => keepers = {} /\ slot # b
            /\ freed[b] = 0 => slot = b \/ keepers # {} \/ \E t \in Thread : b \in allocs[t]
=============================================================================
