-------------------------- MODULE NOrecProperties --------------------------
(* What makes NOrec.tla correct, and what it implements. *)
EXTENDS NOrec

\* t's transaction can still commit: it has not, and no entry of its log was
\* found to differ.
Alive(t) == pc[t] \notin {"idle", "writeback"} /\ valid[t]

\* The words in entries have the logged values in memory.
Holds(entries) == \A e \in entries : mem[e.addr] = e.val

\* The sequence lock is odd exactly while one thread stores its writes, and that
\* thread took it from its own start_time.
OneWriter ==
    /\ Even(timestamp) <=> \A t \in Thread : pc[t] # "writeback"
    /\ \A t \in Thread : pc[t] = "writeback" => timestamp = start_time[t] + 1
    /\ \A t, u \in Thread : pc[t] = "writeback" /\ pc[u] = "writeback" => t = u

\* While the timestamp is the one a transaction last validated at, its whole log
\* is in memory, whatever committed, aborted or was stored before; and so is the
\* word it has just loaded.  Values that changed and changed back are no exception.
LogIsSnapshot ==
    \A t \in Thread :
        Alive(t) /\ start_time[t] = timestamp =>
            /\ Holds(vlist[t])
            /\ pc[t] = "loaded" => tmp[t] = mem[addr[t]]

\* While the timestamp is the one validate sampled, the entries it has compared
\* without a difference are in memory.
ComparedHold ==
    \A t \in Thread :
        pc[t] = "check" /\ valid[t] /\ s[t] = timestamp => Holds(vlist[t] \ unchecked[t])

\* A transaction is rolled back only if another one committed after it began,
\* and after it last validated: two transactions never abort each other.
RollbackIsLate == \A t \in Thread : Rollback(t) => start_time[t] < timestamp - 1

AbortMeansCommit == [][RollbackIsLate]_tmVars

-----------------------------------------------------------------------------
\* The atomic transactions: WordTM.tla's lock is held by the thread that stores.
Owner ==
    IF \E t \in Thread : pc[t] = "writeback"
    THEN CHOOSE t \in Thread : pc[t] = "writeback" ELSE NoThread

\* A transaction that found a difference counts as aborted at once.
SeenLog(t)    == IF Alive(t) THEN vlist[t] ELSE {}
SeenResult(t) == IF Alive(t) THEN result[t] ELSE NoVal
SeenWrites(t) == IF valid[t] THEN writes[t] ELSE NoWrites

Live    == {t \in Thread : Alive(t)}
Log     == [t \in Thread |-> SeenLog(t)]
Result  == [t \in Thread |-> SeenResult(t)]
ToWrite == [t \in Thread |-> SeenWrites(t)]

Word == INSTANCE WordTM WITH
    owner <- Owner, live <- Live, log <- Log, writes <- ToWrite, result <- Result

\* Reads come from one snapshot, commits are exclusive, and only a changed value
\* aborts: the transactions of WordTM.tla.
ImplementsWordTM == Word!WordSpec

\* They are atomic, the writer that is still storing included.
ImplementsAtomicTM == Word!ImplementsAtomicTM
=============================================================================
