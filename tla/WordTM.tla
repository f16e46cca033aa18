------------------------------- MODULE WordTM -------------------------------
(***************************************************************************)
(* What NOrec gives a program that also looks at memory without the        *)
(* transaction: AtomicTM.tla with a commit in steps.  A transaction that   *)
(* wrote acquires the sequence lock when all it read is still in memory,   *)
(* stores its writes one by one, and releases the lock.  Transactional     *)
(* reads wait for the lock; a plain read of mem does not.                  *)
(***************************************************************************)
CONSTANTS Thread, Loc, Val, NoVal,
          NoThread             \* no thread

\* What the theorems of WordTMProofs.tla assume of the constants.
WordAssumption == NoVal \notin Val /\ NoThread \notin Thread

VARIABLES mem,       \* the memory
          owner,     \* the thread that holds the sequence lock, or NoThread
          live,      \* the threads inside a transaction
          log,       \* log[t]: what t read from memory
          writes,    \* writes[t][l]: what t has still to write to l, or NoVal
          result     \* result[t]: what t's last read returned

wordVars == <<mem, owner, live, log, writes, result>>

Entry    == [addr : Loc, val : Val]
NoWrites == [l \in Loc |-> NoVal]

\* The values in entries are those of memory m.
Holds(entries, m) == \A e \in entries : m[e.addr] = e.val

-----------------------------------------------------------------------------
WordTypeOK ==
    /\ mem    \in [Loc -> Val]
    /\ owner  \in Thread \cup {NoThread}
    /\ live   \subseteq Thread
    /\ log    \in [Thread -> SUBSET Entry]
    /\ writes \in [Thread -> [Loc -> Val \cup {NoVal}]]
    /\ result \in [Thread -> Val \cup {NoVal}]

WordInitWith(memory) ==
    /\ mem = memory
    /\ owner = NoThread
    /\ live = {}
    /\ log = [t \in Thread |-> {}]
    /\ writes = [t \in Thread |-> NoWrites]
    /\ result = [t \in Thread |-> NoVal]

\* Any memory to begin with.
WordInit == \E memory \in [Loc -> Val] : WordInitWith(memory)

Begin(t) ==
    /\ t \notin live
    /\ owner # t
    /\ live' = live \cup {t}
    /\ UNCHANGED <<mem, owner, log, writes, result>>

ReadOwn(t, l) ==
    /\ t \in live
    /\ writes[t][l] # NoVal
    /\ result' = [result EXCEPT ![t] = writes[t][l]]
    /\ UNCHANGED <<mem, owner, live, log, writes>>

ReadMem(t, l) ==
    /\ t \in live
    /\ writes[t][l] = NoVal
    /\ owner = NoThread
    /\ Holds(log[t], mem)
    /\ log' = [log EXCEPT ![t] = @ \cup {[addr |-> l, val |-> mem[l]]}]
    /\ result' = [result EXCEPT ![t] = mem[l]]
    /\ UNCHANGED <<mem, owner, live, writes>>

Write(t, l, v) ==
    /\ t \in live
    /\ writes' = [writes EXCEPT ![t][l] = v]
    /\ UNCHANGED <<mem, owner, live, log, result>>

\* A transaction that wrote nothing needs no lock.
CommitReadOnly(t) ==
    /\ t \in live
    /\ writes[t] = NoWrites
    /\ live' = live \ {t}
    /\ log' = [log EXCEPT ![t] = {}]
    /\ result' = [result EXCEPT ![t] = NoVal]
    /\ UNCHANGED <<mem, owner, writes>>

Acquire(t) ==
    /\ t \in live
    /\ writes[t] # NoWrites
    /\ owner = NoThread
    /\ Holds(log[t], mem)
    /\ owner' = t
    /\ live' = live \ {t}
    /\ log' = [log EXCEPT ![t] = {}]
    /\ result' = [result EXCEPT ![t] = NoVal]
    /\ UNCHANGED <<mem, writes>>

WriteBack(t, l) ==
    /\ owner = t
    /\ writes[t][l] # NoVal
    /\ mem' = [mem EXCEPT ![l] = writes[t][l]]
    /\ writes' = [writes EXCEPT ![t][l] = NoVal]
    /\ UNCHANGED <<owner, live, log, result>>

Release(t) ==
    /\ owner = t
    /\ writes[t] = NoWrites
    /\ owner' = NoThread
    /\ UNCHANGED <<mem, live, log, writes, result>>

\* Only a value that is no longer in memory aborts a transaction.
Abort(t) ==
    /\ t \in live
    /\ ~Holds(log[t], mem)
    /\ live' = live \ {t}
    /\ log' = [log EXCEPT ![t] = {}]
    /\ writes' = [writes EXCEPT ![t] = NoWrites]
    /\ result' = [result EXCEPT ![t] = NoVal]
    /\ UNCHANGED <<mem, owner>>

WordNext ==
    \E t \in Thread :
        \/ Begin(t) \/ CommitReadOnly(t) \/ Acquire(t) \/ Release(t) \/ Abort(t)
        \/ \E l \in Loc : \/ ReadOwn(t, l) \/ ReadMem(t, l) \/ WriteBack(t, l)
                          \/ \E v \in Val : Write(t, l, v)

WordSpec == WordInit /\ [][WordNext]_wordVars

-----------------------------------------------------------------------------
\* The writes of the lock's owner count from the moment it has the lock.
Committed ==
    [l \in Loc |-> IF owner # NoThread /\ writes[owner][l] # NoVal
                   THEN writes[owner][l] ELSE mem[l]]

Buffered == [t \in Thread |-> IF owner = t THEN NoWrites ELSE writes[t]]

Atomic == INSTANCE AtomicTM WITH store <- Committed, writes <- Buffered

\* Stepwise commits are atomic to the other transactions.
ImplementsAtomicTM == Atomic!Spec
=============================================================================
