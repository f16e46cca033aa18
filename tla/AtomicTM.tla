------------------------------ MODULE AtomicTM ------------------------------
(***************************************************************************)
(* What a program may expect of its transactions: they take effect one at  *)
(* a time, and even one that will be aborted only sees values that were    *)
(* all in memory at one instant, when it read the last of them.            *)
(*                                                                         *)
(* It is what the code promises with "all reads were consistent" of a      *)
(* transaction (norec.cpp:182), stated without any lock, time or buffer.   *)
(***************************************************************************)
CONSTANTS Thread, Loc, Val,
          NoVal            \* no value, outside Val

VARIABLES store,     \* the memory that committed transactions left
          live,      \* the threads inside a transaction
          log,       \* log[t]: what t read from memory
          writes,    \* writes[t][l]: what t will write to l, or NoVal
          result     \* result[t]: what t's last read returned

vars == <<store, live, log, writes, result>>

Entry    == [addr : Loc, val : Val]
NoWrites == [l \in Loc |-> NoVal]

\* The values in entries are those of memory m.
Holds(entries, m) == \A e \in entries : m[e.addr] = e.val

\* Memory m with the writes w made in it.
Written(m, w) == [l \in Loc |-> IF w[l] = NoVal THEN m[l] ELSE w[l]]

\* Thread t forgets what it read and wrote.
Forget(t) ==
    /\ live'   = live \ {t}
    /\ log'    = [log EXCEPT ![t] = {}]
    /\ writes' = [writes EXCEPT ![t] = NoWrites]
    /\ result' = [result EXCEPT ![t] = NoVal]

-----------------------------------------------------------------------------
TypeOK ==
    /\ store  \in [Loc -> Val]
    /\ live   \subseteq Thread
    /\ log    \in [Thread -> SUBSET Entry]
    /\ writes \in [Thread -> [Loc -> Val \cup {NoVal}]]
    /\ result \in [Thread -> Val \cup {NoVal}]

Init ==
    /\ store \in [Loc -> Val]
    /\ live = {}
    /\ log = [t \in Thread |-> {}]
    /\ writes = [t \in Thread |-> NoWrites]
    /\ result = [t \in Thread |-> NoVal]

Begin(t) ==
    /\ t \notin live
    /\ live' = live \cup {t}
    /\ UNCHANGED <<store, log, writes, result>>

\* A transaction sees its own writes.
ReadOwn(t, l) ==
    /\ t \in live
    /\ writes[t][l] # NoVal
    /\ result' = [result EXCEPT ![t] = writes[t][l]]
    /\ UNCHANGED <<store, live, log, writes>>

\* Any other value comes from memory, while all that was read before is there.
ReadStore(t, l) ==
    /\ t \in live
    /\ writes[t][l] = NoVal
    /\ Holds(log[t], store)
    /\ log' = [log EXCEPT ![t] = @ \cup {[addr |-> l, val |-> store[l]]}]
    /\ result' = [result EXCEPT ![t] = store[l]]
    /\ UNCHANGED <<store, live, writes>>

Write(t, l, v) ==
    /\ t \in live
    /\ writes' = [writes EXCEPT ![t][l] = v]
    /\ UNCHANGED <<store, live, log, result>>

\* All that was read is still there when the writes take effect.
Commit(t) ==
    /\ t \in live
    /\ writes[t] = NoWrites \/ Holds(log[t], store)
    /\ store' = Written(store, writes[t])
    /\ Forget(t)

Abort(t) ==
    /\ t \in live
    /\ Forget(t)
    /\ UNCHANGED store

Next ==
    \E t \in Thread :
        \/ Begin(t) \/ Commit(t) \/ Abort(t)
        \/ \E l \in Loc : \/ ReadOwn(t, l) \/ ReadStore(t, l)
                          \/ \E v \in Val : Write(t, l, v)

Spec == Init /\ [][Next]_vars
=============================================================================
