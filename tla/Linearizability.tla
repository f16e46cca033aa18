--------------------------- MODULE Linearizability ---------------------------
(***************************************************************************)
(* An observer of calls and returns.  It keeps every account of the        *)
(* history so far in which each operation took effect at one instant       *)
(* between its call and its return, on the set of OrderedSet.tla: an       *)
(* account is the set left by the operations that took effect, and for     *)
(* each thread whether its call is still to take effect or which answer it *)
(* got.  The history is linearizable as long as an account is left.        *)
(***************************************************************************)
EXTENDS OrderedSet, Naturals, FiniteSets
CONSTANT Thread

Account == [set : SUBSET Key, st : [Thread -> Answer \cup {"idle", "pending"}]]

Empty == {[set |-> {}, st |-> [t \in Thread |-> "idle"]]}

\* Thread t's call o takes effect in account a.
TakeEffect(a, t, o) ==
    [set |-> After(a.set, o), st |-> [a.st EXCEPT ![t] = Reply(a.set, o)]]

\* The accounts in which any of the pending calls ops[t] took effect as well.
Closure(accounts, ops) ==
    LET pending(a) == {t \in Thread : a.st[t] = "pending"}
        extend(A) == A \cup UNION {{TakeEffect(a, t, ops[t]) : t \in pending(a)} : a \in A}
        grow[i \in 0 .. Cardinality(Thread)] == IF i = 0 THEN accounts ELSE extend(grow[i-1])
    IN  grow[Cardinality(Thread)]

\* Thread t makes a call.
Called(accounts, t) == {[a EXCEPT !.st[t] = "pending"] : a \in accounts}

\* Thread t's call returns answer: only the accounts that gave it are left.
Returned(accounts, ops, t, answer) ==
    {[a EXCEPT !.st[t] = "idle"] : a \in {b \in Closure(accounts, ops) : b.st[t] = answer}}
=============================================================================
