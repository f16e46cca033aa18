------------------------------ MODULE TxThread ------------------------------
(* How the threads of a program come to use the transactional memory, and    *)
(* how one of them gets it to itself: the constructor of TxThread, begin and *)
(* commit around a transaction, begin_blocker, set_policy with               *)
(* install_algorithm, and become_irrevoc with the barriers of an irrevocable *)
(* transaction.                                                              *)
(*                                                                           *)
(* A function pointer is the algorithm whose function it holds, so           *)
(* tmbegin = a stands for tmbegin == stms[a].begin.  What an algorithm does  *)
(* inside a transaction is left out: here it commits, aborts on a conflict,  *)
(* or asks to become irrevocable.  An irrevocable transaction runs the       *)
(* barriers of CGL, which never abort.  CGL itself, MCS, Ticket, Serial and  *)
(* TML have a path of their own in become_irrevoc and are not among Alg.     *)
EXTENDS Integers

CONSTANTS Thread, Alg,
          NoThread,
          Blocker,      \* begin_blocker
          Irrevocable,  \* commit_irrevocable, rollback_irrevocable, CGL's irrevoc
          Unset         \* a pointer nobody has written

ASSUME ThreadAssumption ==
    /\ NoThread \notin Thread
    /\ Blocker \notin Alg
    /\ Irrevocable \notin Alg
    /\ Unset \notin Alg
    /\ Unset # Irrevocable
    /\ Blocker # Irrevocable

VARIABLES tmbegin, tmrollback, tmirrevoc,  \* the global function pointers
          tmabort, oldAbortHandler,        \* default_abort_handler or abort_irrevocable
          algId,                           \* curr_policy.ALG_ID
          threads, threadcount,            \* the table of threads, as far as it is written
          id, scope, irrevocable,          \* fields of TxThread: scope # NULL is scope
          barriers,                        \* tmread, tmwrite and tmcommit of a thread
          loaded,                          \* the algorithm or begin function it last read
          idx,                             \* where it is in a loop over threads
          pc

pointers == <<tmbegin, tmrollback, tmirrevoc, tmabort, oldAbortHandler, algId>>
table == <<threads, threadcount, id>>
vars == <<pointers, table, scope, irrevocable, barriers, loaded, idx, pc>>

Goto(t, place) == pc' = [pc EXCEPT ![t] = place]

\* After sys_init: one algorithm is in force and no thread is registered.
Init ==
    /\ algId \in Alg
    /\ tmbegin = algId /\ tmrollback = algId /\ tmirrevoc = algId
    /\ tmabort = "default" /\ oldAbortHandler = "none"
    /\ threads = <<>> /\ threadcount = 0
    /\ id = [t \in Thread |-> 0]
    /\ scope = [t \in Thread |-> FALSE]
    /\ irrevocable = [t \in Thread |-> FALSE]
    /\ barriers = [t \in Thread |-> Unset]
    /\ loaded = [t \in Thread |-> algId]
    /\ idx = [t \in Thread |-> 0]
    /\ pc = [t \in Thread |-> "unborn"]

(* Closing the gate.  The constructor and set_policy read the algorithm in   *)
(* force, then swap its begin function for begin_blocker, and start over     *)
(* when that fails.                                                          *)

ReadAlgorithm(t) ==
    /\ \/ pc[t] \in {"unborn", "join"} /\ Goto(t, "joinCAS")
       \/ pc[t] \in {"out", "policy"} /\ Goto(t, "policyCAS")
    /\ loaded' = [loaded EXCEPT ![t] = algId]
    /\ UNCHANGED <<pointers, table, scope, irrevocable, barriers, idx>>

\* Mutant: a plain store in place of the compare-and-swap.
InstallBlockerPlain(t) ==
    /\ tmbegin' = Blocker
    /\ \/ pc[t] = "joinCAS" /\ Goto(t, "configure")
       \/ pc[t] = "policyCAS" /\ Goto(t, "quiesce")
    /\ idx' = [idx EXCEPT ![t] = 0]
    /\ UNCHANGED <<tmrollback, tmirrevoc, tmabort, oldAbortHandler, algId,
                   table, scope, irrevocable, barriers, loaded>>

InstallBlocker(t) ==
    /\ tmbegin = loaded[t]
    /\ tmbegin' = Blocker
    /\ \/ pc[t] = "joinCAS" /\ Goto(t, "configure")
       \/ pc[t] = "policyCAS" /\ Goto(t, "quiesce")
    /\ idx' = [idx EXCEPT ![t] = 0]
    /\ UNCHANGED <<tmrollback, tmirrevoc, tmabort, oldAbortHandler, algId,
                   table, scope, irrevocable, barriers, loaded>>

MissBlocker(t) ==
    /\ tmbegin # loaded[t]
    /\ \/ pc[t] = "joinCAS" /\ Goto(t, "join")
       \/ pc[t] = "policyCAS" /\ Goto(t, "policy")
    /\ UNCHANGED <<pointers, table, scope, irrevocable, barriers, loaded, idx>>

(* The constructor of TxThread, once it has the gate closed. *)

\* Mutant: the new count is written when it is computed.
ConfigureCounted(t) ==
    /\ pc[t] = "configure"
    /\ id' = [id EXCEPT ![t] = threadcount + 1]
    /\ threadcount' = threadcount + 1
    /\ barriers' = [barriers EXCEPT ![t] = algId]
    /\ Goto(t, "insert")
    /\ UNCHANGED <<pointers, threads, scope, irrevocable, loaded, idx>>

Configure(t) ==
    /\ pc[t] = "configure"
    /\ id' = [id EXCEPT ![t] = threadcount + 1]
    /\ barriers' = [barriers EXCEPT ![t] = algId]
    /\ Goto(t, "insert")
    /\ UNCHANGED <<pointers, threads, threadcount, scope, irrevocable, loaded, idx>>

Insert(t) ==
    /\ pc[t] = "insert"
    /\ threads' = [i \in DOMAIN threads \cup {id[t]} |-> IF i = id[t] THEN t ELSE threads[i]]
    /\ Goto(t, "publish")
    /\ UNCHANGED <<pointers, threadcount, id, scope, irrevocable, barriers, loaded, idx>>

Publish(t) ==
    /\ pc[t] = "publish"
    /\ threadcount' = id[t]
    /\ Goto(t, "reopen")
    /\ UNCHANGED <<pointers, threads, id, scope, irrevocable, barriers, loaded, idx>>

\* Mutant: the constructor leaves begin_blocker installed.
ReopenForgotten(t) ==
    /\ \/ pc[t] \in {"reopen", "resume"} /\ Goto(t, "out")
       \/ pc[t] = "release" /\ Goto(t, "end")
    /\ tmbegin' = IF pc[t] = "reopen" THEN tmbegin ELSE algId
    /\ UNCHANGED <<tmrollback, tmirrevoc, tmabort, oldAbortHandler, algId,
                   table, scope, irrevocable, barriers, loaded, idx>>

\* The begin function of the algorithm in force takes begin_blocker's place:
\* the last write of the constructor, of install_algorithm, and the release
\* in commit_irrevocable.
Reopen(t) ==
    /\ \/ pc[t] \in {"reopen", "resume"} /\ Goto(t, "out")
       \/ pc[t] = "release" /\ Goto(t, "end")
    /\ tmbegin' = algId
    /\ UNCHANGED <<tmrollback, tmirrevoc, tmabort, oldAbortHandler, algId,
                   table, scope, irrevocable, barriers, loaded, idx>>

(* Transactions. *)

\* begin() of the API: the scope is set before tmbegin is read.
Begin(t) ==
    /\ pc[t] \in {"out", "again"}
    /\ scope' = [scope EXCEPT ![t] = TRUE]
    /\ Goto(t, "load")
    /\ UNCHANGED <<pointers, table, irrevocable, barriers, loaded, idx>>

\* The begin function that was read starts the transaction.
Start(t) ==
    /\ pc[t] \in {"load", "reload"}
    /\ tmbegin # Blocker
    /\ loaded' = [loaded EXCEPT ![t] = tmbegin]
    /\ Goto(t, "body")
    /\ UNCHANGED <<pointers, table, scope, irrevocable, barriers, idx>>

\* set_irrevocable_barriers
SetIrrevocableBarriers(t) ==
    /\ barriers' = [barriers EXCEPT ![t] = Irrevocable]
    /\ tmrollback' = Irrevocable
    /\ tmirrevoc' = Irrevocable
    /\ oldAbortHandler' = tmabort
    /\ tmabort' = "irrevocable"

\* begin_blocker lets through the thread that is to be irrevocable.
StartIrrevocable(t) ==
    /\ pc[t] = "load"
    /\ tmbegin = Blocker
    /\ irrevocable[t]
    /\ SetIrrevocableBarriers(t)
    /\ Goto(t, "body")
    /\ UNCHANGED <<tmbegin, algId, table, scope, irrevocable, loaded, idx>>

\* Mutant: begin_blocker waits with the scope set.
BlockedInScope(t) ==
    /\ \/ pc[t] = "load" /\ ~irrevocable[t]
       \/ pc[t] = "reload"
    /\ tmbegin = Blocker
    /\ UNCHANGED vars

\* Every other thread finds the gate closed: it clears its scope, waits for
\* begin_blocker to go, sets the scope and reads tmbegin again.
Blocked(t) ==
    /\ \/ pc[t] = "load" /\ ~irrevocable[t]
       \/ pc[t] = "reload"
    /\ tmbegin = Blocker
    /\ Goto(t, "clear")
    /\ UNCHANGED <<pointers, table, scope, irrevocable, barriers, loaded, idx>>

Clear(t) ==
    /\ pc[t] = "clear"
    /\ scope' = [scope EXCEPT ![t] = FALSE]
    /\ Goto(t, "wait")
    /\ UNCHANGED <<pointers, table, irrevocable, barriers, loaded, idx>>

Wait(t) ==
    /\ pc[t] = "wait"
    /\ tmbegin # Blocker
    /\ Goto(t, "rescope")
    /\ UNCHANGED <<pointers, table, scope, irrevocable, barriers, loaded, idx>>

\* Mutant: begin_blocker does not read tmbegin after it sets the scope.
RescopeAtOnce(t) ==
    /\ pc[t] = "rescope"
    /\ scope' = [scope EXCEPT ![t] = TRUE]
    /\ loaded' = [loaded EXCEPT ![t] = algId]
    /\ Goto(t, "body")
    /\ UNCHANGED <<pointers, table, irrevocable, barriers, idx>>

Rescope(t) ==
    /\ pc[t] = "rescope"
    /\ scope' = [scope EXCEPT ![t] = TRUE]
    /\ Goto(t, "reload")
    /\ UNCHANGED <<pointers, table, irrevocable, barriers, loaded, idx>>

Commit(t) ==
    /\ pc[t] = "body"
    /\ barriers[t] \in Alg
    /\ Goto(t, "end")
    /\ UNCHANGED <<pointers, table, scope, irrevocable, barriers, loaded, idx>>

\* Mutant: tmrollback keeps the function that ends the program.
UnsetAllButRollback(t) ==
    /\ barriers' = [barriers EXCEPT ![t] = algId]
    /\ tmirrevoc' = algId
    /\ tmabort' = oldAbortHandler
    /\ UNCHANGED tmrollback

\* unset_irrevocable_barriers
UnsetIrrevocableBarriers(t) ==
    /\ barriers' = [barriers EXCEPT ![t] = algId]
    /\ tmrollback' = algId
    /\ tmirrevoc' = algId
    /\ tmabort' = oldAbortHandler

CommitIrrevocable(t) ==
    /\ pc[t] = "body"
    /\ barriers[t] = Irrevocable
    /\ irrevocable' = [irrevocable EXCEPT ![t] = FALSE]
    /\ UnsetIrrevocableBarriers(t)
    /\ Goto(t, "release")
    /\ UNCHANGED <<tmbegin, oldAbortHandler, algId, table, scope, loaded, idx>>

\* commit() of the API clears the scope last.
End(t) ==
    /\ pc[t] = "end"
    /\ scope' = [scope EXCEPT ![t] = FALSE]
    /\ Goto(t, "out")
    /\ UNCHANGED <<pointers, table, irrevocable, barriers, loaded, idx>>

\* tmabort: abort_irrevocable and rollback_irrevocable end the program, and
\* the rollback of an algorithm gives the thread that algorithm's barriers.
Abort(t) ==
    IF tmabort = "irrevocable" \/ tmrollback = Irrevocable
    THEN Goto(t, "refused") /\ UNCHANGED barriers
    ELSE /\ barriers' = [barriers EXCEPT ![t] = tmrollback]
         /\ Goto(t, "unwind")

Conflict(t) ==
    /\ pc[t] = "body"
    /\ barriers[t] \in Alg
    /\ Abort(t)
    /\ UNCHANGED <<pointers, table, scope, irrevocable, loaded, idx>>

\* PostRollback clears the scope, and longjmp leads back to begin.
Unwind(t) ==
    /\ pc[t] = "unwind"
    /\ scope' = [scope EXCEPT ![t] = FALSE]
    /\ Goto(t, "again")
    /\ UNCHANGED <<pointers, table, irrevocable, barriers, loaded, idx>>

(* become_irrevoc.  It returns at once when tmirrevoc is CGL's, which leaves *)
(* everything as it is.                                                      *)

CloseForIrrevocable(t) ==
    /\ pc[t] = "body"
    /\ tmirrevoc # Irrevocable
    /\ tmbegin = algId
    /\ tmbegin' = Blocker
    /\ idx' = [idx EXCEPT ![t] = 0]
    /\ Goto(t, "drain")
    /\ UNCHANGED <<tmrollback, tmirrevoc, tmabort, oldAbortHandler, algId,
                   table, scope, irrevocable, barriers, loaded>>

\* Whoever else has the gate closed, the transaction aborts.
MissIrrevocable(t) ==
    /\ pc[t] = "body"
    /\ tmirrevoc # Irrevocable
    /\ tmbegin # algId
    /\ Abort(t)
    /\ UNCHANGED <<pointers, table, scope, irrevocable, loaded, idx>>

\* Nobody with this index is in a transaction: set_policy waits for every
\* thread, become_irrevoc for every thread but itself.
Drained(t) ==
    \/ ~scope[threads[idx[t] + 1]]
    \/ pc[t] = "drain" /\ idx[t] + 1 = id[t]

Drain(t) ==
    /\ pc[t] \in {"drain", "quiesce"}
    /\ idx[t] < threadcount
    /\ Drained(t)
    /\ idx' = [idx EXCEPT ![t] = @ + 1]
    /\ UNCHANGED <<pointers, table, scope, irrevocable, barriers, loaded, pc>>

\* The algorithm's own irrevoc decides whether the transaction can go on as
\* it is.
InFlight(t) ==
    /\ pc[t] = "drain"
    /\ idx[t] = threadcount
    /\ irrevocable' = [irrevocable EXCEPT ![t] = TRUE]
    /\ \/ SetIrrevocableBarriers(t) /\ Goto(t, "body")
       \/ /\ Goto(t, "restart")
          /\ UNCHANGED <<tmrollback, tmirrevoc, tmabort, oldAbortHandler, barriers>>
    /\ UNCHANGED <<tmbegin, algId, table, scope, loaded, idx>>

\* If not, it aborts, and begin_blocker will let it through as irrevocable.
Restart(t) ==
    /\ pc[t] = "restart"
    /\ Abort(t)
    /\ UNCHANGED <<pointers, table, scope, irrevocable, loaded, idx>>

(* set_policy and install_algorithm. *)

\* Mutant: set_policy does not wait for the transactions that run.
ChooseAtOnce(t) ==
    /\ pc[t] = "quiesce"
    /\ \E a \in Alg : loaded' = [loaded EXCEPT ![t] = a]
    /\ idx' = [idx EXCEPT ![t] = 0]
    /\ Goto(t, "install")
    /\ UNCHANGED <<pointers, table, scope, irrevocable, barriers>>

ChooseAlgorithm(t) ==
    /\ pc[t] = "quiesce"
    /\ idx[t] = threadcount
    /\ \E a \in Alg : loaded' = [loaded EXCEPT ![t] = a]
    /\ idx' = [idx EXCEPT ![t] = 0]
    /\ Goto(t, "install")
    /\ UNCHANGED <<pointers, table, scope, irrevocable, barriers>>

InstallBarriers(t) ==
    /\ pc[t] = "install"
    /\ idx[t] < threadcount
    /\ barriers' = [barriers EXCEPT ![threads[idx[t] + 1]] = loaded[t]]
    /\ idx' = [idx EXCEPT ![t] = @ + 1]
    /\ UNCHANGED <<pointers, table, scope, irrevocable, loaded, pc>>

\* Mutant: tmrollback stays with the old algorithm.
InstallAllButRollback(t) ==
    /\ pc[t] = "install"
    /\ idx[t] = threadcount
    /\ tmirrevoc' = loaded[t]
    /\ algId' = loaded[t]
    /\ Goto(t, "resume")
    /\ UNCHANGED <<tmbegin, tmrollback, tmabort, oldAbortHandler, table, scope,
                   irrevocable, barriers, loaded, idx>>

InstallAlgorithm(t) ==
    /\ pc[t] = "install"
    /\ idx[t] = threadcount
    /\ tmrollback' = loaded[t]
    /\ tmirrevoc' = loaded[t]
    /\ algId' = loaded[t]
    /\ Goto(t, "resume")
    /\ UNCHANGED <<tmbegin, tmabort, oldAbortHandler, table, scope, irrevocable,
                   barriers, loaded, idx>>

(* What a thread that is past its choices does next, and what it may choose. *)

Registering(t) == Configure(t) \/ Insert(t) \/ Publish(t)

Entering(t) == Start(t) \/ StartIrrevocable(t) \/ Blocked(t) \/ Clear(t) \/ Wait(t) \/ Rescope(t)

Leaving(t) == Commit(t) \/ CommitIrrevocable(t) \/ End(t) \/ Conflict(t) \/ Unwind(t)

BecomeIrrevocable(t) == CloseForIrrevocable(t) \/ MissIrrevocable(t) \/ InFlight(t) \/ Restart(t)

Installing(t) == ChooseAlgorithm(t) \/ InstallBarriers(t) \/ InstallAlgorithm(t)

Step(t) ==
    \/ ReadAlgorithm(t) \/ InstallBlocker(t) \/ MissBlocker(t) \/ Reopen(t)
    \/ Registering(t) \/ Begin(t) \/ Entering(t) \/ Leaving(t)
    \/ BecomeIrrevocable(t) \/ Drain(t) \/ Installing(t)

Next == \E t \in Thread : Step(t)

Spec == Init /\ [][Next]_vars
=============================================================================
