---------------------------- MODULE NOrecClient ----------------------------
(* Threads that each run a bounded number of bounded transactions. *)
EXTENDS NOrecProperties

CONSTANTS Transactions,  \* Transactions[t]: how many transactions t commits
          Accesses       \* Accesses[t]: how many accesses each of them makes

VARIABLES left,      \* transactions that thread t has still to commit
          accesses   \* accesses its present one may still make

clientVars == <<tmVars, left, accesses>>

ClientInit ==
    /\ Init
    /\ left = Transactions
    /\ accesses = [t \in Thread |-> 0]

ClientBegin(t) ==
    /\ left[t] > 0
    /\ Begin(t)
    /\ accesses' = [accesses EXCEPT ![t] = Accesses[t]]
    /\ UNCHANGED left

ClientAccess(t) ==
    /\ accesses[t] > 0
    /\ Access(t)
    /\ accesses' = [accesses EXCEPT ![t] = @ - 1]
    /\ UNCHANGED left

ClientProceed(t) ==
    /\ Proceed(t)
    /\ IF pc[t] \in {"live", "writeback"} /\ pc'[t] = "idle"
       THEN /\ left' = [left EXCEPT ![t] = @ - 1]
            /\ accesses' = [accesses EXCEPT ![t] = 0]
       ELSE UNCHANGED <<left, accesses>>

\* Every thread has run its transactions.
ClientDone ==
    /\ \A t \in Thread : pc[t] = "idle" /\ left[t] = 0
    /\ UNCHANGED clientVars

Step(t) == ClientBegin(t) \/ ClientAccess(t) \/ ClientProceed(t)

ClientNext == (\E t \in Thread : Step(t)) \/ ClientDone

\* Every thread is scheduled again and again.
ClientSpec == ClientInit /\ [][ClientNext]_clientVars /\ \A t \in Thread : WF_clientVars(Step(t))

\* However the transactions conflict, every one commits in the end.
AllCommit == <>(\A t \in Thread : left[t] = 0)
=============================================================================
