------------------------------- MODULE PaVTLin -------------------------------
(* The test program beside the observer of Linearizability.tla. *)
EXTENDS TestCase

VARIABLE lin

L == INSTANCE Linearizability

LinInit == TestInit /\ lin = L!Empty

\* The observer sees a call when a thread leaves "idle" and its return when it
\* comes back; every other step is invisible to it.
Observe ==
    LET calls   == {t \in Thread : pc[t] = "idle" /\ pc'[t] # "idle"}
        returns == {t \in Thread : pc[t] # "idle" /\ pc'[t] = "idle"}
    IN  lin' = CASE calls # {}   -> L!Called(lin, CHOOSE t \in calls : TRUE)
                 [] returns # {} -> LET t == CHOOSE u \in returns : TRUE
                                    IN  L!Returned(lin, op, t, result'[t])
                 [] OTHER        -> lin

LinNext == TestNext /\ Observe

LinSpec == LinInit /\ [][LinNext]_<<testVars, lin>>

\* The fairness of TestCase.tla: observing a step prevents none.
FairLinSpec ==
    /\ LinSpec
    /\ \A t \in Thread : WF_<<testVars, lin>>((Work(t) \/ InCall(t)) /\ Observe)
    /\ WF_<<testVars, lin>>((Populate \/ Spawn \/ Join) /\ Observe)

-----------------------------------------------------------------------------
\* The answers given so far are those of operations that took effect one at a
\* time, each between its call and its return.
Linearizable == lin # {}

\* When no call is in progress the keys in the tree are what those operations
\* leave: none is lost and none comes back.
QuiescentContents ==
    (\A t \in Thread : pc[t] = "idle") =>
        \E a \in lin : a.set = {k \in Key : Find(k) # NULL}
=============================================================================
