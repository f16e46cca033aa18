------------------------------- MODULE KeySet -------------------------------
(***************************************************************************)
(* What the updates of the tree amount to: each call changes the set of    *)
(* keys at most once, at an instant of its own, by exactly its key, and    *)
(* its answer tells whether it did.  (That an answer given without a       *)
(* change is right as well is the business of Linearizability.tla: the     *)
(* search that gives it has no instant of its own.)                        *)
(***************************************************************************)
EXTENDS OrderedSet

CONSTANTS Thread, NoOp

VARIABLES
    set,    \* the keys
    call,   \* call[t]: the call in progress, or NoOp
    took,   \* took[t]: that call has changed the set
    answer  \* answer[t]: what the last call returned

setVars == <<set, call, took, answer>>

Init ==
    /\ set = {}
    /\ call = [t \in Thread |-> NoOp]
    /\ took = [t \in Thread |-> FALSE]
    /\ answer = [t \in Thread |-> "none"]

Begin(t, o) ==
    /\ call[t] = NoOp
    /\ call' = [call EXCEPT ![t] = o]
    /\ UNCHANGED <<set, took, answer>>

\* The one change a call may make; contains makes none.
Change(t) ==
    /\ ~took[t]
    /\ call[t] # NoOp
    /\ After(set, call[t]) # set
    /\ set' = After(set, call[t])
    /\ took' = [took EXCEPT ![t] = TRUE]
    /\ UNCHANGED <<call, answer>>

\* add answers "absent" and remove "present" when they made their change.
End(t) ==
    /\ call[t] # NoOp
    /\ \E a \in Answer :
         /\ call[t].type = "add"    => (a = "absent") = took[t]
         /\ call[t].type = "remove" => (a = "present") = took[t]
         /\ answer' = [answer EXCEPT ![t] = a]
    /\ call' = [call EXCEPT ![t] = NoOp]
    /\ took' = [took EXCEPT ![t] = FALSE]
    /\ UNCHANGED set

Next == \E t \in Thread : Change(t) \/ End(t) \/ \E o \in Op : Begin(t, o)

Spec == Init /\ [][Next]_setVars
=============================================================================
