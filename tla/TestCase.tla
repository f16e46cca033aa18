------------------------------ MODULE TestCase ------------------------------
(***************************************************************************)
(* The test program of main.cpp around the tree: the main thread fills the *)
(* tree, gives each worker a list of random operations, and joins them.    *)
(*                                                                         *)
(* run2 itself never calls populateTree; its effect is that of a worker    *)
(* whose list starts with adds and which runs before the others get going. *)
(* The random lists are chosen element by element as the worker reaches    *)
(* them.                                                                   *)
(***************************************************************************)
EXTENDS PaVTProperties

CONSTANTS
    Populations,  \* the sequences of keys the tree may be filled with
    ListLength,   \* ListLength[t]: how many operations worker t is given
    Menu          \* Menu[t]: the operations its list may contain

ASSUME TestCaseAssumption ==
    /\ Thread # {}
    /\ Populations \subseteq Seq(Key)
    /\ ListLength \in [Thread -> Nat]
    /\ Menu \in [Thread -> SUBSET S!Op]

VARIABLES
    toAdd,      \* the keys populateTree has still to add
    remaining,  \* remaining[t]: what is left of worker t's list
    main        \* the main thread: "populate", "work", "joined"

testVars == <<vars, toAdd, remaining, main>>

\* populateTree runs in the main thread, before there are workers: any one of
\* their identities can stand for it.
populator == CHOOSE t \in Thread : TRUE

TestInit ==
    /\ Init
    /\ toAdd \in Populations
    /\ remaining = ListLength
    /\ main = "populate"

Populate ==
    /\ main = "populate"
    /\ toAdd # << >>
    /\ Call(populator, [type |-> "add", key |-> Head(toAdd)])
    /\ toAdd' = Tail(toAdd)
    /\ UNCHANGED <<remaining, main>>

Spawn ==
    /\ main = "populate"
    /\ toAdd = << >>
    /\ pc[populator] = "idle"
    /\ main' = "work"
    /\ UNCHANGED <<vars, toAdd, remaining>>

\* work: the next operation of the list.
Work(t) ==
    /\ main = "work"
    /\ remaining[t] > 0
    /\ \E o \in Menu[t] : Call(t, o)
    /\ remaining' = [remaining EXCEPT ![t] = @ - 1]
    /\ UNCHANGED <<toAdd, main>>

InCall(t) == Step(t) /\ UNCHANGED <<toAdd, remaining, main>>

\* All workers have come to the end of their lists.
Join ==
    /\ main = "work"
    /\ \A t \in Thread : remaining[t] = 0 /\ pc[t] = "idle"
    /\ main' = "joined"
    /\ UNCHANGED <<vars, toAdd, remaining>>

\* The process has ended.
Exited == main = "joined" /\ UNCHANGED testVars

TestNext == Populate \/ Spawn \/ (\E t \in Thread : Work(t) \/ InCall(t)) \/ Join \/ Exited

\* Every thread is scheduled again and again, main included; a mutex that
\* stays free is granted.
TestFairness ==
    /\ \A t \in Thread : WF_testVars(Work(t) \/ InCall(t))
    /\ WF_testVars(Populate \/ Spawn \/ Join)

TestSpec == TestInit /\ [][TestNext]_testVars
FairTestSpec == TestSpec /\ TestFairness

-----------------------------------------------------------------------------
\* Every call returns: no lock is waited for in vain, and no search or
\* validation restarts for ever.
CallsReturn == \A t \in Thread : pc[t] # "idle" ~> pc[t] = "idle"

\* The program gets past its joins (main.cpp:660).
Termination == <>(main = "joined")
=============================================================================
