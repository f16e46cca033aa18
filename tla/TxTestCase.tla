----------------------------- MODULE TxTestCase -----------------------------
(***************************************************************************)
(* The test program of bench/main.cpp: run2 gives each worker a list of    *)
(* operations and joins the workers; beside it the observer of             *)
(* Linearizability.tla.  add returns nothing: any answer will do for it.   *)
(*                                                                         *)
(* As in TestCase.tla, the tree is filled first, which is what a worker    *)
(* does whose list starts with adds and which runs before the others.      *)
(***************************************************************************)
EXTENDS TxTree, Sequences

CONSTANTS
    Populations,  \* the sequences of keys the tree may be filled with
    ListLength,   \* ListLength[t]: how many operations worker t is given
    Menu          \* Menu[t]: the operations its list may contain

ASSUME TxTestCaseAssumption ==
    /\ Thread # {}
    /\ Populations \subseteq Seq(Key)
    /\ ListLength \in [Thread -> Nat]
    /\ Menu \in [Thread -> SUBSET S!Op]

VARIABLES
    toAdd,      \* the keys populateTree has still to add
    remaining,  \* remaining[t]: what is left of worker t's list
    main,       \* the main thread: "populate", "work", "joined"
    lin         \* the observer

testVars == <<treeVars, toAdd, remaining, main, lin>>

L == INSTANCE Linearizability

populator == CHOOSE t \in Thread : TRUE

TestInit ==
    /\ Init
    /\ toAdd \in Populations
    /\ remaining = ListLength
    /\ main = "populate"
    /\ lin = L!Empty

Populate ==
    /\ main = "populate"
    /\ toAdd # << >>
    /\ Call(populator, [type |-> "add", key |-> Head(toAdd)])
    /\ toAdd' = Tail(toAdd)
    /\ UNCHANGED <<remaining, main>>

Spawn ==
    /\ main = "populate"
    /\ toAdd = << >>
    /\ pc[populator] = "idle"
    /\ main' = "work"
    /\ UNCHANGED <<treeVars, toAdd, remaining>>

\* work: the next operation of the list.
Work(t) ==
    /\ main = "work"
    /\ remaining[t] > 0
    /\ \E o \in Menu[t] : Call(t, o)
    /\ remaining' = [remaining EXCEPT ![t] = @ - 1]
    /\ UNCHANGED <<toAdd, main>>

InCall(t) == Step(t) /\ UNCHANGED <<toAdd, remaining, main>>

Join ==
    /\ main = "work"
    /\ \A t \in Thread : remaining[t] = 0 /\ pc[t] = "idle"
    /\ main' = "joined"
    /\ UNCHANGED <<treeVars, toAdd, remaining>>

\* A call when a thread leaves "idle", a return when it comes back.
Observe ==
    LET calls   == {t \in Thread : pc[t] = "idle" /\ pc'[t] # "idle"}
        returns == {t \in Thread : pc[t] # "idle" /\ pc'[t] = "idle"}
        answers(t) == IF answer'[t] = "none" THEN S!Answer ELSE {answer'[t]}
    IN  lin' = CASE calls # {}   -> L!Called(lin, CHOOSE t \in calls : TRUE)
                 [] returns # {} -> LET t == CHOOSE u \in returns : TRUE
                                    IN  UNION {L!Returned(lin, op, t, a) : a \in answers(t)}
                 [] OTHER        -> lin

\* The process has ended, or it has crashed.
Exited == (main = "joined" \/ ~Running) /\ UNCHANGED testVars

TestNext ==
    \/ /\ Running
       /\ Populate \/ Spawn \/ (\E t \in Thread : Work(t) \/ InCall(t)) \/ Join
       /\ Observe
    \/ Exited

TestSpec == TestInit /\ [][TestNext]_testVars

\* Every thread is scheduled again and again.
FairTestSpec ==
    TestSpec /\ \A t \in Thread : WF_testVars(Running /\ (Work(t) \/ InCall(t)) /\ Observe)

-----------------------------------------------------------------------------
(* What the tree should be *)

\* The answers given so far are those of operations that took effect one at a
\* time, each between its call and its return.
Linearizable == lin # {}

\* The keys of the tree as inorderPrint would print them.
InOrder ==
    LET keys[i \in 0 .. Cardinality(Node), n \in Ptr] ==
            IF n = NULL \/ i = 0 THEN << >>
            ELSE keys[i - 1, mem[At(n, "left")]] \o <<mem[At(n, "key")]>>
                     \o keys[i - 1, mem[At(n, "right")]]
    IN  keys[Cardinality(Node), mem[rootLoc]]

Contents == {InOrder[i] : i \in DOMAIN InOrder}

\* When no call is in progress the keys in the tree are what the operations leave.
QuiescentContents ==
    (\A t \in Thread : pc[t] = "idle") => \E a \in lin : a.set = Contents

\* Whenever nobody stores, the keys are in order, so that each can be found by a
\* search from the root: what a race takes away, it takes away whole.
SearchTree ==
    owner = NoThread =>
        \A i \in 1 .. Len(InOrder) - 1 : InOrder[i] < InOrder[i + 1]

\* A removal follows a null pointer only when another commit has changed what it has
\* read with TM_READ (bench/main.cpp:231 reads current->right again without it): its
\* next transactional read would have aborted it.
CrashesDoomed ==
    \A t \in Thread :
        pc[t] = "crashed" /\ op[t].type = "remove" => ~TM!Holds(log[t], mem)

\* Every call returns: no null pointer is followed, which would end the process, and
\* a transaction is not aborted by commits of others for ever.
CallsReturn == \A t \in Thread : pc[t] # "idle" ~> pc[t] = "idle"
=============================================================================
