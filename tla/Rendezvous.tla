----------------------------- MODULE Rendezvous -----------------------------
(* What begin_blocker is for.  Threads run transactions of one algorithm     *)
(* together, until one of them has the library to itself: it may then run a  *)
(* transaction alone, or, when nobody runs one, put another algorithm in     *)
(* force.                                                                    *)

CONSTANTS Thread, Alg, NoThread

VARIABLES inside,  \* the threads in a transaction
          owner,   \* the thread that has the library to itself, or NoThread
          alg      \* the algorithm in force

rendezvousVars == <<inside, owner, alg>>

Init ==
    /\ inside = {}
    /\ owner = NoThread
    /\ alg \in Alg

Enter(t) ==
    /\ t \notin inside
    /\ owner \in {NoThread, t}
    /\ inside' = inside \cup {t}
    /\ UNCHANGED <<owner, alg>>

Leave(t) ==
    /\ t \in inside
    /\ inside' = inside \ {t}
    /\ UNCHANGED <<owner, alg>>

Own(t) ==
    /\ owner = NoThread
    /\ inside \subseteq {t}
    /\ owner' = t
    /\ UNCHANGED <<inside, alg>>

Disown(t) ==
    /\ owner = t
    /\ t \notin inside
    /\ owner' = NoThread
    /\ UNCHANGED <<inside, alg>>

Switch(t) ==
    /\ owner = t
    /\ inside = {}
    /\ alg' \in Alg
    /\ UNCHANGED <<inside, owner>>

Next == \E t \in Thread : Enter(t) \/ Leave(t) \/ Own(t) \/ Disown(t) \/ Switch(t)

Spec == Init /\ [][Next]_rendezvousVars
=============================================================================
