------------------------- MODULE TxThreadProperties -------------------------
(* What the threads of the library rely on when one of them registers, makes *)
(* itself irrevocable, or changes the algorithm for all.                     *)
EXTENDS TxThread

Place == {"unborn", "join", "joinCAS", "configure", "insert", "publish", "reopen",
          "out", "policy", "policyCAS", "quiesce", "install", "resume",
          "load", "clear", "wait", "rescope", "reload", "body", "drain", "restart",
          "end", "release", "unwind", "again", "refused"}

Unregistered == {"unborn", "join", "joinCAS", "configure", "insert", "publish"}

\* Type invariant: the pointers hold functions of an algorithm or their
\* special values, and no thread is lost in a loop or out of the table.
TypeOK ==
    /\ tmbegin \in Alg \cup {Blocker}
    /\ tmrollback \in Alg \cup {Irrevocable}
    /\ tmirrevoc \in Alg \cup {Irrevocable}
    /\ tmabort \in {"default", "irrevocable"}
    /\ oldAbortHandler \in {"none", "default", "irrevocable"}
    /\ algId \in Alg
    /\ threadcount \in Nat
    /\ id \in [Thread -> Nat]
    /\ scope \in [Thread -> BOOLEAN]
    /\ irrevocable \in [Thread -> BOOLEAN]
    /\ barriers \in [Thread -> Alg \cup {Irrevocable, Unset}]
    /\ loaded \in [Thread -> Alg]
    /\ idx \in [Thread -> Nat]
    /\ pc \in [Thread -> Place]

\* The threads that closed the gate and have still to open it, or to hand it
\* to the transaction they run.
Closing(t) ==
    \/ irrevocable[t]
    \/ pc[t] \in {"configure", "insert", "publish", "reopen", "release",
                  "quiesce", "install", "resume", "drain"}

\* inst.cpp:40-45: begin_blocker is installed for irrevocability, for the
\* creation of a thread and for a change of algorithm, and only one of them
\* happens at a time, whoever asks.  So the gate is closed exactly when there
\* is one thread to open it again.
OneBlocker ==
    /\ tmbegin = Blocker <=> \E t \in Thread : Closing(t)
    /\ \A s, t \in Thread : Closing(s) /\ Closing(t) => s = t

\* t runs a transaction: the begin function of an algorithm was called, and
\* neither its commit nor its rollback is over.
Inside(t) == pc[t] \in {"body", "drain", "restart"}

\* t has the library to itself.
Exclusive(t) ==
    \/ irrevocable[t]
    \/ pc[t] \in {"release", "install", "resume"}

\* While a thread is irrevocable, or installs an algorithm, no other thread
\* runs a transaction, although threads are drained one by one and each may
\* have begun again meanwhile (irrevocability.cpp:154-162, txthread.cpp:274-277).
RunsAlone == \A s, t \in Thread : Exclusive(t) /\ Inside(s) => s = t

\* A transaction goes by one algorithm: the one whose begin function started it
\* is in force, and its barriers and rollback are that algorithm's.  An
\* irrevocable one has the irrevocable barriers everywhere.
OneAlgorithm ==
    \A t \in Thread :
        pc[t] = "body" =>
            IF irrevocable[t]
            THEN Irrevocable = barriers[t] /\ Irrevocable = tmrollback /\ tmabort = "irrevocable"
            ELSE /\ loaded[t] = algId
                 /\ algId = barriers[t]
                 /\ algId = tmrollback
                 /\ tmabort = "default"

\* txthread.cpp:88-108: whoever walks the table up to threadcount, at any time,
\* meets threads that are ready, each at the index of its id.
ReadyInTable ==
    \A i \in 1..threadcount :
        /\ i \in DOMAIN threads
        /\ id[threads[i]] = i
        /\ barriers[threads[i]] # Unset

\* irrevocability.cpp:34-37: nobody calls the handlers that trap an abort while
\* irrevocable, which end the program.
NeverRefused == \A t \in Thread : pc[t] # "refused"

Members == {t \in Thread : Inside(t)}

Exclusives == {t \in Thread : Exclusive(t)}

OwnerAmong(S) == IF S = {} THEN NoThread ELSE CHOOSE t \in S : TRUE

Solitude == INSTANCE Rendezvous
    WITH inside <- Members, owner <- OwnerAmong(Exclusives), alg <- algId

\* The protocol of the scopes and tmbegin implements the abstract rendezvous.
ImplementsRendezvous == Solitude!Spec

(* A thread that is in the middle of something is scheduled again and again,   *)
(* while no thread has to register, begin a transaction or change the policy. *)
Obliged(t) == pc[t] \notin {"unborn", "out"} /\ Step(t)

FairSpec == Spec /\ \A t \in Thread : WF_vars(Obliged(t))

\* However it was closed, the gate opens again: no drain waits for a thread
\* that waits for the gate.
GateOpens == tmbegin = Blocker ~> tmbegin # Blocker

\* Every thread that registers gets through, however the others interfere, in a
\* program that at some time stops closing the gate for other reasons: one that
\* changes no policy and asks for no irrevocability, as bench/main.cpp.
EveryoneJoins ==
    <>[](\A t \in Thread : pc[t] \notin {"policyCAS", "drain"}) =>
        \A t \in Thread : pc[t] = "joinCAS" ~> pc[t] = "reopen"
=============================================================================
