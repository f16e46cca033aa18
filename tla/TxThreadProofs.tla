--------------------------- MODULE TxThreadProofs ---------------------------
(* Proofs that registration, set_policy and become_irrevoc exclude one       *)
(* another and the transactions of other threads, for any number of threads  *)
(* and algorithms.                                                           *)
EXTENDS TxThreadProperties, TLAPS

(* The inductive invariant. *)

\* A thread is irrevocable from its rendezvous to its commit, across an abort.
IrrevocablePlace ==
    \A t \in Thread :
        irrevocable[t] => pc[t] \in {"body", "restart", "unwind", "again", "load"}

\* The thread that runs an irrevocable transaction has the barriers for it.
Bare(t) == pc[t] = "body" /\ irrevocable[t]

IrrevocablePointers ==
    IF \E t \in Thread : Bare(t)
    THEN /\ tmrollback = Irrevocable /\ tmirrevoc = Irrevocable
         /\ tmabort = "irrevocable" /\ oldAbortHandler = "default"
    ELSE /\ tmrollback = algId /\ tmirrevoc = algId
         /\ tmabort = "default"

Registered(t) == pc[t] \notin Unregistered

\* The threads of the table are the registered ones, and the one that is
\* about to enter it has the next index.
Numbered ==
    /\ \A t \in Thread : Registered(t) => id[t] \in 1..threadcount /\ threads[id[t]] = t
    /\ \A i \in 1..threadcount :
          /\ i \in DOMAIN threads
          /\ threads[i] \in Thread
          /\ Registered(threads[i])
          /\ id[threads[i]] = i
    /\ \A t \in Thread : pc[t] \in {"insert", "publish"} => id[t] = threadcount + 1
    /\ \A t \in Thread : pc[t] = "publish" => threads[id[t]] = t /\ id[t] \in DOMAIN threads

\* Whoever may be in a transaction has its scope set.
InScope ==
    \A t \in Thread :
        pc[t] \in {"load", "clear", "reload", "body", "drain", "restart", "end", "release", "unwind"}
            => scope[t]

\* The threads that a drain has passed are in no transaction.
Passed ==
    \A h, t \in Thread :
        /\ pc[h] \in {"drain", "quiesce"}
        /\ Registered(t)
        /\ id[t] <= idx[h]
        /\ Inside(t)
        => t = h

Configured(t) == pc[t] \notin {"unborn", "join", "joinCAS", "configure"}

\* The barriers of a thread are those of the algorithm in force, or of the
\* next one where an installation has got that far.
Barriers ==
    \A t \in Thread :
        Configured(t) =>
            \/ Bare(t) /\ barriers[t] = Irrevocable
            \/ ~Bare(t) /\ barriers[t] = algId /\ \A h \in Thread : pc[h] = "install" => id[t] > idx[h]
            \/ ~Bare(t) /\ \E h \in Thread : pc[h] = "install" /\ id[t] <= idx[h] /\ barriers[t] = loaded[h]

\* A transaction that is not irrevocable was begun by the algorithm in force.
Begun == \A t \in Thread : Inside(t) /\ ~irrevocable[t] => loaded[t] = algId

\* An open gate leads to the algorithm in force.
GateIsForce == tmbegin \in {Blocker, algId}

Closed ==
    /\ TypeOK
    /\ IrrevocablePlace
    /\ OneBlocker
    /\ NeverRefused

Held ==
    /\ Closed
    /\ Numbered
    /\ InScope
    /\ Passed
    /\ RunsAlone
    /\ IrrevocablePointers
    /\ Barriers
    /\ Begun
    /\ GateIsForce

(* The steps of a thread, one by one. *)
USE DEF pointers, table, Goto

LEMMA BodyBarriers ==
    ASSUME Held, NEW t \in Thread, pc[t] = "body"
    PROVE  IF irrevocable[t]
           THEN barriers[t] = Irrevocable /\ tmirrevoc = Irrevocable /\ oldAbortHandler = "default"
           ELSE barriers[t] \in Alg /\ barriers[t] # Irrevocable
<1>1. CASE irrevocable[t]
    BY <1>1 DEF Held, Bare, IrrevocablePointers, Barriers, Configured
<1>2. CASE ~irrevocable[t]
    <2>1. barriers[t] = algId \/ \E h \in Thread : barriers[t] = loaded[h]
        BY <1>2 DEF Held, Bare, Barriers, Configured
    <2>. QED BY <1>2, <2>1, ThreadAssumption DEF Held, Closed, TypeOK
<1>. QED BY <1>1, <1>2

LEMMA TypeStep ==
    ASSUME Held, NEW t \in Thread, Step(t)
    PROVE  TypeOK'
<1> USE DEF Held, Closed, TypeOK, Place
<1>1. CASE ReadAlgorithm(t) BY <1>1 DEF ReadAlgorithm
<1>2. CASE InstallBlocker(t) BY <1>2 DEF InstallBlocker
<1>3. CASE MissBlocker(t) BY <1>3 DEF MissBlocker
<1>4. CASE Reopen(t) BY <1>4 DEF Reopen
<1>5. CASE Registering(t) BY <1>5 DEF Registering, Configure, Insert, Publish
<1>6. CASE Begin(t) BY <1>6 DEF Begin
<1>7. CASE Start(t) BY <1>7 DEF Start
<1>8. CASE StartIrrevocable(t) BY <1>8 DEF StartIrrevocable, SetIrrevocableBarriers
<1>9. CASE Blocked(t) \/ Clear(t) \/ Wait(t) \/ Rescope(t)
      BY <1>9 DEF Blocked, Clear, Wait, Rescope
<1>10. CASE Commit(t) \/ End(t) \/ Unwind(t) BY <1>10 DEF Commit, End, Unwind
<1>11. CASE CommitIrrevocable(t)
       BY <1>11, BodyBarriers DEF CommitIrrevocable, UnsetIrrevocableBarriers
<1>12. CASE Conflict(t) \/ MissIrrevocable(t) \/ Restart(t)
       BY <1>12 DEF Conflict, MissIrrevocable, Restart, Abort
<1>13. CASE CloseForIrrevocable(t) BY <1>13 DEF CloseForIrrevocable
<1>14. CASE Drain(t) BY <1>14 DEF Drain
<1>15. CASE InFlight(t)
       BY <1>15 DEF InFlight, SetIrrevocableBarriers
<1>16. CASE ChooseAlgorithm(t) BY <1>16 DEF ChooseAlgorithm
<1>17. CASE InstallBarriers(t) BY <1>17 DEF InstallBarriers, Numbered
<1>18. CASE InstallAlgorithm(t) BY <1>18 DEF InstallAlgorithm
<1>. QED BY <1>1, <1>2, <1>3, <1>4, <1>5, <1>6, <1>7, <1>8, <1>9, <1>10, <1>11, <1>12,
            <1>13, <1>14, <1>15, <1>16, <1>17, <1>18
         DEF Step, Entering, Leaving, BecomeIrrevocable, Installing

LEMMA AbortsAllowed ==
    ASSUME Held, NEW t \in Thread, Conflict(t) \/ MissIrrevocable(t) \/ Restart(t)
    PROVE  tmabort = "default" /\ tmrollback = algId
<1>1. ASSUME NEW s \in Thread, Bare(s) PROVE FALSE
    <2>1. s = t BY <1>1 DEF Held, RunsAlone, Exclusive, Bare, Inside, Conflict, MissIrrevocable, Restart
    <2>2. pc[t] = "body" /\ irrevocable[t] BY <1>1, <2>1 DEF Bare
    <2>. QED BY <2>2, BodyBarriers, ThreadAssumption DEF Conflict, MissIrrevocable, Restart
<1>. QED BY <1>1 DEF Held, IrrevocablePointers

LEMMA ClosedStep ==
    ASSUME Held, NEW t \in Thread, Step(t)
    PROVE  IrrevocablePlace' /\ OneBlocker' /\ NeverRefused'
<1>. TypeOK' BY TypeStep
<1> USE DEF Held, Closed, TypeOK, Place, IrrevocablePlace, OneBlocker, NeverRefused, Closing
<1>1. CASE ReadAlgorithm(t) BY <1>1 DEF ReadAlgorithm
<1>2. CASE InstallBlocker(t)
    <2>1. tmbegin # Blocker BY <1>2, ThreadAssumption DEF InstallBlocker
    <2>. QED BY <1>2, <2>1 DEF InstallBlocker
<1>3. CASE MissBlocker(t) BY <1>3 DEF MissBlocker
<1>4. CASE Reopen(t)
    <2>1. tmbegin' # Blocker BY <1>4, ThreadAssumption DEF Reopen
    <2>. QED BY <1>4, <2>1 DEF Reopen
<1>5. CASE Registering(t) BY <1>5 DEF Registering, Configure, Insert, Publish
<1>6. CASE Begin(t) BY <1>6 DEF Begin
<1>7. CASE Start(t) BY <1>7 DEF Start
<1>8. CASE StartIrrevocable(t) BY <1>8 DEF StartIrrevocable, SetIrrevocableBarriers
<1>9. CASE Blocked(t) \/ Clear(t) \/ Wait(t) \/ Rescope(t)
      BY <1>9 DEF Blocked, Clear, Wait, Rescope
<1>10. CASE Commit(t) \/ End(t) \/ Unwind(t)
       BY <1>10, BodyBarriers, ThreadAssumption DEF Commit, End, Unwind
<1>11. CASE CommitIrrevocable(t)
       BY <1>11, BodyBarriers DEF CommitIrrevocable, UnsetIrrevocableBarriers
<1>12. CASE Conflict(t) \/ MissIrrevocable(t) \/ Restart(t)
       BY <1>12, AbortsAllowed, ThreadAssumption DEF Conflict, MissIrrevocable, Restart, Abort
<1>13. CASE CloseForIrrevocable(t) BY <1>13, ThreadAssumption DEF CloseForIrrevocable
<1>14. CASE Drain(t) BY <1>14 DEF Drain
<1>15. CASE InFlight(t)
       BY <1>15 DEF InFlight, SetIrrevocableBarriers
<1>16. CASE ChooseAlgorithm(t) BY <1>16 DEF ChooseAlgorithm
<1>17. CASE InstallBarriers(t) BY <1>17 DEF InstallBarriers, Numbered
<1>18. CASE InstallAlgorithm(t) BY <1>18 DEF InstallAlgorithm
<1>. QED BY <1>1, <1>2, <1>3, <1>4, <1>5, <1>6, <1>7, <1>8, <1>9, <1>10, <1>11, <1>12,
            <1>13, <1>14, <1>15, <1>16, <1>17, <1>18
         DEF Step, Entering, Leaving, BecomeIrrevocable, Installing

LEMMA NumberedStep ==
    ASSUME Held, NEW t \in Thread, Step(t)
    PROVE  Numbered'
<1>. TypeOK' BY TypeStep
<1> USE DEF Held, Closed, TypeOK, Place, Numbered, Registered, Unregistered
<1>1. CASE ReadAlgorithm(t) BY <1>1 DEF ReadAlgorithm
<1>2. CASE InstallBlocker(t) BY <1>2 DEF InstallBlocker
<1>3. CASE MissBlocker(t) BY <1>3 DEF MissBlocker
<1>4. CASE Reopen(t) BY <1>4 DEF Reopen
<1>5. CASE Configure(t) BY <1>5 DEF Configure
<1>6. CASE Insert(t)
    <2>1. \A s \in Thread : pc[s] # "publish" BY <1>6 DEF Insert, OneBlocker, Closing
    <2>. QED BY <1>6, <2>1 DEF Insert
<1>7. CASE Publish(t)
    <2>1. \A s \in Thread : pc[s] \in {"insert", "publish"} => s = t
          BY <1>7 DEF Publish, OneBlocker, Closing
    <2>. QED BY <1>7, <2>1 DEF Publish
<1>8. CASE Begin(t) BY <1>8 DEF Begin
<1>9. CASE Entering(t)
      BY <1>9 DEF Entering, Start, StartIrrevocable, Blocked, Clear, Wait, Rescope
<1>10. CASE Leaving(t)
       BY <1>10 DEF Leaving, Commit, CommitIrrevocable, End, Conflict, Unwind, Abort
<1>11. CASE BecomeIrrevocable(t)
       BY <1>11 DEF BecomeIrrevocable, CloseForIrrevocable, MissIrrevocable, InFlight, Restart, Abort
<1>12. CASE Drain(t) \/ Installing(t)
       BY <1>12 DEF Drain, Installing, ChooseAlgorithm, InstallBarriers, InstallAlgorithm
<1>. QED BY <1>1, <1>2, <1>3, <1>4, <1>5, <1>6, <1>7, <1>8, <1>9, <1>10, <1>11, <1>12
         DEF Step, Registering

LEMMA InScopeStep ==
    ASSUME Held, NEW t \in Thread, Step(t)
    PROVE  InScope'
<1> USE DEF Held, Closed, TypeOK, Place, InScope
<1>1. CASE ReadAlgorithm(t) BY <1>1 DEF ReadAlgorithm
<1>2. CASE InstallBlocker(t) BY <1>2 DEF InstallBlocker
<1>3. CASE MissBlocker(t) BY <1>3 DEF MissBlocker
<1>4. CASE Reopen(t) BY <1>4 DEF Reopen
<1>5. CASE Registering(t) BY <1>5 DEF Registering, Configure, Insert, Publish
<1>6. CASE Begin(t) BY <1>6 DEF Begin
<1>7. CASE Entering(t)
      BY <1>7 DEF Entering, Start, StartIrrevocable, Blocked, Clear, Wait, Rescope
<1>8. CASE Leaving(t)
      BY <1>8 DEF Leaving, Commit, CommitIrrevocable, End, Conflict, Unwind, Abort
<1>9. CASE BecomeIrrevocable(t)
      BY <1>9 DEF BecomeIrrevocable, CloseForIrrevocable, MissIrrevocable, InFlight, Restart, Abort
<1>10. CASE Drain(t) \/ Installing(t)
       BY <1>10 DEF Drain, Installing, ChooseAlgorithm, InstallBarriers, InstallAlgorithm
<1>. QED BY <1>1, <1>2, <1>3, <1>4, <1>5, <1>6, <1>7, <1>8, <1>9, <1>10 DEF Step

\* A thread that is drained past is in no transaction; a transaction begins
\* only while the gate is open, or as the irrevocable one.
LEMMA PassedStep ==
    ASSUME Held, NEW t \in Thread, Step(t)
    PROVE  Passed'
<1>. TypeOK' BY TypeStep
<1> USE DEF Held, Closed, TypeOK, Place, Passed, Registered, Unregistered, Inside
<1>1. CASE ReadAlgorithm(t) BY <1>1 DEF ReadAlgorithm
<1>2. CASE InstallBlocker(t)
    <2>1. \A s \in Thread : Registered(s) => id[s] > 0 BY DEF Numbered
    <2>. QED BY <1>2, <2>1 DEF InstallBlocker
<1>3. CASE MissBlocker(t) BY <1>3 DEF MissBlocker
<1>4. CASE Reopen(t) BY <1>4 DEF Reopen
<1>5. CASE Registering(t) BY <1>5 DEF Registering, Configure, Insert, Publish
<1>6. CASE Begin(t) BY <1>6 DEF Begin
<1>7. CASE Start(t)
    <2>1. \A h \in Thread : pc[h] \notin {"drain", "quiesce"} BY <1>7 DEF Start, OneBlocker, Closing
    <2>. QED BY <1>7, <2>1 DEF Start
<1>8. CASE StartIrrevocable(t)
    <2>1. \A h \in Thread : pc[h] \notin {"drain", "quiesce"}
          BY <1>8 DEF StartIrrevocable, OneBlocker, Closing
    <2>. QED BY <1>8, <2>1 DEF StartIrrevocable
<1>9. CASE Blocked(t) \/ Clear(t) \/ Wait(t) \/ Rescope(t)
      BY <1>9 DEF Blocked, Clear, Wait, Rescope
<1>10. CASE Leaving(t)
       BY <1>10 DEF Leaving, Commit, CommitIrrevocable, End, Conflict, Unwind, Abort
<1>11. CASE CloseForIrrevocable(t)
    <2>1. \A s \in Thread : Registered(s) => id[s] > 0 BY DEF Numbered
    <2>2. \A h \in Thread : pc[h] \notin {"drain", "quiesce"}
          BY <1>11, ThreadAssumption DEF CloseForIrrevocable, OneBlocker, Closing
    <2>. QED BY <1>11, <2>1, <2>2 DEF CloseForIrrevocable
<1>12. CASE MissIrrevocable(t) \/ InFlight(t) \/ Restart(t)
       BY <1>12 DEF MissIrrevocable, InFlight, Restart, Abort
<1>13. CASE Drain(t)
    <2>1. ASSUME NEW s \in Thread, Registered(s), Inside(s), id[s] = idx[t] + 1 PROVE s = t
        <3>1. threads[idx[t] + 1] = s BY <2>1 DEF Numbered
        <3>2. scope[s] BY <2>1 DEF InScope
        <3>3. id[t] = id[s] /\ Registered(t) BY <1>13, <2>1, <3>1, <3>2 DEF Drain, Drained
        <3>. QED BY <2>1, <3>1, <3>3 DEF Numbered
    <2>. QED BY <1>13, <2>1 DEF Drain
<1>14. CASE Installing(t)
       BY <1>14 DEF Installing, ChooseAlgorithm, InstallBarriers, InstallAlgorithm
<1>. QED BY <1>1, <1>2, <1>3, <1>4, <1>5, <1>6, <1>7, <1>8, <1>9, <1>10, <1>11, <1>12, <1>13, <1>14
         DEF Step, Entering, BecomeIrrevocable

\* At the end of a drain every thread of the table has been passed.
LEMMA AllPassed ==
    ASSUME Held, NEW t \in Thread, pc[t] \in {"drain", "quiesce"}, idx[t] = threadcount,
           NEW s \in Thread, Inside(s)
    PROVE  s = t
<1>1. Registered(s) BY DEF Inside, Registered, Unregistered
<1>2. id[s] <= idx[t] BY <1>1 DEF Held, Closed, TypeOK, Numbered
<1>. QED BY <1>1, <1>2 DEF Held, Passed

LEMMA RunsAloneStep ==
    ASSUME Held, NEW t \in Thread, Step(t)
    PROVE  RunsAlone'
<1> USE DEF Held, Closed, TypeOK, Place, RunsAlone, Inside, Exclusive
<1>1. CASE ReadAlgorithm(t) BY <1>1 DEF ReadAlgorithm
<1>2. CASE InstallBlocker(t) BY <1>2 DEF InstallBlocker
<1>3. CASE MissBlocker(t) BY <1>3 DEF MissBlocker
<1>4. CASE Reopen(t) BY <1>4 DEF Reopen
<1>5. CASE Registering(t) BY <1>5 DEF Registering, Configure, Insert, Publish
<1>6. CASE Begin(t) BY <1>6 DEF Begin
<1>7. CASE Start(t)
    <2>1. \A h \in Thread : ~Exclusive(h) BY <1>7 DEF Start, OneBlocker, Closing
    <2>. QED BY <1>7, <2>1 DEF Start
<1>8. CASE StartIrrevocable(t)
    <2>1. \A h \in Thread : Exclusive(h) => h = t
          BY <1>8 DEF StartIrrevocable, OneBlocker, Closing
    <2>. QED BY <1>8, <2>1 DEF StartIrrevocable
<1>9. CASE Blocked(t) \/ Clear(t) \/ Wait(t) \/ Rescope(t)
      BY <1>9 DEF Blocked, Clear, Wait, Rescope
<1>10. CASE Leaving(t)
       BY <1>10, BodyBarriers, ThreadAssumption
       DEF Leaving, Commit, CommitIrrevocable, End, Conflict, Unwind, Abort
<1>11. CASE CloseForIrrevocable(t) BY <1>11 DEF CloseForIrrevocable
<1>12. CASE MissIrrevocable(t) \/ Restart(t) BY <1>12 DEF MissIrrevocable, Restart, Abort
<1>13. CASE InFlight(t) BY <1>13, AllPassed DEF InFlight
<1>14. CASE Drain(t) BY <1>14 DEF Drain
<1>15. CASE ChooseAlgorithm(t) BY <1>15, AllPassed DEF ChooseAlgorithm
<1>16. CASE InstallBarriers(t) \/ InstallAlgorithm(t)
       BY <1>16 DEF InstallBarriers, InstallAlgorithm
<1>. QED BY <1>1, <1>2, <1>3, <1>4, <1>5, <1>6, <1>7, <1>8, <1>9, <1>10, <1>11, <1>12, <1>13,
            <1>14, <1>15, <1>16
         DEF Step, Entering, BecomeIrrevocable, Installing

LEMMA PointersStep ==
    ASSUME Held, NEW t \in Thread, Step(t)
    PROVE  IrrevocablePointers'
<1>. TypeOK' BY TypeStep
<1> USE DEF Held, Closed, TypeOK, Place, IrrevocablePointers, Bare
<1>1. CASE ReadAlgorithm(t) \/ MissBlocker(t) BY <1>1 DEF ReadAlgorithm, MissBlocker
<1>2. CASE InstallBlocker(t) BY <1>2 DEF InstallBlocker
<1>3. CASE Reopen(t) BY <1>3 DEF Reopen
<1>4. CASE Registering(t) BY <1>4 DEF Registering, Configure, Insert, Publish
<1>5. CASE Begin(t) BY <1>5 DEF Begin
<1>6. CASE Start(t)
    <2>1. \A h \in Thread : ~irrevocable[h] BY <1>6 DEF Start, OneBlocker, Closing
    <2>. QED BY <1>6, <2>1 DEF Start
<1>7. CASE StartIrrevocable(t)
    <2>1. \A h \in Thread : ~Bare(h) BY <1>7 DEF StartIrrevocable, OneBlocker, Closing
    <2>2. Bare(t)' BY <1>7 DEF StartIrrevocable
    <2>. QED BY <1>7, <2>1, <2>2 DEF StartIrrevocable, SetIrrevocableBarriers
<1>8. CASE Blocked(t) \/ Clear(t) \/ Wait(t) \/ Rescope(t)
      BY <1>8 DEF Blocked, Clear, Wait, Rescope
<1>9. CASE Commit(t)
    <2>1. ~irrevocable[t] BY <1>9, BodyBarriers, ThreadAssumption DEF Commit
    <2>. QED BY <1>9, <2>1 DEF Commit
<1>10. CASE End(t) \/ Unwind(t) BY <1>10 DEF End, Unwind
<1>11. CASE CommitIrrevocable(t)
    <2>1. irrevocable[t] /\ oldAbortHandler = "default" BY <1>11, BodyBarriers DEF CommitIrrevocable
    <2>2. \A h \in Thread : ~Bare(h)'
          BY <1>11, <2>1 DEF CommitIrrevocable, OneBlocker, Closing
    <2>. QED BY <1>11, <2>1, <2>2 DEF CommitIrrevocable, UnsetIrrevocableBarriers
<1>12. CASE Conflict(t) \/ MissIrrevocable(t) \/ Restart(t)
    <2>1. \A h \in Thread : ~Bare(h) BY <1>12, AbortsAllowed, ThreadAssumption
    <2>2. UNCHANGED <<pointers, irrevocable>> /\ pc'[t] # "body"
          /\ \A h \in Thread : h # t => pc'[h] = pc[h]
          BY <1>12 DEF Conflict, MissIrrevocable, Restart, Abort
    <2>. QED BY <2>1, <2>2, AbortsAllowed, <1>12
<1>13. CASE CloseForIrrevocable(t)
    <2>1. \A h \in Thread : ~Bare(h) BY <1>13 DEF CloseForIrrevocable
    <2>. QED BY <1>13, <2>1 DEF CloseForIrrevocable
<1>14. CASE Drain(t) BY <1>14 DEF Drain
<1>15. CASE InFlight(t)
    <2>1. \A h \in Thread : irrevocable[h] => h = t BY <1>15 DEF InFlight, OneBlocker, Closing
    <2>2. \A h \in Thread : ~Bare(h) BY <1>15, <2>1 DEF InFlight
    <2>3. CASE pc'[t] = "body"
        <3>1. SetIrrevocableBarriers(t) BY <1>15, <2>3 DEF InFlight
        <3>2. Bare(t)' BY <1>15, <2>3 DEF InFlight
        <3>. QED BY <2>2, <3>1, <3>2 DEF SetIrrevocableBarriers
    <2>4. CASE pc'[t] # "body" BY <1>15, <2>2, <2>4 DEF InFlight
    <2>. QED BY <2>3, <2>4
<1>16. CASE ChooseAlgorithm(t) \/ InstallBarriers(t) BY <1>16 DEF ChooseAlgorithm, InstallBarriers
<1>17. CASE InstallAlgorithm(t)
    <2>1. \A h \in Thread : ~irrevocable[h]
          BY <1>17 DEF InstallAlgorithm, OneBlocker, Closing, IrrevocablePlace
    <2>. QED BY <1>17, <2>1 DEF InstallAlgorithm
<1>. QED BY <1>1, <1>2, <1>3, <1>4, <1>5, <1>6, <1>7, <1>8, <1>9, <1>10, <1>11, <1>12, <1>13,
            <1>14, <1>15, <1>16, <1>17
         DEF Step, Entering, Leaving, BecomeIrrevocable, Installing

LEMMA BegunStep ==
    ASSUME Held, NEW t \in Thread, Step(t)
    PROVE  Begun'
<1> USE DEF Held, Closed, TypeOK, Place, Begun, Inside
<1>1. CASE ReadAlgorithm(t) \/ MissBlocker(t) BY <1>1 DEF ReadAlgorithm, MissBlocker
<1>2. CASE InstallBlocker(t) BY <1>2 DEF InstallBlocker
<1>3. CASE Reopen(t) BY <1>3 DEF Reopen
<1>4. CASE Registering(t) BY <1>4 DEF Registering, Configure, Insert, Publish
<1>5. CASE Begin(t) BY <1>5 DEF Begin
<1>6. CASE Start(t)
    <2>1. tmbegin = algId BY <1>6 DEF Start, GateIsForce
    <2>. QED BY <1>6, <2>1 DEF Start
<1>7. CASE StartIrrevocable(t) BY <1>7 DEF StartIrrevocable
<1>8. CASE Blocked(t) \/ Clear(t) \/ Wait(t) \/ Rescope(t)
      BY <1>8 DEF Blocked, Clear, Wait, Rescope
<1>9. CASE Leaving(t)
      BY <1>9, BodyBarriers
      DEF Leaving, Commit, CommitIrrevocable, End, Conflict, Unwind, Abort
<1>10. CASE CloseForIrrevocable(t) BY <1>10 DEF CloseForIrrevocable
<1>11. CASE MissIrrevocable(t) \/ InFlight(t) \/ Restart(t)
       BY <1>11 DEF MissIrrevocable, InFlight, Restart, Abort
<1>12. CASE Drain(t) BY <1>12 DEF Drain
<1>13. CASE ChooseAlgorithm(t) \/ InstallBarriers(t) BY <1>13 DEF ChooseAlgorithm, InstallBarriers
<1>14. CASE InstallAlgorithm(t)
    <2>1. \A s \in Thread : ~Inside(s) BY <1>14 DEF InstallAlgorithm, RunsAlone, Exclusive
    <2>. QED BY <1>14, <2>1 DEF InstallAlgorithm
<1>. QED BY <1>1, <1>2, <1>3, <1>4, <1>5, <1>6, <1>7, <1>8, <1>9, <1>10, <1>11, <1>12, <1>13, <1>14
         DEF Step, Entering, BecomeIrrevocable, Installing

LEMMA GateStep ==
    ASSUME Held, NEW t \in Thread, Step(t)
    PROVE  GateIsForce'
<1> USE DEF Held, Closed, TypeOK, GateIsForce
<1>1. CASE InstallAlgorithm(t)
    <2>1. tmbegin = Blocker BY <1>1 DEF InstallAlgorithm, OneBlocker, Closing
    <2>. QED BY <1>1, <2>1 DEF InstallAlgorithm
<1>2. CASE ReadAlgorithm(t) \/ MissBlocker(t) \/ InstallBlocker(t) \/ Reopen(t)
      BY <1>2 DEF ReadAlgorithm, MissBlocker, InstallBlocker, Reopen
<1>3. CASE Registering(t) \/ Begin(t) \/ Drain(t)
      BY <1>3 DEF Registering, Configure, Insert, Publish, Begin, Drain
<1>4. CASE Entering(t)
      BY <1>4 DEF Entering, Start, StartIrrevocable, Blocked, Clear, Wait, Rescope
<1>5. CASE Leaving(t)
      BY <1>5 DEF Leaving, Commit, CommitIrrevocable, End, Conflict, Unwind
<1>6. CASE BecomeIrrevocable(t)
      BY <1>6 DEF BecomeIrrevocable, CloseForIrrevocable, MissIrrevocable, InFlight, Restart
<1>7. CASE ChooseAlgorithm(t) \/ InstallBarriers(t) BY <1>7 DEF ChooseAlgorithm, InstallBarriers
<1>. QED BY <1>1, <1>2, <1>3, <1>4, <1>5, <1>6, <1>7 DEF Step, Installing

LEMMA BarriersStep ==
    ASSUME Held, NEW t \in Thread, Step(t)
    PROVE  Barriers'
<1>. TypeOK' BY TypeStep
<1> USE DEF Held, Closed, TypeOK, Place, Barriers, Configured, Bare
<1>0. ASSUME Inside(t) \/ \E s \in Thread : s # t /\ Inside(s)
      PROVE  \A h \in Thread : pc[h] # "install"
      BY <1>0 DEF RunsAlone, Exclusive, Inside
<1>1. CASE ReadAlgorithm(t) \/ MissBlocker(t) BY <1>1 DEF ReadAlgorithm, MissBlocker
<1>2. CASE InstallBlocker(t) BY <1>2 DEF InstallBlocker
<1>3. CASE Reopen(t) BY <1>3 DEF Reopen
<1>4. CASE Configure(t)
    <2>1. \A h \in Thread : pc[h] # "install" BY <1>4 DEF Configure, OneBlocker, Closing
    <2>. QED BY <1>4, <2>1 DEF Configure
<1>5. CASE Insert(t) \/ Publish(t) BY <1>5 DEF Insert, Publish
<1>6. CASE Begin(t) BY <1>6 DEF Begin
<1>7. CASE Start(t)
    <2>1. ~irrevocable[t] BY <1>7 DEF Start, OneBlocker, Closing
    <2>. QED BY <1>7, <2>1 DEF Start
<1>8. CASE StartIrrevocable(t) BY <1>8 DEF StartIrrevocable, SetIrrevocableBarriers
<1>9. CASE Blocked(t) \/ Clear(t) \/ Wait(t) \/ Rescope(t)
      BY <1>9 DEF Blocked, Clear, Wait, Rescope
<1>10. CASE Commit(t)
    <2>1. ~irrevocable[t] BY <1>10, BodyBarriers, ThreadAssumption DEF Commit
    <2>. QED BY <1>10, <2>1 DEF Commit
<1>11. CASE End(t) \/ Unwind(t) BY <1>11 DEF End, Unwind
<1>12. CASE CommitIrrevocable(t)
    <2>1. \A h \in Thread : pc[h] # "install" BY <1>0, <1>12 DEF CommitIrrevocable, Inside
    <2>. QED BY <1>12, <2>1 DEF CommitIrrevocable, UnsetIrrevocableBarriers
<1>13. CASE Conflict(t) \/ MissIrrevocable(t) \/ Restart(t)
    <2>1. \A h \in Thread : pc[h] # "install"
          BY <1>0, <1>13 DEF Conflict, MissIrrevocable, Restart, Inside
    <2>2. /\ barriers' = [barriers EXCEPT ![t] = algId]
          /\ pc' = [pc EXCEPT ![t] = "unwind"]
          /\ UNCHANGED <<algId, id, irrevocable, loaded, idx>>
          BY <1>13, AbortsAllowed, ThreadAssumption DEF Conflict, MissIrrevocable, Restart, Abort
    <2>. QED BY <2>1, <2>2
<1>14. CASE CloseForIrrevocable(t)
    <2>1. ~irrevocable[t] BY <1>14, BodyBarriers DEF CloseForIrrevocable
    <2>. QED BY <1>14, <2>1 DEF CloseForIrrevocable
<1>15. CASE Drain(t) BY <1>15 DEF Drain
<1>16. CASE InFlight(t)
    <2>1. \A h \in Thread : pc[h] # "install" BY <1>0, <1>16 DEF InFlight, Inside
    <2>. QED BY <1>16, <2>1 DEF InFlight, SetIrrevocableBarriers
<1>17. CASE ChooseAlgorithm(t)
    <2>1. \A h \in Thread : pc[h] # "install" BY <1>17 DEF ChooseAlgorithm, OneBlocker, Closing
    <2>2. \A s \in Thread : Registered(s) => id[s] > 0 BY DEF Numbered
    <2>3. \A s \in Thread : Configured(s)' => Registered(s)
          BY <1>17 DEF ChooseAlgorithm, OneBlocker, Closing, Registered, Unregistered
    <2>. QED BY <1>17, <2>1, <2>2, <2>3 DEF ChooseAlgorithm
<1>18. CASE InstallBarriers(t)
    <2>. DEFINE u == threads[idx[t] + 1]
    <2>1. u \in Thread /\ id[u] = idx[t] + 1 BY <1>18 DEF InstallBarriers, Numbered
    <2>2. \A h \in Thread : pc[h] = "install" => h = t
          BY <1>18 DEF InstallBarriers, OneBlocker, Closing
    <2>3. \A s \in Thread : Configured(s) => Registered(s)
          BY <1>18 DEF InstallBarriers, OneBlocker, Closing, Registered, Unregistered
    <2>4. \A s \in Thread : Registered(s) /\ id[s] = id[u] => s = u
          BY <1>18, <2>1 DEF InstallBarriers, Numbered
    <2>5. \A s \in Thread : ~Bare(s) BY <1>18 DEF InstallBarriers, RunsAlone, Exclusive, Inside
    <2>6. /\ barriers' = [barriers EXCEPT ![u] = loaded[t]]
          /\ idx' = [idx EXCEPT ![t] = @ + 1]
          /\ pc[t] = "install"
          /\ UNCHANGED <<algId, id, irrevocable, loaded, pc>>
          BY <1>18 DEF InstallBarriers
    <2>. QED BY <2>1, <2>2, <2>3, <2>4, <2>5, <2>6
<1>19. CASE InstallAlgorithm(t)
    <2>1. \A h \in Thread : pc[h] = "install" => h = t
          BY <1>19 DEF InstallAlgorithm, OneBlocker, Closing
    <2>2. \A s \in Thread : Configured(s) => id[s] <= idx[t]
          BY <1>19 DEF InstallAlgorithm, OneBlocker, Closing, Registered, Unregistered, Numbered
    <2>3. \A s \in Thread : ~Bare(s) BY <1>19 DEF InstallAlgorithm, RunsAlone, Exclusive, Inside
    <2>4. \A s \in Thread : Configured(s) => barriers[s] = loaded[t]
          BY <1>19, <2>1, <2>2, <2>3 DEF InstallAlgorithm
    <2>. QED BY <1>19, <2>1, <2>3, <2>4 DEF InstallAlgorithm
<1>. QED BY <1>1, <1>2, <1>3, <1>4, <1>5, <1>6, <1>7, <1>8, <1>9, <1>10, <1>11, <1>12, <1>13,
            <1>14, <1>15, <1>16, <1>17, <1>18, <1>19
         DEF Step, Registering, Entering, Leaving, BecomeIrrevocable, Installing

(* The invariant holds. *)

LEMMA HeldInitially == Init => Held
<1>. SUFFICES ASSUME Init PROVE Held OBVIOUS
<1> USE DEF Init
<1>1. TypeOK BY DEF TypeOK, Place
<1>2. IrrevocablePlace /\ NeverRefused /\ InScope /\ Begun /\ GateIsForce
      BY DEF IrrevocablePlace, NeverRefused, InScope, Begun, Inside, GateIsForce
<1>3. OneBlocker BY ThreadAssumption DEF OneBlocker, Closing
<1>4. Numbered BY DEF Numbered, Registered, Unregistered
<1>5. Passed /\ RunsAlone BY DEF Passed, RunsAlone, Exclusive, Inside
<1>6. IrrevocablePointers /\ Barriers BY DEF IrrevocablePointers, Barriers, Configured, Bare
<1>. QED BY <1>1, <1>2, <1>3, <1>4, <1>5, <1>6 DEF Held, Closed

LEMMA HeldNext == Held /\ [Next]_vars => Held'
<1>. SUFFICES ASSUME Held, [Next]_vars PROVE Held' OBVIOUS
<1>1. CASE UNCHANGED vars
    <2>. USE <1>1 DEF vars
    <2>1. Closed' BY DEF Held, Closed, TypeOK, IrrevocablePlace, OneBlocker, Closing, NeverRefused
    <2>2. Numbered' /\ InScope' BY DEF Held, Numbered, Registered, InScope
    <2>3. Passed' /\ RunsAlone' BY DEF Held, Passed, RunsAlone, Registered, Exclusive, Inside
    <2>4. IrrevocablePointers' BY DEF Held, IrrevocablePointers, Bare
    <2>5. Barriers' BY DEF Held, Barriers, Configured, Bare
    <2>6. Begun' /\ GateIsForce' BY DEF Held, Begun, Inside, GateIsForce
    <2>. QED BY <2>1, <2>2, <2>3, <2>4, <2>5, <2>6 DEF Held
<1>2. ASSUME NEW t \in Thread, Step(t) PROVE Held'
    BY <1>2, TypeStep, ClosedStep, NumberedStep, InScopeStep, PassedStep, RunsAloneStep,
       PointersStep, BarriersStep, BegunStep, GateStep DEF Held, Closed
<1>. QED BY <1>1, <1>2 DEF Next

LEMMA HeldAlways == Spec => []Held
BY HeldInitially, HeldNext, PTL DEF Spec

(* The theorems. *)

\* No pointer is ever restored from one that was not saved, and no thread is
\* lost in a loop.
THEOREM ThreadTyping == Spec => []TypeOK
<1>1. Held => TypeOK BY DEF Held, Closed
<1>. QED BY <1>1, HeldAlways, PTL

\* Registration, irrevocability and a change of algorithm exclude one another,
\* and each of them itself: the gate is closed by one thread, that opens it.
THEOREM OneAtATime == Spec => []OneBlocker
<1>1. Held => OneBlocker BY DEF Held, Closed
<1>. QED BY <1>1, HeldAlways, PTL

\* Nobody runs a transaction beside an irrevocable one or an installation.
THEOREM Solitary == Spec => []RunsAlone
<1>1. Held => RunsAlone BY DEF Held
<1>. QED BY <1>1, HeldAlways, PTL

\* A transaction starts, reads, writes and rolls back by one algorithm.
THEOREM Consistent == Spec => []OneAlgorithm
<1>1. Held => OneAlgorithm
    <2>. SUFFICES ASSUME Held, NEW t \in Thread, pc[t] = "body"
                  PROVE  IF irrevocable[t]
                         THEN Irrevocable = barriers[t] /\ Irrevocable = tmrollback /\ tmabort = "irrevocable"
                         ELSE /\ loaded[t] = algId
                              /\ algId = barriers[t]
                              /\ algId = tmrollback
                              /\ tmabort = "default"
         BY DEF OneAlgorithm
    <2>1. CASE irrevocable[t] BY <2>1, BodyBarriers DEF Held, IrrevocablePointers, Bare
    <2>2. CASE ~irrevocable[t]
        <3>1. \A h \in Thread : pc[h] # "install" BY DEF Held, RunsAlone, Exclusive, Inside
        <3>2. \A h \in Thread : ~Bare(h) BY <2>2 DEF Held, RunsAlone, Exclusive, Inside, Bare
        <3>. QED BY <2>2, <3>1, <3>2 DEF Held, IrrevocablePointers, Barriers, Configured, Begun, Inside
    <2>. QED BY <2>1, <2>2
<1>. QED BY <1>1, HeldAlways, PTL

\* The table holds, up to threadcount, threads that are ready.
THEOREM TableReady == Spec => []ReadyInTable
<1>1. Held => ReadyInTable
    <2>. SUFFICES ASSUME Held, NEW i \in 1..threadcount
                  PROVE  i \in DOMAIN threads /\ id[threads[i]] = i /\ barriers[threads[i]] # Unset
         BY DEF ReadyInTable
    <2>. DEFINE u == threads[i]
    <2>1. u \in Thread /\ Registered(u) BY DEF Held, Numbered
    <2>2. barriers[u] \in Alg \cup {Irrevocable}
          BY <2>1 DEF Held, Closed, TypeOK, Barriers, Configured, Registered, Unregistered
    <2>. QED BY <2>2, ThreadAssumption DEF Held, Numbered
<1>. QED BY <1>1, HeldAlways, PTL

\* The handlers that end the program are never called.
THEOREM NoRefusal == Spec => []NeverRefused
<1>1. Held => NeverRefused BY DEF Held, Closed
<1>. QED BY <1>1, HeldAlways, PTL

(* The refinement. *)

LEMMA OwnerOfOne ==
    ASSUME NEW t
    PROVE  OwnerAmong({t}) = t
BY DEF OwnerAmong

LEMMA OwnerOfNone == OwnerAmong({}) = NoThread
BY DEF OwnerAmong

\* Whoever is exclusive has closed the gate, so it is one thread.
LEMMA OneExclusive ==
    ASSUME Held, NEW t \in Thread, Closing(t)
    PROVE  Exclusives \subseteq {t}
BY DEF Held, Closed, OneBlocker, Closing, Exclusives, Exclusive

LEMMA NoneExclusive ==
    ASSUME Held, tmbegin # Blocker
    PROVE  Exclusives = {}
BY DEF Held, Closed, OneBlocker, Closing, Exclusives, Exclusive

\* A step that neither enters or leaves a transaction nor takes or gives up
\* exclusivity.
Inessential == UNCHANGED <<Members, Exclusives, algId>>

LEMMA InessentialMapped ==
    ASSUME Inessential
    PROVE  UNCHANGED Solitude!rendezvousVars
BY DEF Inessential, Solitude!rendezvousVars

LEMMA LeaveMapped ==
    ASSUME NEW t \in Thread, Inside(t), Members' = Members \ {t}, UNCHANGED <<Exclusives, algId>>
    PROVE  Solitude!Leave(t)
BY DEF Solitude!Leave, Members

LEMMA RendezvousStep ==
    ASSUME Held, NEW t \in Thread, Step(t)
    PROVE  Solitude!Next \/ UNCHANGED Solitude!rendezvousVars
<1>. TypeOK' BY TypeStep
<1> USE DEF Held, Closed, TypeOK, Place, Inside, Exclusive
<1>0. ASSUME Inessential PROVE UNCHANGED Solitude!rendezvousVars BY <1>0, InessentialMapped
<1>1. CASE ReadAlgorithm(t) \/ MissBlocker(t) \/ InstallBlocker(t)
    <2>1. Inessential
          BY <1>1 DEF ReadAlgorithm, MissBlocker, InstallBlocker, Inessential, Members, Exclusives
    <2>. QED BY <2>1, <1>0
<1>2. CASE Registering(t) \/ Begin(t) \/ Drain(t)
    <2>1. Inessential
          BY <1>2 DEF Registering, Configure, Insert, Publish, Begin, Drain, Inessential, Members, Exclusives
    <2>. QED BY <2>1, <1>0
<1>3. CASE Reopen(t)
    <2>1. CASE pc[t] = "reopen"
        <3>1. Inessential BY <1>3, <2>1 DEF Reopen, Inessential, Members, Exclusives
        <3>. QED BY <3>1, <1>0
    <2>2. CASE pc[t] # "reopen"
        <3>1. pc[t] \in {"resume", "release"} BY <1>3, <2>2 DEF Reopen
        <3>2. Exclusives = {t} BY <3>1, OneExclusive DEF Closing, Exclusives
        <3>3. ~irrevocable[t] BY <3>1 DEF IrrevocablePlace
        <3>4. Exclusives' = {} BY <1>3, <3>2, <3>3 DEF Reopen, Exclusives
        <3>5. t \notin Members /\ Members' = Members /\ algId' = algId
              BY <1>3, <3>1 DEF Reopen, Members
        <3>6. Solitude!Disown(t)
              BY <3>2, <3>4, <3>5, OwnerOfOne, OwnerOfNone DEF Solitude!Disown
        <3>. QED BY <3>6 DEF Solitude!Next
    <2>. QED BY <2>1, <2>2
<1>4. CASE Start(t)
    <2>1. Exclusives = {} BY <1>4, NoneExclusive DEF Start
    <2>2. Exclusives' = Exclusives BY <1>4 DEF Start, Exclusives
    <2>3. t \notin Members /\ Members' = Members \cup {t} /\ algId' = algId
          BY <1>4 DEF Start, Members
    <2>4. Solitude!Enter(t) BY <2>1, <2>2, <2>3, OwnerOfNone DEF Solitude!Enter
    <2>. QED BY <2>4 DEF Solitude!Next
<1>5. CASE StartIrrevocable(t)
    <2>1. Exclusives = {t} BY <1>5, OneExclusive DEF StartIrrevocable, Closing, Exclusives
    <2>2. Exclusives' = Exclusives BY <1>5 DEF StartIrrevocable, Exclusives
    <2>3. t \notin Members /\ Members' = Members \cup {t} /\ algId' = algId
          BY <1>5 DEF StartIrrevocable, Members
    <2>4. Solitude!Enter(t) BY <2>1, <2>2, <2>3, OwnerOfOne DEF Solitude!Enter
    <2>. QED BY <2>4 DEF Solitude!Next
<1>6. CASE Blocked(t) \/ Clear(t) \/ Wait(t) \/ Rescope(t)
    <2>1. Inessential BY <1>6 DEF Blocked, Clear, Wait, Rescope, Inessential, Members, Exclusives
    <2>. QED BY <2>1, <1>0
<1>7. CASE Commit(t)
    <2>1. Inside(t) /\ Members' = Members \ {t} BY <1>7 DEF Commit, Members
    <2>2. UNCHANGED <<Exclusives, algId>> BY <1>7 DEF Commit, Exclusives
    <2>. QED BY <2>1, <2>2, LeaveMapped DEF Solitude!Next
<1>8. CASE CommitIrrevocable(t)
    <2>1. irrevocable[t] BY <1>8, BodyBarriers DEF CommitIrrevocable
    <2>2. Inside(t) /\ Members' = Members \ {t} BY <1>8 DEF CommitIrrevocable, Members
    <2>3. UNCHANGED <<Exclusives, algId>> BY <1>8, <2>1 DEF CommitIrrevocable, Exclusives
    <2>. QED BY <2>2, <2>3, LeaveMapped DEF Solitude!Next
<1>9. CASE End(t) \/ Unwind(t)
    <2>1. Inessential BY <1>9 DEF End, Unwind, Inessential, Members, Exclusives
    <2>. QED BY <2>1, <1>0
<1>10. CASE Conflict(t) \/ MissIrrevocable(t) \/ Restart(t)
    <2>1. Inside(t) /\ pc' = [pc EXCEPT ![t] = "unwind"] /\ UNCHANGED <<irrevocable, algId>>
          BY <1>10, AbortsAllowed, ThreadAssumption DEF Conflict, MissIrrevocable, Restart, Abort
    <2>2. Members' = Members \ {t} BY <2>1 DEF Members
    <2>3. UNCHANGED <<Exclusives, algId>> BY <2>1 DEF Exclusives
    <2>. QED BY <2>1, <2>2, <2>3, LeaveMapped DEF Solitude!Next
<1>11. CASE CloseForIrrevocable(t)
    <2>1. Inessential BY <1>11 DEF CloseForIrrevocable, Inessential, Members, Exclusives
    <2>. QED BY <2>1, <1>0
<1>12. CASE InFlight(t)
    <2>1. Exclusives = {}
        <3>1. Exclusives \subseteq {t} BY <1>12, OneExclusive DEF InFlight, Closing
        <3>2. ~Exclusive(t) BY <1>12 DEF InFlight, IrrevocablePlace
        <3>. QED BY <3>1, <3>2 DEF Exclusives
    <2>2. Exclusives' = {t} BY <1>12, <2>1 DEF InFlight, Exclusives
    <2>3. Members \subseteq {t} BY <1>12, AllPassed DEF InFlight, Members
    <2>4. UNCHANGED <<Members, algId>> BY <1>12 DEF InFlight, Members
    <2>5. Solitude!Own(t) BY <2>1, <2>2, <2>3, <2>4, OwnerOfOne, OwnerOfNone DEF Solitude!Own
    <2>. QED BY <2>5 DEF Solitude!Next
<1>13. CASE ChooseAlgorithm(t)
    <2>1. Exclusives = {}
        <3>1. Exclusives \subseteq {t} BY <1>13, OneExclusive DEF ChooseAlgorithm, Closing
        <3>2. ~Exclusive(t) BY <1>13 DEF ChooseAlgorithm, IrrevocablePlace
        <3>. QED BY <3>1, <3>2 DEF Exclusives
    <2>2. Exclusives' = {t} BY <1>13, <2>1 DEF ChooseAlgorithm, Exclusives
    <2>3. Members \subseteq {t} BY <1>13, AllPassed DEF ChooseAlgorithm, Members
    <2>4. UNCHANGED <<Members, algId>> BY <1>13 DEF ChooseAlgorithm, Members
    <2>5. Solitude!Own(t) BY <2>1, <2>2, <2>3, <2>4, OwnerOfOne, OwnerOfNone DEF Solitude!Own
    <2>. QED BY <2>5 DEF Solitude!Next
<1>14. CASE InstallBarriers(t)
    <2>1. Inessential BY <1>14 DEF InstallBarriers, Inessential, Members, Exclusives
    <2>. QED BY <2>1, <1>0
<1>15. CASE InstallAlgorithm(t)
    <2>1. Exclusives = {t} BY <1>15, OneExclusive DEF InstallAlgorithm, Closing, Exclusives
    <2>2. Exclusives' = Exclusives BY <1>15 DEF InstallAlgorithm, Exclusives
    <2>3. Members = {} BY <1>15 DEF InstallAlgorithm, Members, RunsAlone
    <2>4. Members' = Members BY <1>15 DEF InstallAlgorithm, Members
    <2>5. algId' \in Alg BY <1>15 DEF InstallAlgorithm
    <2>6. Solitude!Switch(t) BY <2>1, <2>2, <2>3, <2>4, <2>5, OwnerOfOne DEF Solitude!Switch
    <2>. QED BY <2>6 DEF Solitude!Next
<1>. QED BY <1>1, <1>2, <1>3, <1>4, <1>5, <1>6, <1>7, <1>8, <1>9, <1>10, <1>11, <1>12, <1>13,
            <1>14, <1>15
         DEF Step, Entering, Leaving, BecomeIrrevocable, Installing

\* Registration, irrevocability and the change of algorithm implement the
\* abstract rendezvous.
THEOREM ThreadsRendezvous == Spec => ImplementsRendezvous
<1>1. Init => Solitude!Init
    <2>. SUFFICES ASSUME Init PROVE Solitude!Init OBVIOUS
    <2>1. Members = {} /\ Exclusives = {} /\ algId \in Alg
          BY DEF Init, Members, Exclusives, Inside, Exclusive
    <2>. QED BY <2>1, OwnerOfNone DEF Solitude!Init
<1>2. Held /\ [Next]_vars => [Solitude!Next]_(Solitude!rendezvousVars)
    <2>. SUFFICES ASSUME Held, [Next]_vars
                  PROVE  Solitude!Next \/ UNCHANGED Solitude!rendezvousVars
         OBVIOUS
    <2>1. CASE UNCHANGED vars
        <3>1. Inessential
              BY <2>1 DEF vars, Inessential, Members, Exclusives, Inside, Exclusive
        <3>. QED BY <3>1, InessentialMapped
    <2>2. CASE \E t \in Thread : Step(t) BY <2>2, RendezvousStep
    <2>. QED BY <2>1, <2>2 DEF Next
<1>. QED BY <1>1, <1>2, HeldAlways, PTL DEF Spec, ImplementsRendezvous, Solitude!Spec
=============================================================================
