SPECIFICATION FairSpec
CONSTANTS
    Thread = {t1, t2}
    Alg = {A, B}
    NoThread = NoThread
    Blocker = Blocker
    Irrevocable = Irrevocable
    Unset = Unset
INVARIANTS OneBlocker RunsAlone OneAlgorithm ReadyInTable NeverRefused
PROPERTIES ImplementsRendezvous GateOpens EveryoneJoins
