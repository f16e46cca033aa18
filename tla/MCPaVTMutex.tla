----------------------------- MODULE MCPaVTMutex -----------------------------
(* The instances of MCPaVT.tla with counted mutexes, beside the observer of     *)
(* linearizability: neither keeps the other, or a thread, from any step.       *)
EXTENDS MCPaVTLin, PaVTMutex

BothInit == MutexInit /\ lin = L!Empty
BothNext == MutexNext /\ Observe
BothSpec == BothInit /\ [][BothNext]_<<mutexVars, lin>>
=============================================================================
