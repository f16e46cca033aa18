------------------------------ MODULE MCPaVTLin ------------------------------
(* The instances of MCPaVT.tla beside the linearizability observer. *)
EXTENDS MCPaVT, PaVTLin
=============================================================================
