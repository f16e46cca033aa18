------------------------------ MODULE MCSeqTree ------------------------------
(* Small instances of the sequential tree for TLC. *)
EXTENDS SeqTree

CONSTANT Size  \* how many keys, and how many nodes at a time

MCKey  == 1 .. Size
MCNode == {10 + i : i \in MCKey}
=============================================================================
