------------------------------- MODULE MCWBMM -------------------------------
(* Small instances of the allocator for TLC. *)
EXTENDS WBMMClient

\* Thread 1 removes, often enough to free what it stamped; the others look and
\* remove once.
Often == [t \in Thread |-> IF t = 1 THEN 3 ELSE 1]
=============================================================================
