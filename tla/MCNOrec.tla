------------------------------ MODULE MCNOrec ------------------------------
(* Small instances of the transactions for TLC. *)
EXTENDS NOrecClient

CONSTANT t1  \* one of the threads, where they differ

Zeros == [l \in Loc |-> 0]

\* t1 runs one transaction, long enough to compare two entries; the others run
\* two, so that the second can undo what the first did.
OneOrTwo   == [t \in Thread |-> IF t = t1 THEN 1 ELSE 2]
ThreeOrTwo == [t \in Thread |-> IF t = t1 THEN 3 ELSE 2]
=============================================================================
