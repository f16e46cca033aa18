------------------------------ MODULE MCTxTree ------------------------------
(* Small instances of the transactional test program for TLC. *)
EXTENDS TxTestCase

CONSTANTS MaxKey,       \* the keys are 1 .. MaxKey
          Generations,  \* how often a run may construct a node for one key
          t1            \* one of the workers, where their lists differ

MCKey  == 1 .. MaxKey
MCNode == {10 * g + i : g \in 1 .. Generations, i \in MCKey}
MCInitialKey == [n \in MCNode |-> n % 10]

Adds     == [type : {"add"}, key : MCKey]
Removes  == [type : {"remove"}, key : MCKey]
Contains == [type : {"contains"}, key : MCKey]
AnyOp    == Adds \cup Removes \cup Contains

Orders(ks) ==
    {s \in [1 .. Cardinality(ks) -> ks] : \A i, j \in DOMAIN s : i # j => s[i] # s[j]}
AllShapes == UNION {Orders(ks) : ks \in SUBSET MCKey}
\* Below 1 there is nothing on the right.
One == { <<1>> }

Once  == [t \in Thread |-> 1]

Anything   == [t \in Thread |-> AnyOp]
AddsOnly   == [t \in Thread |-> Adds]
\* t1 is the only one to change the tree.
OneWriter  == [t \in Thread |-> IF t = t1 THEN Adds \cup Removes ELSE Contains]
=============================================================================
