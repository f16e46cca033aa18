------------------------------- MODULE MCPaVT -------------------------------
(* Small instances of the test program for TLC. *)
EXTENDS TestCase

CONSTANTS MaxKey,       \* the keys are 1 .. MaxKey
          Generations,  \* how often a run may construct a node for one key
          t1            \* one of the workers, where their lists differ

MCKey   == 1 .. MaxKey
MCLeft  == <<MaxKey + 1, 0>>
MCRight == <<0, 0>>
MCNode  == (MCKey \X (1 .. Generations)) \cup {MCLeft, MCRight}
MCvalue == [n \in MCNode |-> n[1]]

Adds     == [type : {"add"}, key : MCKey]
Removes  == [type : {"remove"}, key : MCKey]
Contains == [type : {"contains"}, key : MCKey]
AnyOp    == Adds \cup Removes \cup Contains

\* Four keys with room on either side of them.
Middle == 2 .. 5

\* Every order of a set of keys: every shape the tree can have over them.
Orders(ks) ==
    {s \in [1 .. Cardinality(ks) -> ks] : \A i, j \in DOMAIN s : i # j => s[i] # s[j]}

\* Nodes with two children whose successor sits deeper: in the first tree the
\* successor 3 of 2 has a right child 5 and a nearer neighbour 4; in the second that
\* is 6 and 5, and 4 can be added to be nearer still while 2 is being removed; in the
\* third the successor 3 of 2 is a leaf and 2 is itself a left child.  One key is
\* left out of each tree, to be added.
DeepShapes == { <<2, 1, 7, 3, 5, 4>>, <<2, 1, 7, 3, 6, 5>>, <<6, 2, 1, 4, 3, 7>> }

\* Every shape over Middle, the deep ones, and one with a parent of the successor
\* (5) that is not the right child of 2 and can be removed.
AllShapes == UNION {Orders(ks) : ks \in SUBSET Middle} \cup DeepShapes \cup { <<2, 1, 6, 5, 3, 4>> }

\* Removing 2 moves 3 away from its parent 5, which stays; 4 can be added below 3.
MovedSuccessor == { <<2, 1, 5, 3>> }

Once       == [t \in Thread |-> 1]
OnceTwice  == [t \in Thread |-> IF t = t1 THEN 1 ELSE 2]
OnceThrice == [t \in Thread |-> IF t = t1 THEN 1 ELSE 3]

\* Any call with one of the four keys.
InMiddle     == [t \in Thread |-> {o \in AnyOp : o.key \in Middle}]
\* t1 adds or removes, the others remove.
OthersRemove == [t \in Thread |-> IF t = t1 THEN Adds \cup Removes ELSE Removes]
RemovesOnly  == [t \in Thread |-> Removes]
\* t1 is the only one to remove.
OneRemover   == [t \in Thread |-> IF t = t1 THEN Removes ELSE Adds \cup Contains]
=============================================================================
