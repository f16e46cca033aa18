----------------------------- MODULE OrderedSet -----------------------------
(***************************************************************************)
(* What the tree promises to one caller at a time: it is a set of keys,    *)
(* and each operation answers whether its key was in the set.              *)
(*                                                                         *)
(* The C++ answers are folded into two: "present" stands for the key       *)
(* itself (add, remove) and for true (contains), "absent" for              *)
(* invalidNumber and for false.                                            *)
(***************************************************************************)
CONSTANT Key

OpType == {"add", "remove", "contains"}
Op     == [type : OpType, key : Key]
Answer == {"present", "absent"}

\* What operation o answers on the set S.
Reply(S, o) == IF o.key \in S THEN "present" ELSE "absent"

\* The set that operation o leaves behind.
After(S, o) ==
    CASE o.type = "add"      -> S \cup {o.key}
      [] o.type = "remove"   -> S \ {o.key}
      [] o.type = "contains" -> S
=============================================================================
