--------------------------- MODULE SeqTreeProofs ---------------------------
(***************************************************************************)
(* Theorems about the sequential tree of SeqTree.tla, for any keys and     *)
(* finitely many nodes.                                                    *)
(*                                                                         *)
(* The traversals of SeqTree.tla are recursive functions of a depth.  The  *)
(* invariant avoids them: it gives each pointer p a set below[p] of nodes, *)
(* and says that these sets nest like subtrees and are on the right side   *)
(* of the keys above them.  Every call changes the sets by one node.  That *)
(* a traversal lists below[p] in order, and a search ends where the key    *)
(* belongs, is then shown by induction on the size of the set.             *)
(***************************************************************************)
EXTENDS SeqTree, SequenceTheorems, FiniteSetTheorems, WellFoundedInduction, TLAPS

-----------------------------------------------------------------------------
(* The invariant *)

Dir == {"left", "right"}
Opp(e) == IF e = "left" THEN "right" ELSE "left"

\* Key x belongs on side e of key y.
On(e, x, y) == IF e = "left" THEN x < y ELSE y < x

\* The child of n on side e, in memory h.
Kid(h, n, e) == IF e = "left" THEN h[n].left ELSE h[n].right

Memory == [Node -> [key : Key \cup {CHOOSE k \in Key : TRUE}, left : Ptr, right : Ptr]]

\* below[p] are the nodes reached from p.
Linked(h, r, below) ==
    \A n \in below[r] :
        /\ h[n].key \in Key
        /\ \A e \in Dir : Kid(h, n, e) # NULL => Kid(h, n, e) \in below[Kid(h, n, e)]
        /\ below[n] = {n} \cup below[Kid(h, n, "left")] \cup below[Kid(h, n, "right")]

\* No node is reached in two ways.
Nested(r, below) ==
    /\ \A n \in below[r] : \A m \in below[n] : below[m] \subseteq below[n]
    /\ \A n, m \in below[r] : n \in below[m] \/ m \in below[n] \/ below[n] \cap below[m] = {}

Sorted(h, r, below) ==
    \A n \in below[r] : \A e \in Dir : \A m \in below[Kid(h, n, e)] : On(e, h[m].key, h[n].key)

Tidy(h, r, below) ==
    /\ h \in Memory /\ r \in Ptr
    /\ below \in [Ptr -> SUBSET Node] /\ below[NULL] = {}
    /\ r # NULL => r \in below[r]
    /\ Linked(h, r, below) /\ Nested(r, below) /\ Sorted(h, r, below)

\* The memory of the program is such a tree.
TreeShaped == \E below : Tidy(node, root, below)

-----------------------------------------------------------------------------
(* What tidiness says about single nodes *)

LEMMA KeysAreNumbers == ASSUME NEW k \in Key PROVE k \in Int
    BY SeqTreeAssumption

LEMMA KidType ==
    ASSUME NEW h \in Memory, NEW n \in Node, NEW e \in Dir
    PROVE  Kid(h, n, e) \in Ptr
    BY DEF Memory, Kid, Dir

IsKid(h, n, e, c) == c = Kid(h, n, e)

\* The nodes below a node.
LEMMA NodeFacts ==
    ASSUME NEW h, NEW r, NEW b, Tidy(h, r, b), NEW n \in b[r]
    PROVE  /\ n \in Node /\ h[n].key \in Key /\ h[n].key \in Int
           /\ n \in b[n] /\ b[n] \subseteq b[r] /\ b[r] \subseteq Node
           /\ \A m \in b[n] : b[m] \subseteq b[n]
<1>1. r # NULL /\ r \in Ptr /\ b[r] \subseteq Node /\ n \in Node
    BY DEF Tidy, Ptr
<1>2. n \in b[n] /\ h[n].key \in Key
    BY DEF Tidy, Linked
<1>3. r \in b[r]
    BY <1>1 DEF Tidy
<1>4. b[n] \subseteq b[r] /\ \A m \in b[n] : b[m] \subseteq b[n]
    BY <1>3 DEF Tidy, Nested
<1> QED
    BY <1>1, <1>2, <1>4, KeysAreNumbers

\* Those on one side of it.
LEMMA SideFacts ==
    ASSUME NEW h, NEW r, NEW b, Tidy(h, r, b), NEW n \in b[r], NEW e \in Dir,
           NEW c, IsKid(h, n, e, c)
    PROVE  /\ c \in Ptr /\ b[c] \subseteq b[n] /\ b[c] \subseteq b[r]
           /\ n \notin b[c]
           /\ c # NULL => c \in b[c] /\ c \in b[r]
           /\ c = NULL => b[c] = {}
           /\ \A m \in b[c] : On(e, h[m].key, h[n].key) /\ h[m].key # h[n].key
<1>1. n \in Node /\ h[n].key \in Int /\ b[n] \subseteq b[r] /\ c = Kid(h, n, e)
    BY NodeFacts DEF IsKid
<1>2. c \in Ptr /\ (c = NULL => b[c] = {})
    BY <1>1, KidType DEF Tidy
<1>3. b[c] \subseteq b[n]
    BY <1>1 DEF Dir, Tidy, Linked
<1>4. \A m \in b[c] : On(e, h[m].key, h[n].key)
    BY <1>1 DEF Tidy, Sorted
<1>5. \A m \in b[n] : h[m].key \in Int
    BY <1>1, NodeFacts
<1>6. \A m \in b[c] : On(e, h[m].key, h[n].key) /\ h[m].key # h[n].key
    BY <1>1, <1>3, <1>4, <1>5 DEF On
<1>7. c # NULL => c \in b[c]
    BY <1>1 DEF Tidy, Linked
<1> QED
    BY <1>1, <1>2, <1>3, <1>6, <1>7

\* Its two sides.
LEMMA Halves ==
    ASSUME NEW h, NEW r, NEW b, Tidy(h, r, b), NEW n \in b[r], NEW e \in Dir,
           NEW c, IsKid(h, n, e, c), NEW o, IsKid(h, n, Opp(e), o)
    PROVE  /\ b[n] = {n} \cup b[c] \cup b[o]
           /\ b[c] \cap b[o] = {}
<1>1. Opp(e) \in Dir
    BY DEF Opp, Dir
<1>2. b[n] = {n} \cup b[c] \cup b[o]
    BY DEF Opp, Dir, Tidy, Linked, IsKid
<1>3. /\ \A m \in b[c] : m \in b[r] /\ On(e, h[m].key, h[n].key)
      /\ \A m \in b[o] : m \in b[r] /\ On(Opp(e), h[m].key, h[n].key)
    BY <1>1, SideFacts
<1>4. h[n].key \in Int /\ \A m \in b[r] : h[m].key \in Int
    BY NodeFacts
<1> QED
    BY <1>2, <1>3, <1>4 DEF On, Opp, Dir

\* A node has one parent.
LEMMA OneParent ==
    ASSUME NEW h, NEW r, NEW b, Tidy(h, r, b), NEW n \in b[r], NEW m \in b[r],
           NEW d \in Dir, NEW e \in Dir, NEW c, c # NULL, IsKid(h, n, d, c), IsKid(h, m, e, c)
    PROVE  n = m /\ d = e
<1>1. c \in b[c] /\ c \in b[n] /\ c \in b[m]
    BY SideFacts
<1>2. ASSUME NEW x \in b[r], NEW y \in b[r], NEW f \in Dir, NEW g \in Dir,
             IsKid(h, x, f, c), IsKid(h, y, g, c), y \in b[x]
      PROVE  x = y /\ f = g
    <2>1. x \notin b[c] /\ y \notin b[c]
        BY <1>2, SideFacts
    <2>2. PICK o : IsKid(h, x, Opp(f), o)
        BY DEF IsKid
    <2>3. b[x] = {x} \cup b[c] \cup b[o] /\ b[c] \cap b[o] = {}
        BY <1>2, <2>2, Halves
    <2>4. CASE y = x
        <3>1. f = g \/ g = Opp(f)
            BY DEF Dir, Opp
        <3>2. g = Opp(f) => c = o
            BY <1>2, <2>2, <2>4 DEF IsKid
        <3> QED
            BY <1>1, <2>3, <2>4, <3>1, <3>2
    <2>5. CASE y \in b[o]
        <3>1. Opp(f) \in Dir
            BY DEF Opp, Dir
        <3>2. o \in b[r]
            BY <2>2, <2>5, <3>1, SideFacts
        <3>3. b[y] \subseteq b[o]
            BY <2>5, <3>2, NodeFacts
        <3>4. c \in b[y]
            BY <1>1, <1>2, SideFacts
        <3> QED
            BY <1>1, <2>3, <3>3, <3>4
    <2> QED
        BY <1>2, <2>1, <2>3, <2>4, <2>5
<1>3. n \in b[m] \/ m \in b[n]
    BY <1>1 DEF Tidy, Nested
<1> QED
    BY <1>2, <1>3
\* What has to hold around one node.
Local(h, b, n, e, c, o) ==
    /\ e \in Dir /\ IsKid(h, n, e, c) /\ IsKid(h, n, Opp(e), o)
    /\ c # NULL => c \in b[c]
    /\ o # NULL => o \in b[o]
    /\ b[n] = {n} \cup b[c] \cup b[o]
    /\ \A m \in b[c] : On(e, h[m].key, h[n].key)
    /\ \A m \in b[o] : On(Opp(e), h[m].key, h[n].key)

LEMMA Assemble ==
    ASSUME NEW h \in Memory, NEW r \in Ptr, NEW b \in [Ptr -> SUBSET Node], b[NULL] = {},
           r # NULL => r \in b[r], Nested(r, b),
           \A n \in b[r] : h[n].key \in Key /\ \E e, c, o : Local(h, b, n, e, c, o)
    PROVE  Tidy(h, r, b)
<1>1. ASSUME NEW n \in b[r]
      PROVE  /\ \A e \in Dir : Kid(h, n, e) # NULL => Kid(h, n, e) \in b[Kid(h, n, e)]
             /\ b[n] = {n} \cup b[Kid(h, n, "left")] \cup b[Kid(h, n, "right")]
             /\ \A e \in Dir : \A m \in b[Kid(h, n, e)] : On(e, h[m].key, h[n].key)
    <2>1. PICK e, c, o : Local(h, b, n, e, c, o)
        OBVIOUS
    <2>2. /\ c = Kid(h, n, e) /\ o = Kid(h, n, Opp(e))
          /\ e \in Dir /\ Dir = {e, Opp(e)} /\ Dir = {"left", "right"}
        BY <2>1 DEF Local, IsKid, Dir, Opp
    <2>3. b[n] = {n} \cup b[Kid(h, n, "left")] \cup b[Kid(h, n, "right")]
        BY <2>1, <2>2 DEF Local, Opp, Dir
    <2>4. \A d \in Dir : Kid(h, n, d) # NULL => Kid(h, n, d) \in b[Kid(h, n, d)]
        BY <2>1, <2>2 DEF Local
    <2>5. \A d \in Dir : \A m \in b[Kid(h, n, d)] : On(d, h[m].key, h[n].key)
        BY <2>1, <2>2 DEF Local
    <2> QED
        BY <2>3, <2>4, <2>5
<1> QED
    BY <1>1 DEF Tidy, Linked, Sorted

\* And what does hold.
LEMMA Around ==
    ASSUME NEW h, NEW r, NEW b, Tidy(h, r, b), NEW n \in b[r], NEW e \in Dir,
           NEW c, IsKid(h, n, e, c), NEW o, IsKid(h, n, Opp(e), o)
    PROVE  Local(h, b, n, e, c, o)
<1>1. Opp(e) \in Dir
    BY DEF Opp, Dir
<1>2. /\ c # NULL => c \in b[c]
      /\ \A m \in b[c] : On(e, h[m].key, h[n].key)
    BY SideFacts
<1>3. /\ o # NULL => o \in b[o]
      /\ \A m \in b[o] : On(Opp(e), h[m].key, h[n].key)
    BY <1>1, SideFacts
<1>4. b[n] = {n} \cup b[c] \cup b[o]
    BY Halves
<1> QED
    BY <1>2, <1>3, <1>4 DEF Local

-----------------------------------------------------------------------------
(* Changes that leave it tidy *)

\* At node n, key k is on the right side of every key above.
Fits(h, r, b, n, k) ==
    \A m \in b[r] : \A d \in Dir : \A c :
        IsKid(h, m, d, c) /\ n \in b[c] => On(d, k, h[m].key)

\* In h2 the nodes of T have the children they have in h, but p has c on side e.
Rewired(h, h2, T, p, e, c) ==
    \A m \in T : \A d \in Dir : \A x :
        IsKid(h, m, d, x) => IsKid(h2, m, d, IF m = p /\ d = e THEN c ELSE x)

SameKids(h, h2, T) == \A m \in T : \A d \in Dir : \A x : IsKid(h, m, d, x) => IsKid(h2, m, d, x)
SameKeys(h, h2, T) == \A m \in T : h2[m].key = h[m].key

\* A new node n with key k in the empty place on side e of leaf, where k belongs.
LEMMA HangUp ==
    ASSUME NEW h, NEW r, NEW b, Tidy(h, r, b), NEW leaf \in b[r], NEW e \in Dir,
           IsKid(h, leaf, e, NULL), NEW n \in Node \ b[r], NEW k \in Key,
           On(e, k, h[leaf].key),
           Fits(h, r, b, leaf, k),
           NEW h2 \in Memory, h2[n].key = k, SameKeys(h, h2, b[r]),
           \A d \in Dir : IsKid(h2, n, d, NULL), Rewired(h, h2, b[r], leaf, e, n)
    PROVE  \E b2 : Tidy(h2, r, b2) /\ b2[r] = b[r] \cup {n}
<1> DEFINE b2 == [q \in Ptr |-> IF q = n THEN {n}
                                ELSE IF leaf \in b[q] THEN b[q] \cup {n} ELSE b[q]]
<1>1. /\ r \in Ptr /\ r # NULL /\ b \in [Ptr -> SUBSET Node] /\ b[NULL] = {} /\ r \in b[r]
      /\ b[r] \subseteq Node /\ NULL \notin Node
    BY SeqTreeAssumption DEF Tidy
<1>2. /\ b2 \in [Ptr -> SUBSET Node] /\ b2[NULL] = {} /\ b2[n] = {n}
      /\ \A q \in Ptr \ {n} : b2[q] = IF leaf \in b[q] THEN b[q] \cup {n} ELSE b[q]
    BY <1>1 DEF Ptr
<1> HIDE DEF b2
<1>3. b2[r] = b[r] \cup {n}
    BY <1>1, <1>2
<1>4. Nested(r, b2)
    <2>1. \A x \in b[r] : /\ x \in Ptr \ {n} /\ b[x] \subseteq b[r] /\ \A y \in b[x] : b[y] \subseteq b[x]
                          /\ x \in b[x]
        BY <1>1, NodeFacts DEF Ptr
    <2>2. ASSUME NEW x \in b2[r], NEW y \in b2[x] PROVE b2[y] \subseteq b2[x]
        BY <1>2, <1>3, <2>1, <2>2
    <2>3. ASSUME NEW x \in b2[r], NEW y \in b2[r]
          PROVE  x \in b2[y] \/ y \in b2[x] \/ b2[x] \cap b2[y] = {}
        <3>1. CASE x = n \/ y = n
            BY <1>2, <1>3, <2>1, <2>3, <3>1
        <3>2. CASE x # n /\ y # n
            <4>1. x \in b[y] \/ y \in b[x] \/ b[x] \cap b[y] = {}
                BY <1>3, <2>3, <3>2 DEF Tidy, Nested
            <4> QED
                BY <1>2, <1>3, <2>1, <2>3, <3>2, <4>1
        <3> QED
            BY <3>1, <3>2
    <2> QED
        BY <2>2, <2>3 DEF Nested
<1>5. ASSUME NEW m \in b2[r]
      PROVE  h2[m].key \in Key /\ \E d, c, o : Local(h2, b2, m, d, c, o)
    <2>1. CASE m = n
        <3>1. e \in Dir /\ IsKid(h2, n, e, NULL) /\ IsKid(h2, n, Opp(e), NULL)
            BY DEF Opp, Dir
        <3>2. Local(h2, b2, n, e, NULL, NULL)
            BY <1>2, <3>1 DEF Local
        <3> QED
            BY <2>1, <3>2
    <2>2. CASE m # n
        <3>1. m \in b[r]
            BY <1>3, <2>2
        <3>2. PICK c, o : IsKid(h, m, e, c) /\ IsKid(h, m, Opp(e), o)
            BY DEF IsKid
        <3>3. /\ Opp(e) \in Dir /\ e # Opp(e) /\ c \in Ptr /\ o \in Ptr
              /\ c \in b[r] \cup {NULL} /\ o \in b[r] \cup {NULL} /\ m \notin b[c] /\ m \notin b[o]
              /\ b[c] \subseteq b[r] /\ b[o] \subseteq b[r]
            <4>1. Opp(e) \in Dir /\ e # Opp(e)
                BY DEF Opp, Dir
            <4> QED
                BY <3>1, <3>2, <4>1, SideFacts
        <3>4. Local(h, b, m, e, c, o)
            BY <3>1, <3>2, Around
        <3>5. /\ IsKid(h2, m, e, IF m = leaf THEN n ELSE c)
              /\ IsKid(h2, m, Opp(e), o)
            BY <3>1, <3>2, <3>3 DEF Rewired
        <3>6. /\ c # n /\ o # n /\ m \in Ptr \ {n}
              /\ b2[c] = IF leaf \in b[c] THEN b[c] \cup {n} ELSE b[c]
              /\ b2[o] = IF leaf \in b[o] THEN b[o] \cup {n} ELSE b[o]
              /\ b2[m] = IF leaf \in b[m] THEN b[m] \cup {n} ELSE b[m]
            BY <1>1, <1>2, <3>1, <3>3 DEF Ptr
        <3>7. /\ leaf \in b[c] => On(e, k, h[m].key)
              /\ leaf \in b[o] => On(Opp(e), k, h[m].key)
            BY <3>1, <3>2, <3>3 DEF Fits
        <3>8. /\ h2[m].key \in Key /\ h2[m].key = h[m].key /\ m \in b[m]
              /\ \A x \in b[r] : h2[x].key = h[x].key
            BY <3>1, NodeFacts DEF SameKeys
        <3>9. \A x \in b2[o] : On(Opp(e), h2[x].key, h2[m].key)
            BY <3>3, <3>4, <3>6, <3>7, <3>8 DEF Local
        <3>10. o # NULL => o \in b2[o]
            BY <3>4, <3>6 DEF Local
        <3>11. CASE m = leaf
            <4>1. c = NULL
                BY <3>2, <3>11 DEF IsKid
            <4>2. b2[m] = {m} \cup b2[n] \cup b2[o]
                BY <1>1, <1>2, <3>3, <3>4, <3>6, <3>8, <3>11, <4>1 DEF Local
            <4>3. \A x \in b2[n] : On(e, h2[x].key, h2[m].key)
                BY <1>2, <3>8, <3>11
            <4>4. Local(h2, b2, m, e, n, o)
                BY <1>2, <3>5, <3>9, <3>10, <3>11, <4>2, <4>3 DEF Local
            <4> QED
                BY <3>8, <4>4
        <3>12. CASE m # leaf
            <4>1. b2[m] = {m} \cup b2[c] \cup b2[o]
                BY <3>4, <3>6, <3>12 DEF Local
            <4>2. \A x \in b2[c] : On(e, h2[x].key, h2[m].key)
                BY <3>3, <3>4, <3>6, <3>7, <3>8 DEF Local
            <4>3. c # NULL => c \in b2[c]
                BY <3>4, <3>6 DEF Local
            <4>4. Local(h2, b2, m, e, c, o)
                BY <3>5, <3>9, <3>10, <3>12, <4>1, <4>2, <4>3 DEF Local
            <4> QED
                BY <3>8, <4>4
        <3> QED
            BY <3>11, <3>12
    <2> QED
        BY <2>1, <2>2
<1>6. Tidy(h2, r, b2)
    BY <1>1, <1>2, <1>3, <1>4, <1>5, Assemble
<1> QED
    BY <1>3, <1>6
\* Node n, which has at most a child c, gives its place on side e of p to c.
LEMMA TakeOut ==
    ASSUME NEW h, NEW r, NEW b, Tidy(h, r, b), NEW p \in b[r], NEW e \in Dir, NEW n \in b[r],
           IsKid(h, p, e, n), NEW f \in Dir, NEW c, IsKid(h, n, f, c), IsKid(h, n, Opp(f), NULL),
           NEW h2 \in Memory, SameKeys(h, h2, b[r]), Rewired(h, h2, b[r], p, e, c)
    PROVE  \E b2 : Tidy(h2, r, b2) /\ \A q \in Ptr : b2[q] = b[q] \ {n}
<1> DEFINE b2 == [q \in Ptr |-> b[q] \ {n}]
<1>1. /\ r \in Ptr /\ r # NULL /\ b \in [Ptr -> SUBSET Node] /\ b[NULL] = {} /\ r \in b[r]
      /\ b[r] \subseteq Node /\ NULL \notin Node /\ n # NULL /\ NULL \in Ptr
    BY SeqTreeAssumption DEF Tidy, Ptr
<1>2. /\ b2 \in [Ptr -> SUBSET Node] /\ b2[NULL] = {}
      /\ \A q \in Ptr : b2[q] = b[q] \ {n}
    BY <1>1
<1> HIDE DEF b2
<1>3. b2[r] = b[r] \ {n}
    BY <1>1, <1>2
<1>4. p \notin b[n] /\ n \in b[p]
    BY <1>1, SideFacts
<1>5. p # n /\ r # n
    BY <1>1, <1>4, NodeFacts
<1>6. \A x \in b[r] : /\ x \in Ptr /\ x \in b[x] /\ b[x] \subseteq b[r]
                      /\ h[x].key \in Key /\ \A y \in b[x] : b[y] \subseteq b[x]
    BY NodeFacts DEF Ptr
<1>7. b[n] = {n} \cup b[c] /\ n \notin b[c] /\ c \in Ptr /\ (c # NULL => c \in b[c])
    BY <1>1, Halves, SideFacts
<1>8. Nested(r, b2)
    <2>1. ASSUME NEW x \in b2[r], NEW y \in b2[x] PROVE b2[y] \subseteq b2[x]
        BY <1>2, <1>3, <1>6, <2>1
    <2>2. ASSUME NEW x \in b2[r], NEW y \in b2[r]
          PROVE  x \in b2[y] \/ y \in b2[x] \/ b2[x] \cap b2[y] = {}
        <3>1. x \in b[y] \/ y \in b[x] \/ b[x] \cap b[y] = {}
            BY <1>3, <2>2 DEF Tidy, Nested
        <3> QED
            BY <1>2, <1>3, <1>6, <2>2, <3>1
    <2> QED
        BY <2>1, <2>2 DEF Nested
<1>9. ASSUME NEW m \in b2[r]
      PROVE  h2[m].key \in Key /\ \E d, x, o : Local(h2, b2, m, d, x, o)
    <2>1. m \in b[r] /\ m # n
        BY <1>3
    <2>2. PICK x, o : IsKid(h, m, e, x) /\ IsKid(h, m, Opp(e), o)
        BY DEF IsKid
    <2>3. Opp(e) \in Dir /\ e # Opp(e)
        BY DEF Opp, Dir
    <2>4. x \in Ptr /\ o \in Ptr /\ b[x] \subseteq b[r] /\ b[o] \subseteq b[r]
        BY <2>1, <2>2, <2>3, SideFacts
    <2>5. Local(h, b, m, e, x, o)
        BY <2>1, <2>2, Around
    <2>6. /\ IsKid(h2, m, e, IF m = p THEN c ELSE x)
          /\ IsKid(h2, m, Opp(e), o)
        BY <2>1, <2>2, <2>3 DEF Rewired
    <2>7. /\ b2[x] = b[x] \ {n} /\ b2[o] = b[o] \ {n} /\ b2[m] = b[m] \ {n}
          /\ b2[c] = b[c]
        <3>1. m \in Ptr
            BY <1>6, <2>1
        <3>2. b2[c] = b[c] \ {n}
            BY <1>2, <1>7
        <3>3. b2[x] = b[x] \ {n} /\ b2[o] = b[o] \ {n} /\ b2[m] = b[m] \ {n}
            BY <1>2, <2>4, <3>1
        <3> QED
            BY <1>7, <3>2, <3>3
    <2>8. o # n
        BY <1>1, <2>1, <2>2, <2>3, OneParent
    <2>9. h2[m].key \in Key /\ h2[m].key = h[m].key /\ \A y \in b[r] : h2[y].key = h[y].key
        BY <1>6, <2>1 DEF SameKeys
    <2>10. /\ o # NULL => o \in b2[o]
           /\ \A y \in b2[o] : On(Opp(e), h2[y].key, h2[m].key)
        BY <2>4, <2>5, <2>7, <2>8, <2>9 DEF Local
    <2>11. CASE m = p
        <3>1. x = n
            BY <2>2, <2>11 DEF IsKid
        <3>2. b2[m] = {m} \cup b2[c] \cup b2[o]
            BY <1>7, <2>1, <2>5, <2>7, <3>1 DEF Local
        <3>3. \A y \in b2[c] : On(e, h2[y].key, h2[m].key)
            BY <1>7, <2>4, <2>5, <2>7, <2>9, <3>1 DEF Local
        <3>4. Local(h2, b2, m, e, c, o)
            BY <1>7, <2>6, <2>7, <2>10, <2>11, <3>2, <3>3 DEF Local
        <3> QED
            BY <2>9, <3>4
    <2>12. CASE m # p
        <3>1. x # n
            BY <1>1, <2>1, <2>2, <2>12, OneParent
        <3>2. b2[m] = {m} \cup b2[x] \cup b2[o]
            BY <2>1, <2>5, <2>7 DEF Local
        <3>3. \A y \in b2[x] : On(e, h2[y].key, h2[m].key)
            BY <2>4, <2>5, <2>7, <2>9 DEF Local
        <3>4. Local(h2, b2, m, e, x, o)
            BY <2>5, <2>6, <2>7, <2>10, <2>12, <3>1, <3>2, <3>3 DEF Local
        <3> QED
            BY <2>9, <3>4
    <2> QED
        BY <2>11, <2>12
<1>10. Tidy(h2, r, b2)
    BY <1>1, <1>2, <1>3, <1>5, <1>8, <1>9, Assemble
<1> QED
    BY <1>2, <1>10

\* Node n gets key k, which lies between the keys on either side of n and on the
\* same sides of the nodes above.
LEMMA Rekey ==
    ASSUME NEW h, NEW r, NEW b, Tidy(h, r, b), NEW n \in b[r], NEW k \in Key,
           Fits(h, r, b, n, k),
           \A d \in Dir : \A c : IsKid(h, n, d, c) => \A m \in b[c] : On(d, h[m].key, k),
           NEW h2 \in Memory, h2[n].key = k, SameKeys(h, h2, b[r] \ {n}), SameKids(h, h2, b[r])
    PROVE  Tidy(h2, r, b)
<1>1. /\ r \in Ptr /\ b \in [Ptr -> SUBSET Node] /\ b[NULL] = {} /\ (r # NULL => r \in b[r])
      /\ Nested(r, b)
    BY DEF Tidy
<1>2. ASSUME NEW m \in b[r]
      PROVE  h2[m].key \in Key /\ \E d, x, o : Local(h2, b, m, d, x, o)
    <2>1. PICK e \in Dir : e = "left"
        BY DEF Dir
    <2>2. PICK x, o : IsKid(h, m, e, x) /\ IsKid(h, m, Opp(e), o)
        BY DEF IsKid
    <2>3. Opp(e) \in Dir
        BY DEF Opp, Dir
    <2>4. /\ x \in Ptr /\ o \in Ptr /\ b[x] \subseteq b[r] /\ b[o] \subseteq b[r]
          /\ m \notin b[x] /\ m \notin b[o]
        BY <2>2, <2>3, SideFacts
    <2>5. Local(h, b, m, e, x, o)
        BY <2>2, Around
    <2>6. IsKid(h2, m, e, x) /\ IsKid(h2, m, Opp(e), o)
        BY <2>2, <2>3 DEF SameKids
    <2>7. h2[m].key \in Key
        BY NodeFacts DEF SameKeys
    <2>8. ASSUME NEW d \in Dir, NEW c, IsKid(h, m, d, c), b[c] \subseteq b[r], m \notin b[c],
                 \A y \in b[c] : On(d, h[y].key, h[m].key)
          PROVE  \A y \in b[c] : On(d, h2[y].key, h2[m].key)
        <3>1. CASE m = n
            BY <2>8, <3>1 DEF SameKeys
        <3>2. CASE m # n
            BY <2>8, <3>2 DEF SameKeys, Fits
        <3> QED
            BY <3>1, <3>2
    <2>9. /\ \A y \in b[x] : On(e, h2[y].key, h2[m].key)
          /\ \A y \in b[o] : On(Opp(e), h2[y].key, h2[m].key)
        BY <2>2, <2>3, <2>4, <2>5, <2>8 DEF Local
    <2> QED
        BY <2>5, <2>6, <2>7, <2>9 DEF Local
<1> QED
    BY <1>1, <1>2, Assemble

-----------------------------------------------------------------------------
(* The recursive functions *)

\* A set of natural numbers has a least one.
LEMMA Least ==
    ASSUME NEW T \in SUBSET Nat, T # {}
    PROVE  \E m \in T : \A i \in T : ~(i < m)
<1>1. PICK m \in T : \A y \in T : ~(<<y, m>> \in OpToRel(<, Nat))
    BY NatLessThanWellFounded, WFMin
<1>2. \A y \in T : ~(y < m)
    BY <1>1 DEF OpToRel
<1> QED
    BY <1>2

\* A function can be applied again and again.
Iteration(w, A, a, F, C) ==
    w \in [0 .. C -> A] /\ w[0] = a /\ \A i \in 1 .. C : w[i] = F[w[i - 1]]

LEMMA Iterates ==
    ASSUME NEW A, NEW a \in A, NEW F \in [A -> A], NEW C \in Nat
    PROVE  \E w : Iteration(w, A, a, F, C)
<1> DEFINE Good(m) == \E w \in [0 .. m -> A] : w[0] = a /\ \A i \in 1 .. m : w[i] = F[w[i - 1]]
           Bad == {m \in Nat : ~Good(m)}
<1>1. Good(0)
    <2> DEFINE w == [i \in 0 .. 0 |-> a]
    <2>1. w \in [0 .. 0 -> A] /\ w[0] = a /\ \A i \in 1 .. 0 : w[i] = F[w[i - 1]]
        OBVIOUS
    <2> QED
        BY <2>1
<1>2. ASSUME NEW m \in Nat, Good(m) PROVE Good(m + 1)
    <2>1. PICK w \in [0 .. m -> A] : w[0] = a /\ \A i \in 1 .. m : w[i] = F[w[i - 1]]
        BY <1>2
    <2> DEFINE v == [i \in 0 .. m + 1 |-> IF i = m + 1 THEN F[w[m]] ELSE w[i]]
    <2>2. v \in [0 .. m + 1 -> A] /\ v[0] = a
        BY <2>1
    <2>3. ASSUME NEW i \in 1 .. m + 1 PROVE v[i] = F[v[i - 1]]
        <3>1. i - 1 \in 0 .. m /\ v[i - 1] = w[i - 1]
            OBVIOUS
        <3>2. CASE i = m + 1
            BY <3>1, <3>2
        <3>3. CASE i \in 1 .. m
            BY <2>1, <3>1, <3>3
        <3> QED
            BY <3>2, <3>3
    <2> HIDE DEF v
    <2> QED
        BY <2>2, <2>3
<1>3. Good(C)
    <2> HIDE DEF Good
    <2> SUFFICES ASSUME Bad # {} PROVE FALSE
        OBVIOUS
    <2>1. PICK m \in Bad : \A i \in Bad : ~(i < m)
        BY Least
    <2>2. m # 0
        BY <1>1
    <2>3. m - 1 \in Nat /\ Good(m - 1)
        BY <2>1, <2>2
    <2> QED
        BY <1>2, <2>1, <2>2, <2>3
<1> QED
    BY <1>3 DEF Iteration

LEMMA MemoryFacts ==
    ASSUME node \in Memory, IsFiniteSet(Node)
    PROVE  /\ Cardinality(Node) \in Nat
           /\ \A m \in Node : node[m].left \in Ptr /\ node[m].right \in Ptr
           /\ NULL \in Ptr /\ NULL \notin Node /\ Ptr = Node \cup {NULL}
    BY FS_CardinalityType, SeqTreeAssumption DEF Memory, Ptr

\* The listing in order is the recursive function of its definition.
OrderRows(w, C) ==
    /\ \A m \in Ptr : w[0][m] = << >>
    /\ \A i \in 0 .. C : w[i][NULL] = << >>
    /\ \A i \in 1 .. C : \A m \in Node :
          w[i][m] = w[i - 1][node[m].left] \o <<m>> \o w[i - 1][node[m].right]

LEMMA InOrderRows ==
    ASSUME node \in Memory, IsFiniteSet(Node), NEW C, C = Cardinality(Node)
    PROVE  \E w : OrderRows(w, C) /\ \A n \in Ptr : InOrderFrom(n) = w[C][n]
<1> DEFINE A == [Ptr -> Seq(Node)]
           F == [v \in A |-> [m \in Ptr |->
                    IF m = NULL THEN << >> ELSE v[node[m].left] \o <<m>> \o v[node[m].right]]]
           a == [m \in Ptr |-> << >>]
           IsRows(w) == w = [i \in 0 .. C |-> [m \in Ptr |->
                    IF m = NULL \/ i = 0 THEN << >>
                    ELSE w[i - 1][node[m].left] \o <<m>> \o w[i - 1][node[m].right]]]
<1>1. C \in Nat /\ NULL \in Ptr /\ NULL \notin Node /\ Ptr = Node \cup {NULL}
    BY MemoryFacts
<1>2. a \in A
    OBVIOUS
<1>3. F \in [A -> A]
    <2>1. ASSUME NEW v \in A, NEW m \in Node
          PROVE  v[node[m].left] \o <<m>> \o v[node[m].right] \in Seq(Node)
        <3>1. node[m].left \in Ptr /\ node[m].right \in Ptr
            BY MemoryFacts
        <3>2. v[node[m].left] \in Seq(Node) /\ v[node[m].right] \in Seq(Node) /\ <<m>> \in Seq(Node)
            BY <3>1
        <3> QED
            BY <3>2, ConcatProperties
    <2>2. ASSUME NEW v \in A PROVE F[v] \in A
        <3>1. F[v] = [m \in Ptr |->
                    IF m = NULL THEN << >> ELSE v[node[m].left] \o <<m>> \o v[node[m].right]]
            OBVIOUS
        <3>2. \A m \in Ptr : (IF m = NULL THEN << >>
                    ELSE v[node[m].left] \o <<m>> \o v[node[m].right]) \in Seq(Node)
            <4> TAKE m \in Ptr
            <4>1. CASE m = NULL
                BY <4>1
            <4>2. CASE m \in Node
                <5>1. v[node[m].left] \o <<m>> \o v[node[m].right] \in Seq(Node)
                    BY <2>1, <4>2
                <5> QED
                    BY <1>1, <4>2, <5>1
            <4> QED
                BY <1>1, <4>1, <4>2
        <3> QED
            BY <3>1, <3>2
    <2> QED
        BY <2>2
<1>4. PICK w \in [0 .. C -> A] : w[0] = a /\ \A i \in 1 .. C : w[i] = F[w[i - 1]]
    <2> HIDE DEF A, F, a
    <2>1. PICK w : Iteration(w, A, a, F, C)
        BY <1>1, <1>2, <1>3, Iterates, Zenon
    <2> QED
        BY <2>1 DEF Iteration
<1>5. IsRows(w)
    <2> DEFINE row(i) == [m \in Ptr |->
                    IF m = NULL \/ i = 0 THEN << >>
                    ELSE w[i - 1][node[m].left] \o <<m>> \o w[i - 1][node[m].right]]
    <2>1. w[0] = row(0)
        BY <1>4
    <2>2. ASSUME NEW i \in 1 .. C PROVE w[i] = row(i)
        <3>1. w[i - 1] \in A /\ w[i] = F[w[i - 1]] /\ i # 0
            <4> HIDE DEF A, F
            <4>1. i - 1 \in 0 .. C /\ i # 0
                BY <1>1
            <4> QED
                BY <1>4, <4>1
        <3> QED
            BY <3>1
    <2>3. \A i \in 0 .. C : w[i] = row(i)
        <3> HIDE DEF row
        <3> QED
            BY <1>1, <2>1, <2>2
    <2>4. w = [i \in 0 .. C |-> row(i)]
        <3> HIDE DEF row, A
        <3> QED
            BY <1>4, <2>3
    <2> QED
        BY <2>4
<1>6. \A n : InOrderFrom(n) = (CHOOSE v : IsRows(v))[C][n]
    BY Zenon DEF InOrderFrom
<1>7. PICK v : IsRows(v) /\ \A n : InOrderFrom(n) = v[C][n]
    <2> HIDE DEF IsRows
    <2> QED
        BY <1>5, <1>6, Zenon
<1> HIDE DEF A, F, a
<1>8. ASSUME NEW i \in 0 .. C, NEW m \in Ptr
      PROVE  v[i][m] = IF m = NULL \/ i = 0 THEN << >>
                       ELSE v[i - 1][node[m].left] \o <<m>> \o v[i - 1][node[m].right]
    <2>1. v[i] = [q \in Ptr |->
                    IF q = NULL \/ i = 0 THEN << >>
                    ELSE v[i - 1][node[q].left] \o <<q>> \o v[i - 1][node[q].right]]
        BY <1>7
    <2> QED
        BY <2>1
<1> HIDE DEF IsRows
<1>9. /\ \A m \in Ptr : v[0][m] = << >>
      /\ \A i \in 0 .. C : v[i][NULL] = << >>
    <2>1. 0 \in 0 .. C
        BY <1>1
    <2>2. \A i \in 0 .. C : v[i][NULL] = << >>
        BY <1>1, <1>8
    <2>3. \A m \in Ptr : v[0][m] = << >>
        BY <1>8, <2>1
    <2> QED
        BY <2>2, <2>3
<1>10. ASSUME NEW i \in 1 .. C, NEW m \in Node
       PROVE  v[i][m] = v[i - 1][node[m].left] \o <<m>> \o v[i - 1][node[m].right]
    <2>1. i \in 0 .. C /\ i # 0 /\ m \in Ptr /\ m # NULL
        BY <1>1
    <2> QED
        BY <1>8, <2>1
<1>11. OrderRows(v, C)
    BY <1>9, <1>10 DEF OrderRows
<1> QED
    BY <1>7, <1>11

\* So is the way of a search.
PathRows(w, C, k) ==
    /\ \A m \in Ptr : w[0][m] = << >>
    /\ \A i \in 0 .. C : w[i][NULL] = << >>
    /\ \A i \in 1 .. C : \A m \in Node :
          w[i][m] = IF node[m].key = k THEN <<m>> ELSE <<m>> \o w[i - 1][node[m][Side(m, k)]]

LEMMA PathToRows ==
    ASSUME node \in Memory, IsFiniteSet(Node), NEW C, C = Cardinality(Node), NEW k
    PROVE  \E w : PathRows(w, C, k) /\ PathTo(k) = w[C][root]
<1> DEFINE A == [Ptr -> Seq(Node)]
           F == [v \in A |-> [m \in Ptr |->
                    IF m = NULL THEN << >>
                    ELSE IF node[m].key = k THEN <<m>>
                    ELSE <<m>> \o v[node[m][Side(m, k)]]]]
           a == [m \in Ptr |-> << >>]
           IsRows(w) == w = [i \in 0 .. C |-> [n \in Ptr |->
                    IF n = NULL \/ i = 0 THEN << >>
                    ELSE IF node[n].key = k THEN <<n>>
                    ELSE <<n>> \o w[i - 1][node[n][Side(n, k)]]]]
<1>1. C \in Nat /\ NULL \in Ptr /\ NULL \notin Node /\ Ptr = Node \cup {NULL}
    BY MemoryFacts
<1>2. a \in A
    OBVIOUS
<1>3. F \in [A -> A]
    <2>1. ASSUME NEW v \in A, NEW m \in Node
          PROVE  <<m>> \o v[node[m][Side(m, k)]] \in Seq(Node)
        <3>1. node[m]["left"] \in Ptr /\ node[m]["right"] \in Ptr
            BY MemoryFacts
        <3>2. node[m][Side(m, k)] \in Ptr
            BY <3>1 DEF Side
        <3>3. v[node[m][Side(m, k)]] \in Seq(Node) /\ <<m>> \in Seq(Node)
            BY <3>2
        <3> QED
            BY <3>3, ConcatProperties
    <2>2. ASSUME NEW v \in A PROVE F[v] \in A
        <3>1. F[v] = [m \in Ptr |->
                    IF m = NULL THEN << >>
                    ELSE IF node[m].key = k THEN <<m>>
                    ELSE <<m>> \o v[node[m][Side(m, k)]]]
            OBVIOUS
        <3>2. \A m \in Ptr : (IF m = NULL THEN << >>
                    ELSE IF node[m].key = k THEN <<m>>
                    ELSE <<m>> \o v[node[m][Side(m, k)]]) \in Seq(Node)
            <4> TAKE m \in Ptr
            <4>1. CASE m = NULL
                BY <4>1
            <4>2. CASE m \in Node
                <5>1. <<m>> \o v[node[m][Side(m, k)]] \in Seq(Node) /\ <<m>> \in Seq(Node)
                    BY <2>1, <4>2
                <5> QED
                    BY <1>1, <4>2, <5>1
            <4> QED
                BY <1>1, <4>1, <4>2
        <3> QED
            BY <3>1, <3>2
    <2> QED
        BY <2>2
<1>4. PICK w \in [0 .. C -> A] : w[0] = a /\ \A i \in 1 .. C : w[i] = F[w[i - 1]]
    <2> HIDE DEF A, F, a
    <2>1. PICK w : Iteration(w, A, a, F, C)
        BY <1>1, <1>2, <1>3, Iterates, Zenon
    <2> QED
        BY <2>1 DEF Iteration
<1>5. IsRows(w)
    <2> DEFINE row(i) == [n \in Ptr |->
                    IF n = NULL \/ i = 0 THEN << >>
                    ELSE IF node[n].key = k THEN <<n>>
                    ELSE <<n>> \o w[i - 1][node[n][Side(n, k)]]]
    <2>1. w[0] = row(0)
        BY <1>4
    <2>2. ASSUME NEW i \in 1 .. C PROVE w[i] = row(i)
        <3>1. w[i - 1] \in A /\ w[i] = F[w[i - 1]] /\ i # 0
            <4> HIDE DEF A, F
            <4>1. i - 1 \in 0 .. C /\ i # 0
                BY <1>1
            <4> QED
                BY <1>4, <4>1
        <3> QED
            BY <3>1
    <2>3. \A i \in 0 .. C : w[i] = row(i)
        <3> HIDE DEF row
        <3> QED
            BY <1>1, <2>1, <2>2
    <2>4. w = [i \in 0 .. C |-> row(i)]
        <3> HIDE DEF row, A
        <3> QED
            BY <1>4, <2>3
    <2> QED
        BY <2>4
<1>6. PathTo(k) = (CHOOSE v : IsRows(v))[C][root]
    BY Zenon DEF PathTo
<1>7. PICK v : IsRows(v) /\ PathTo(k) = v[C][root]
    <2> HIDE DEF IsRows
    <2> QED
        BY <1>5, <1>6, Zenon
<1> HIDE DEF A, F, a
<1>8. ASSUME NEW i \in 0 .. C, NEW m \in Ptr
      PROVE  v[i][m] = IF m = NULL \/ i = 0 THEN << >>
                       ELSE IF node[m].key = k THEN <<m>>
                       ELSE <<m>> \o v[i - 1][node[m][Side(m, k)]]
    <2>1. v[i] = [q \in Ptr |->
                    IF q = NULL \/ i = 0 THEN << >>
                    ELSE IF node[q].key = k THEN <<q>>
                    ELSE <<q>> \o v[i - 1][node[q][Side(q, k)]]]
        BY <1>7
    <2> QED
        BY <2>1
<1> HIDE DEF IsRows
<1>9. /\ \A m \in Ptr : v[0][m] = << >>
      /\ \A i \in 0 .. C : v[i][NULL] = << >>
    <2>1. 0 \in 0 .. C
        BY <1>1
    <2>2. \A i \in 0 .. C : v[i][NULL] = << >>
        BY <1>1, <1>8
    <2>3. \A m \in Ptr : v[0][m] = << >>
        BY <1>8, <2>1
    <2> QED
        BY <2>2, <2>3
<1>10. ASSUME NEW i \in 1 .. C, NEW m \in Node
       PROVE  v[i][m] = IF node[m].key = k THEN <<m>>
                        ELSE <<m>> \o v[i - 1][node[m][Side(m, k)]]
    <2>1. i \in 0 .. C /\ i # 0 /\ m \in Ptr /\ m # NULL
        BY <1>1
    <2> QED
        BY <1>8, <2>1
<1>11. PathRows(v, C, k)
    BY <1>9, <1>10 DEF PathRows
<1> QED
    BY <1>7, <1>11

\* And the way down the left children.
DownRows(w, C) ==
    /\ \A m \in Ptr : w[0][m] = << >>
    /\ \A i \in 0 .. C : w[i][NULL] = << >>
    /\ \A i \in 1 .. C : \A m \in Node : w[i][m] = <<m>> \o w[i - 1][node[m].left]

LEMMA LeftmostRows ==
    ASSUME node \in Memory, IsFiniteSet(Node), NEW C, C = Cardinality(Node)
    PROVE  \E w : DownRows(w, C) /\ \A n \in Ptr : LeftmostPath(n) = w[C][n]
<1> DEFINE A == [Ptr -> Seq(Node)]
           F == [v \in A |-> [m \in Ptr |->
                    IF m = NULL THEN << >> ELSE <<m>> \o v[node[m].left]]]
           a == [m \in Ptr |-> << >>]
           IsRows(w) == w = [i \in 0 .. C |-> [m \in Ptr |->
                    IF m = NULL \/ i = 0 THEN << >> ELSE <<m>> \o w[i - 1][node[m].left]]]
<1>1. C \in Nat /\ NULL \in Ptr /\ NULL \notin Node /\ Ptr = Node \cup {NULL}
    BY MemoryFacts
<1>2. a \in A
    OBVIOUS
<1>3. F \in [A -> A]
    <2>1. ASSUME NEW v \in A, NEW m \in Node PROVE <<m>> \o v[node[m].left] \in Seq(Node)
        <3>1. v[node[m].left] \in Seq(Node) /\ <<m>> \in Seq(Node)
            BY MemoryFacts
        <3> QED
            BY <3>1, ConcatProperties
    <2>2. ASSUME NEW v \in A PROVE F[v] \in A
        <3>1. F[v] = [m \in Ptr |-> IF m = NULL THEN << >> ELSE <<m>> \o v[node[m].left]]
            OBVIOUS
        <3>2. \A m \in Ptr : (IF m = NULL THEN << >> ELSE <<m>> \o v[node[m].left]) \in Seq(Node)
            <4> TAKE m \in Ptr
            <4>1. CASE m = NULL
                BY <4>1
            <4>2. CASE m \in Node
                <5>1. <<m>> \o v[node[m].left] \in Seq(Node)
                    BY <2>1, <4>2
                <5> QED
                    BY <1>1, <4>2, <5>1
            <4> QED
                BY <1>1, <4>1, <4>2
        <3> QED
            BY <3>1, <3>2
    <2> QED
        BY <2>2
<1>4. PICK w \in [0 .. C -> A] : w[0] = a /\ \A i \in 1 .. C : w[i] = F[w[i - 1]]
    <2> HIDE DEF A, F, a
    <2>1. PICK w : Iteration(w, A, a, F, C)
        BY <1>1, <1>2, <1>3, Iterates, Zenon
    <2> QED
        BY <2>1 DEF Iteration
<1>5. IsRows(w)
    <2> DEFINE row(i) == [m \in Ptr |->
                    IF m = NULL \/ i = 0 THEN << >> ELSE <<m>> \o w[i - 1][node[m].left]]
    <2>1. w[0] = row(0)
        BY <1>4
    <2>2. ASSUME NEW i \in 1 .. C PROVE w[i] = row(i)
        <3>1. w[i - 1] \in A /\ w[i] = F[w[i - 1]] /\ i # 0
            <4> HIDE DEF A, F
            <4>1. i - 1 \in 0 .. C /\ i # 0
                BY <1>1
            <4> QED
                BY <1>4, <4>1
        <3> QED
            BY <3>1
    <2>3. \A i \in 0 .. C : w[i] = row(i)
        <3> HIDE DEF row
        <3> QED
            BY <1>1, <2>1, <2>2
    <2>4. w = [i \in 0 .. C |-> row(i)]
        <3> HIDE DEF row, A
        <3> QED
            BY <1>4, <2>3
    <2> QED
        BY <2>4
<1>6. \A n : LeftmostPath(n) = (CHOOSE v : IsRows(v))[C][n]
    BY Zenon DEF LeftmostPath
<1>7. PICK v : IsRows(v) /\ \A n : LeftmostPath(n) = v[C][n]
    <2> HIDE DEF IsRows
    <2> QED
        BY <1>5, <1>6, Zenon
<1> HIDE DEF A, F, a
<1>8. ASSUME NEW i \in 0 .. C, NEW m \in Ptr
      PROVE  v[i][m] = IF m = NULL \/ i = 0 THEN << >> ELSE <<m>> \o v[i - 1][node[m].left]
    <2>1. v[i] = [q \in Ptr |->
                    IF q = NULL \/ i = 0 THEN << >> ELSE <<q>> \o v[i - 1][node[q].left]]
        BY <1>7
    <2> QED
        BY <2>1
<1> HIDE DEF IsRows
<1>9. /\ \A m \in Ptr : v[0][m] = << >>
      /\ \A i \in 0 .. C : v[i][NULL] = << >>
    <2>1. 0 \in 0 .. C
        BY <1>1
    <2>2. \A i \in 0 .. C : v[i][NULL] = << >>
        BY <1>1, <1>8
    <2>3. \A m \in Ptr : v[0][m] = << >>
        BY <1>8, <2>1
    <2> QED
        BY <2>2, <2>3
<1>10. ASSUME NEW i \in 1 .. C, NEW m \in Node PROVE v[i][m] = <<m>> \o v[i - 1][node[m].left]
    <2>1. i \in 0 .. C /\ i # 0 /\ m \in Ptr /\ m # NULL
        BY <1>1
    <2> QED
        BY <1>8, <2>1
<1>11. DownRows(v, C)
    BY <1>9, <1>10 DEF DownRows
<1> QED
    BY <1>7, <1>11

-----------------------------------------------------------------------------
(* What the traversals return *)

\* Subtrees are smaller than trees.
LEMMA Smaller ==
    ASSUME NEW T, IsFiniteSet(T), NEW U \in SUBSET T, NEW n \in T, n \notin U
    PROVE  /\ IsFiniteSet(U) /\ Cardinality(U) \in Nat /\ Cardinality(T) \in Nat
           /\ Cardinality(U) < Cardinality(T)
<1>1. /\ IsFiniteSet(U) /\ Cardinality(U) <= Cardinality(T)
      /\ Cardinality(U) = Cardinality(T) => U = T
    BY FS_Subset
<1>2. Cardinality(U) \in Nat /\ Cardinality(T) \in Nat
    BY <1>1, FS_CardinalityType
<1> QED
    BY <1>1, <1>2

LEMMA Sizes ==
    ASSUME NEW h, NEW r, NEW b, Tidy(h, r, b), IsFiniteSet(Node), NEW n \in b[r] \cup {NULL}
    PROVE  /\ IsFiniteSet(b[n]) /\ Cardinality(b[n]) \in Nat
           /\ Cardinality(b[n]) <= Cardinality(Node)
           /\ Cardinality(b[n]) = 0 => n = NULL
<1>1. b[n] \in SUBSET Node
    BY DEF Tidy, Ptr
<1>2. IsFiniteSet(b[n]) /\ Cardinality(b[n]) <= Cardinality(Node) /\ Cardinality(b[n]) \in Nat
    BY <1>1, FS_Subset, FS_CardinalityType
<1>3. Cardinality(b[n]) = 0 => b[n] = {}
    BY <1>2, FS_EmptySet
<1>4. n # NULL => n \in b[n]
    BY NodeFacts
<1> QED
    BY <1>2, <1>3, <1>4

LEMMA KidIsSmaller ==
    ASSUME NEW h, NEW r, NEW b, Tidy(h, r, b), IsFiniteSet(Node), NEW n \in b[r], NEW e \in Dir,
           NEW c, IsKid(h, n, e, c)
    PROVE  c \in b[r] \cup {NULL} /\ Cardinality(b[c]) < Cardinality(b[n])
<1>1. IsFiniteSet(b[n])
    BY Sizes
<1>2. n \in b[n] /\ b[c] \subseteq b[n] /\ n \notin b[c] /\ c \in b[r] \cup {NULL}
    BY NodeFacts, SideFacts
<1> QED
    BY <1>1, <1>2, Smaller

LEMMA Joined ==
    ASSUME NEW s \in Seq(Node), NEW m \in Node, NEW t \in Seq(Node), NEW u, u = s \o <<m>> \o t
    PROVE  /\ u \in Seq(Node) /\ Len(u) = Len(s) + 1 + Len(t)
           /\ Len(s) \in Nat /\ Len(t) \in Nat
           /\ \A i \in 1 .. Len(s) : u[i] = s[i]
           /\ u[Len(s) + 1] = m
           /\ \A i \in 1 .. Len(t) : u[Len(s) + 1 + i] = t[i]
<1>1. <<m>> \in Seq(Node) /\ Len(<<m>>) = 1 /\ <<m>>[1] = m
    OBVIOUS
<1>2. PICK v : v = s \o <<m>>
    OBVIOUS
<1>3. /\ v \in Seq(Node) /\ Len(v) = Len(s) + 1
      /\ \A i \in 1 .. Len(s) + 1 : v[i] = IF i <= Len(s) THEN s[i] ELSE <<m>>[i - Len(s)]
    BY <1>1, <1>2, ConcatProperties
<1>4. /\ u \in Seq(Node) /\ Len(u) = Len(v) + Len(t)
      /\ \A i \in 1 .. Len(v) + Len(t) : u[i] = IF i <= Len(v) THEN v[i] ELSE t[i - Len(v)]
    BY <1>2, <1>3, ConcatProperties
<1>5. Len(s) \in Nat /\ Len(t) \in Nat
    BY LenProperties
<1>6. \A i \in 1 .. Len(s) : u[i] = s[i]
    BY <1>3, <1>4, <1>5
<1>7. u[Len(s) + 1] = m
    BY <1>1, <1>3, <1>4, <1>5
<1>8. \A i \in 1 .. Len(t) : u[Len(s) + 1 + i] = t[i]
    BY <1>3, <1>4, <1>5
<1> QED
    BY <1>3, <1>4, <1>5, <1>6, <1>7, <1>8

\* s lists the nodes of T in the order of their keys.
Lists(h, s, T) ==
    /\ s \in Seq(Node)
    /\ \A i \in 1 .. Len(s) : s[i] \in T
    /\ \A x \in T : \E i \in 1 .. Len(s) : s[i] = x
    /\ \A i \in 1 .. Len(s) - 1 : h[s[i]].key < h[s[i + 1]].key

LEMMA JoinLists ==
    ASSUME NEW h, NEW s, NEW T, Lists(h, s, T), NEW t, NEW U, Lists(h, t, U), NEW m \in Node,
           \A x \in T : h[x].key < h[m].key, \A x \in U : h[m].key < h[x].key,
           NEW u, u = s \o <<m>> \o t
    PROVE  Lists(h, u, {m} \cup T \cup U)
<1>1. s \in Seq(Node) /\ t \in Seq(Node)
    BY DEF Lists
<1>2. PICK p \in Nat, q \in Nat : p = Len(s) /\ q = Len(t)
    BY <1>1, LenProperties
<1>3. /\ u \in Seq(Node) /\ Len(u) = p + 1 + q
      /\ \A i \in 1 .. p : u[i] = s[i]
      /\ u[p + 1] = m
      /\ \A i \in 1 .. q : u[p + 1 + i] = t[i]
    BY <1>1, <1>2, Joined
<1>4. \A i \in 1 .. p + 1 + q : i \in 1 .. p \/ i = p + 1 \/ \E j \in 1 .. q : i = p + 1 + j
    <2> TAKE i \in 1 .. p + 1 + q
    <2>1. CASE i <= p + 1
        BY <2>1
    <2>2. CASE i > p + 1
        <3>1. i - (p + 1) \in 1 .. q /\ i = p + 1 + (i - (p + 1))
            BY <2>2
        <3> QED
            BY <3>1
    <2> QED
        BY <2>1, <2>2
<1>5. ASSUME NEW i \in 1 .. Len(u) PROVE u[i] \in {m} \cup T \cup U
    <2>1. i \in 1 .. p \/ i = p + 1 \/ \E j \in 1 .. q : i = p + 1 + j
        BY <1>3, <1>4
    <2> QED
        BY <1>2, <1>3, <2>1 DEF Lists
<1>6. ASSUME NEW x \in {m} \cup T \cup U PROVE \E i \in 1 .. Len(u) : u[i] = x
    <2>1. CASE x = m
        BY <1>2, <1>3, <2>1
    <2>2. CASE x \in T
        <3>1. PICK i \in 1 .. p : s[i] = x
            BY <1>2, <2>2 DEF Lists
        <3> QED
            BY <1>2, <1>3, <3>1
    <2>3. CASE x \in U
        <3>1. PICK i \in 1 .. q : t[i] = x
            BY <1>2, <2>3 DEF Lists
        <3>2. p + 1 + i \in 1 .. Len(u) /\ u[p + 1 + i] = x
            BY <1>2, <1>3, <3>1
        <3> QED
            BY <3>2
    <2> QED
        BY <2>1, <2>2, <2>3
<1>7. ASSUME NEW i \in 1 .. Len(u) - 1 PROVE h[u[i]].key < h[u[i + 1]].key
    <2>1. CASE i < p
        <3>1. i \in 1 .. p - 1 /\ u[i] = s[i] /\ u[i + 1] = s[i + 1]
            BY <1>2, <1>3, <2>1
        <3> QED
            BY <1>2, <3>1 DEF Lists
    <2>2. CASE i = p
        <3>1. u[i] \in T /\ u[i + 1] = m
            BY <1>2, <1>3, <2>2 DEF Lists
        <3> QED
            BY <3>1
    <2>3. CASE i = p + 1
        <3>1. 1 \in 1 .. q /\ u[i] = m /\ u[i + 1] = t[1]
            BY <1>2, <1>3, <2>3
        <3>2. t[1] \in U
            BY <1>2, <3>1 DEF Lists
        <3> QED
            BY <3>1, <3>2
    <2>4. CASE i > p + 1
        <3>1. PICK j : j = i - (p + 1)
            OBVIOUS
        <3>2. j \in 1 .. q - 1 /\ i = p + 1 + j /\ i + 1 = p + 1 + (j + 1) /\ j + 1 \in 1 .. q
            BY <1>2, <1>3, <2>4, <3>1
        <3>3. u[p + 1 + j] = t[j] /\ u[p + 1 + (j + 1)] = t[j + 1]
            <4>1. j \in 1 .. q
                BY <3>2
            <4> QED
                BY <1>3, <3>2, <4>1
        <3>4. h[t[j]].key < h[t[j + 1]].key
            BY <1>2, <3>2 DEF Lists
        <3> QED
            BY <3>2, <3>3, <3>4
    <2> QED
        BY <1>2, <1>3, <2>1, <2>2, <2>3, <2>4
<1> QED
    BY <1>3, <1>5, <1>6, <1>7 DEF Lists

\* The listing in order of a tidy tree has all its nodes, in the order of the keys.
LEMMA OrderLists ==
    ASSUME NEW b, Tidy(node, root, b), IsFiniteSet(Node)
    PROVE  Lists(node, InOrder, b[root])
<1>1. PICK C : C = Cardinality(Node)
    OBVIOUS
<1>2. node \in Memory /\ root \in Ptr /\ C \in Nat /\ b[NULL] = {}
    BY <1>1, FS_CardinalityType DEF Tidy
<1>3. PICK w : OrderRows(w, C) /\ \A n \in Ptr : InOrderFrom(n) = w[C][n]
    BY <1>1, <1>2, InOrderRows
<1> DEFINE Good(i) == \A m \in b[root] \cup {NULL} :
                          Cardinality(b[m]) <= i => Lists(node, w[i][m], b[m])
           Bad == {i \in Nat : i <= C /\ ~Good(i)}
<1>4. ASSUME NEW i \in 0 .. C PROVE Lists(node, w[i][NULL], b[NULL])
    <2>1. w[i][NULL] = << >>
        BY <1>3 DEF OrderRows
    <2>2. << >> \in Seq(Node) /\ Len(<< >>) = 0
        OBVIOUS
    <2> QED
        BY <1>2, <2>1, <2>2 DEF Lists
<1>5. Good(0)
    <2> SUFFICES ASSUME NEW m \in b[root] \cup {NULL}, Cardinality(b[m]) <= 0
                 PROVE  Lists(node, w[0][m], b[m])
        OBVIOUS
    <2>1. m = NULL
        BY Sizes
    <2> QED
        BY <1>2, <1>4, <2>1
<1>6. ASSUME NEW i \in 1 .. C, Good(i - 1) PROVE Good(i)
    <2> SUFFICES ASSUME NEW m \in b[root] \cup {NULL}, Cardinality(b[m]) <= i
                 PROVE  Lists(node, w[i][m], b[m])
        OBVIOUS
    <2>1. CASE m = NULL
        BY <1>2, <1>4, <2>1
    <2>2. CASE m \in b[root]
        <3>1. PICK c, o : c = node[m].left /\ o = node[m].right
            OBVIOUS
        <3>2. /\ "left" \in Dir /\ Opp("left") = "right" /\ "right" \in Dir
              /\ IsKid(node, m, "left", c) /\ IsKid(node, m, "right", o)
            BY <3>1 DEF IsKid, Kid, Dir, Opp
        <3>3. /\ c \in b[root] \cup {NULL} /\ Cardinality(b[c]) < Cardinality(b[m])
              /\ o \in b[root] \cup {NULL} /\ Cardinality(b[o]) < Cardinality(b[m])
            BY <2>2, <3>2, KidIsSmaller
        <3>4. /\ Cardinality(b[c]) \in Nat /\ Cardinality(b[o]) \in Nat
              /\ Cardinality(b[m]) \in Nat
            BY <3>3, Sizes
        <3>5. Cardinality(b[c]) <= i - 1 /\ Cardinality(b[o]) <= i - 1
            BY <1>2, <3>3, <3>4
        <3>6. Lists(node, w[i - 1][c], b[c]) /\ Lists(node, w[i - 1][o], b[o])
            BY <1>6, <3>3, <3>5
        <3>7. m \in Node /\ b[m] = {m} \cup b[c] \cup b[o]
            BY <2>2, <3>2, NodeFacts, Halves
        <3>8. /\ \A x \in b[c] : node[x].key < node[m].key
              /\ \A x \in b[o] : node[m].key < node[x].key
            BY <2>2, <3>2, SideFacts DEF On
        <3>9. w[i][m] = w[i - 1][c] \o <<m>> \o w[i - 1][o]
            BY <1>3, <3>1, <3>7 DEF OrderRows
        <3>10. PICK u : u = w[i][m]
            OBVIOUS
        <3>11. PICK s, t : s = w[i - 1][c] /\ t = w[i - 1][o]
            OBVIOUS
        <3>12. Lists(node, s, b[c]) /\ Lists(node, t, b[o]) /\ u = s \o <<m>> \o t
            BY <3>6, <3>9, <3>10, <3>11
        <3>13. Lists(node, u, {m} \cup b[c] \cup b[o])
            BY <3>7, <3>8, <3>12, JoinLists
        <3> QED
            BY <3>7, <3>10, <3>13
    <2> QED
        BY <2>1, <2>2
<1>7. Good(C)
    <2> HIDE DEF Good
    <2> SUFFICES ASSUME Bad # {} PROVE FALSE
        BY <1>2
    <2>1. PICK i \in Bad : \A j \in Bad : ~(j < i)
        BY Least
    <2>2. i # 0
        BY <1>5
    <2>3. i \in 1 .. C /\ i - 1 \in Nat /\ Good(i - 1)
        BY <1>2, <2>1, <2>2
    <2> QED
        BY <1>6, <2>1, <2>3
<1>8. root \in b[root] \cup {NULL} /\ Cardinality(b[root]) <= C
    <2>1. root \in b[root] \cup {NULL}
        BY DEF Tidy
    <2> QED
        BY <1>1, <2>1, Sizes
<1>9. InOrder = w[C][root]
    BY <1>2, <1>3 DEF InOrder
<1> QED
    BY <1>7, <1>8, <1>9

\* So its nodes are the tree.
LEMMA TreeIsBelow ==
    ASSUME NEW b, Tidy(node, root, b), IsFiniteSet(Node)
    PROVE  Tree = b[root]
<1>1. Lists(node, InOrder, b[root])
    BY OrderLists
<1>2. DOMAIN InOrder = 1 .. Len(InOrder)
    BY <1>1, LenProperties DEF Lists
<1> QED
    BY <1>1, <1>2 DEF Tree, Lists

\* s begins with n and goes on as t does.
LEMMA Prepended ==
    ASSUME NEW n \in Node, NEW t \in Seq(Node), NEW s, s = <<n>> \o t
    PROVE  /\ s \in Seq(Node) /\ Len(t) \in Nat /\ Len(s) = Len(t) + 1 /\ s[1] = n
           /\ \A i \in 1 .. Len(t) : s[i + 1] = t[i]
<1>1. <<n>> \in Seq(Node) /\ Len(<<n>>) = 1 /\ <<n>>[1] = n
    OBVIOUS
<1>2. /\ s \in Seq(Node) /\ Len(s) = 1 + Len(t)
      /\ \A i \in 1 .. 1 + Len(t) : s[i] = IF i <= 1 THEN <<n>>[i] ELSE t[i - 1]
    BY <1>1, ConcatProperties
<1>3. Len(t) \in Nat
    BY LenProperties
<1> QED
    BY <1>1, <1>2, <1>3

\* The search for k that begins at n ends at e: e has the key, or no child on the side
\* where k belongs; no other node below n has the key.
Ends(b, n, k, e) ==
    /\ e \in b[n]
    /\ node[e].key = k \/ IsKid(node, e, Side(e, k), NULL)
    /\ \A m \in b[n] \ {e} : node[m].key # k
    /\ Fits(node, n, b, e, k)

\* s is the way there: the last step goes from up to e.
Leads(b, n, k, s) ==
    /\ s \in Seq(Node) /\ Len(s) >= 1 /\ s[1] = n
    /\ Ends(b, n, k, s[Len(s)])
    /\ Len(s) # 1 => LET up == s[Len(s) - 1] IN
                     up \in b[n] /\ IsKid(node, up, Side(up, k), s[Len(s)])

LEMMA SideIs ==
    ASSUME NEW n, NEW k \in Int, node[n].key \in Int
    PROVE  /\ Side(n, k) \in Dir
           /\ node[n].key # k => On(Side(n, k), k, node[n].key)
    BY DEF Side, Dir, On

LEMMA LeadsNowhere ==
    ASSUME NEW b, Tidy(node, root, b), NEW k \in Int, NEW n \in b[root],
           node[n].key = k \/ IsKid(node, n, Side(n, k), NULL)
    PROVE  Leads(b, n, k, <<n>>)
<1>1. n \in Node /\ n \in b[n] /\ b[n] \subseteq b[root] /\ node[n].key \in Int
    BY NodeFacts
<1>2. ASSUME NEW m \in b[n], NEW d \in Dir, NEW c, IsKid(node, m, d, c), n \in b[c] PROVE FALSE
    <2>1. m \notin b[c] /\ c \in b[root]
        BY <1>1, <1>2, SideFacts
    <2>2. b[n] \subseteq b[c]
        BY <1>2, <2>1, NodeFacts
    <2> QED
        BY <1>2, <2>1, <2>2
<1>3. ASSUME NEW m \in b[n] \ {n} PROVE node[m].key # k
    <2>1. PICK e, o, c : e = Side(n, k) /\ IsKid(node, n, e, c) /\ IsKid(node, n, Opp(e), o)
        BY DEF IsKid
    <2>2. e \in Dir /\ Opp(e) \in Dir /\ (node[n].key # k => On(e, k, node[n].key))
        BY <1>1, <2>1, SideIs DEF Opp, Dir
    <2>3. b[n] = {n} \cup b[c] \cup b[o] /\ b[NULL] = {}
        BY <2>1, <2>2, Halves DEF Tidy
    <2>4. /\ m \in b[c] => node[m].key # node[n].key
          /\ m \in b[o] => On(Opp(e), node[m].key, node[n].key) /\ node[m].key # node[n].key
        BY <2>1, <2>2, SideFacts
    <2>5. CASE node[n].key = k
        BY <2>3, <2>4, <2>5
    <2>6. CASE node[n].key # k
        <3>1. c = NULL
            BY <2>1, <2>6 DEF IsKid
        <3> QED
            BY <1>1, <2>2, <2>3, <2>4, <2>6, <3>1 DEF On, Opp, Dir
    <2> QED
        BY <2>5, <2>6
<1>4. Ends(b, n, k, n)
    BY <1>1, <1>2, <1>3 DEF Ends, Fits
<1>5. <<n>> \in Seq(Node) /\ Len(<<n>>) = 1 /\ <<n>>[1] = n
    BY <1>1
<1> QED
    BY <1>4, <1>5 DEF Leads

LEMMA LeadsOn ==
    ASSUME NEW b, Tidy(node, root, b), NEW k \in Int, NEW n \in b[root], node[n].key # k,
           NEW c \in b[root], IsKid(node, n, Side(n, k), c), NEW t, Leads(b, c, k, t)
    PROVE  Leads(b, n, k, <<n>> \o t)
<1>1. PICK s : s = <<n>> \o t
    OBVIOUS
<1>2. PICK e, o, side : e = t[Len(t)] /\ side = Side(n, k) /\ IsKid(node, n, Opp(side), o)
    BY DEF IsKid
<1>3. /\ n \in Node /\ n \in b[n] /\ b[n] \subseteq b[root] /\ node[n].key \in Int
      /\ b[root] \subseteq Node
    BY NodeFacts
<1>4. side \in Dir /\ Opp(side) \in Dir /\ On(side, k, node[n].key) /\ Dir = {side, Opp(side)}
    BY <1>2, <1>3, SideIs DEF Opp, Dir
<1>5. b[n] = {n} \cup b[c] \cup b[o] /\ b[c] \cap b[o] = {}
    BY <1>2, <1>4, Halves
<1>6. e \in b[c] /\ Ends(b, c, k, e)
    BY <1>2 DEF Leads, Ends
<1>7. ASSUME NEW m \in b[n], NEW d \in Dir, NEW x, IsKid(node, m, d, x), e \in b[x]
      PROVE  On(d, k, node[m].key)
    <2>1. CASE m = n
        <3>1. d # Opp(side)
            BY <1>2, <1>5, <1>6, <1>7, <2>1 DEF IsKid
        <3> QED
            BY <1>4, <2>1, <3>1
    <2>2. CASE m \in b[c]
        BY <1>6, <1>7, <2>2 DEF Ends, Fits
    <2>3. CASE m \in b[o]
        <3>1. m \in b[root] /\ b[x] \subseteq b[m]
            BY <1>3, <1>7, SideFacts
        <3>2. o \in b[root]
            BY <1>2, <1>4, <2>3, SideFacts
        <3>3. b[m] \subseteq b[o]
            BY <2>3, <3>2, NodeFacts
        <3> QED
            BY <1>5, <1>6, <1>7, <3>1, <3>3
    <2> QED
        BY <1>5, <2>1, <2>2, <2>3
<1>8. ASSUME NEW m \in b[n] \ {e} PROVE node[m].key # k
    <2>1. CASE m \in b[o]
        <3>1. On(Opp(side), node[m].key, node[n].key)
            BY <1>2, <1>4, <2>1, SideFacts
        <3> QED
            BY <1>3, <1>4, <3>1 DEF On, Opp, Dir
    <2>2. CASE m \in b[c]
        BY <1>6, <1>8, <2>2 DEF Ends
    <2> QED
        BY <1>5, <2>1, <2>2
<1>9. Ends(b, n, k, e)
    BY <1>5, <1>6, <1>7, <1>8 DEF Ends, Fits
<1>10. PICK l \in Nat : l = Len(t) /\ t \in Seq(Node) /\ l >= 1 /\ t[1] = c
    BY LenProperties DEF Leads
<1>11. /\ s \in Seq(Node) /\ Len(s) = l + 1 /\ s[1] = n
       /\ \A i \in 1 .. l : s[i + 1] = t[i]
    BY <1>1, <1>3, <1>10, Prepended
<1>12. s[l + 1] = e
    BY <1>2, <1>10, <1>11
<1>13. s[l] \in b[n] /\ IsKid(node, s[l], Side(s[l], k), e)
    <2>1. CASE l = 1
        BY <1>2, <1>3, <1>10, <1>11, <2>1
    <2>2. CASE l # 1
        <3>1. t[l - 1] \in b[c] /\ IsKid(node, t[l - 1], Side(t[l - 1], k), e)
            BY <1>2, <1>10, <2>2 DEF Leads
        <3>2. s[l] = t[l - 1]
            <4>1. l - 1 \in 1 .. l /\ (l - 1) + 1 = l
                BY <1>10, <2>2
            <4> QED
                BY <1>11, <4>1
        <3> QED
            BY <1>5, <3>1, <3>2
    <2> QED
        BY <2>1, <2>2
<1>14. Len(s) >= 1 /\ Len(s) - 1 = l
    BY <1>11
<1> QED
    BY <1>1, <1>9, <1>11, <1>12, <1>13, <1>14 DEF Leads

\* The search from the root ends as a search should.
LEMMA PathLeads ==
    ASSUME NEW b, Tidy(node, root, b), IsFiniteSet(Node), NEW k \in Int, root # NULL
    PROVE  Leads(b, root, k, PathTo(k))
<1>1. PICK C : C = Cardinality(Node)
    OBVIOUS
<1>2. node \in Memory /\ C \in Nat /\ root \in b[root]
    BY <1>1, FS_CardinalityType DEF Tidy
<1>3. PICK w : PathRows(w, C, k) /\ PathTo(k) = w[C][root]
    BY <1>1, <1>2, PathToRows
<1> DEFINE Good(i) == \A n \in b[root] : Cardinality(b[n]) <= i => Leads(b, n, k, w[i][n])
           Bad == {i \in Nat : i <= C /\ ~Good(i)}
<1>4. \A n \in b[root] : Cardinality(b[n]) \in Nat /\ Cardinality(b[n]) <= C /\ Cardinality(b[n]) # 0
    <2> TAKE n \in b[root]
    <2>1. n # NULL
        BY NodeFacts, SeqTreeAssumption
    <2> QED
        BY <1>1, <2>1, Sizes
<1>5. Good(0)
    BY <1>4
<1>6. ASSUME NEW i \in 1 .. C, Good(i - 1) PROVE Good(i)
    <2> SUFFICES ASSUME NEW n \in b[root], Cardinality(b[n]) <= i PROVE Leads(b, n, k, w[i][n])
        OBVIOUS
    <2>1. n \in Node /\ node[n].key \in Int
        BY NodeFacts
    <2>2. PICK c : IsKid(node, n, Side(n, k), c) /\ c = node[n][Side(n, k)]
        <3>1. node[n]["left"] = node[n].left /\ node[n]["right"] = node[n].right
            OBVIOUS
        <3> QED
            BY <3>1 DEF IsKid, Kid, Side
    <2>3. w[i][n] = IF node[n].key = k THEN <<n>> ELSE <<n>> \o w[i - 1][c]
        BY <1>3, <2>1, <2>2 DEF PathRows
    <2>4. CASE node[n].key = k
        BY <2>3, <2>4, LeadsNowhere
    <2>5. CASE node[n].key # k
        <3>1. c \in b[root] \cup {NULL} /\ Cardinality(b[c]) < Cardinality(b[n])
            BY <2>1, <2>2, SideIs, KidIsSmaller
        <3>2. CASE c = NULL
            <4>1. i - 1 \in 0 .. C
                BY <1>2
            <4>2. w[i - 1][c] = << >>
                BY <1>3, <3>2, <4>1 DEF PathRows
            <4>3. <<n>> \o << >> = <<n>>
                BY <2>1
            <4>4. w[i][n] = <<n>>
                BY <2>3, <2>5, <4>2, <4>3
            <4> QED
                BY <2>2, <3>2, <4>4, LeadsNowhere
        <3>3. CASE c \in b[root]
            <4>1. Cardinality(b[c]) <= i - 1
                BY <1>2, <1>4, <3>1, <3>3
            <4>2. Leads(b, c, k, w[i - 1][c])
                BY <1>6, <3>3, <4>1
            <4> QED
                BY <2>2, <2>3, <2>5, <3>3, <4>2, LeadsOn
        <3> QED
            BY <3>1, <3>2, <3>3
    <2> QED
        BY <2>4, <2>5
<1>7. Good(C)
    <2> HIDE DEF Good
    <2> SUFFICES ASSUME Bad # {} PROVE FALSE
        BY <1>2
    <2>1. PICK i \in Bad : \A j \in Bad : ~(j < i)
        BY Least
    <2>2. i # 0
        BY <1>5
    <2>3. i \in 1 .. C /\ i - 1 \in Nat /\ Good(i - 1)
        BY <1>2, <2>1, <2>2
    <2> QED
        BY <1>6, <2>1, <2>3
<1> QED
    BY <1>2, <1>3, <1>4, <1>7

\* The way down the left children of n ends at the node with the least key.
Descends(b, n, s) ==
    /\ s \in Seq(Node) /\ Len(s) >= 1 /\ s[1] = n
    /\ LET e == s[Len(s)] IN
       /\ e \in b[n] /\ IsKid(node, e, "left", NULL)
       /\ \A m \in b[n] \ {e} : node[e].key < node[m].key
       /\ Len(s) # 1 => s[Len(s) - 1] \in b[n] /\ IsKid(node, s[Len(s) - 1], "left", e)

LEMMA DescendsOn ==
    ASSUME NEW b, Tidy(node, root, b), NEW n \in b[root], NEW c, IsKid(node, n, "left", c),
           NEW t, IF c = NULL THEN t = << >> ELSE c \in b[root] /\ Descends(b, c, t)
    PROVE  Descends(b, n, <<n>> \o t)
<1>1. PICK s, o : s = <<n>> \o t /\ IsKid(node, n, "right", o)
    BY DEF IsKid
<1>2. n \in Node /\ n \in b[n] /\ b[n] \subseteq b[root] /\ \A m \in b[root] : node[m].key \in Int
    BY NodeFacts
<1>3. "left" \in Dir /\ "right" \in Dir /\ Opp("left") = "right"
    BY DEF Dir, Opp
<1>4. b[n] = {n} \cup b[c] \cup b[o] /\ b[c] \cap b[o] = {} /\ (c = NULL => b[c] = {})
    BY <1>1, <1>3, Halves DEF Tidy
<1>5. /\ \A m \in b[c] : node[m].key < node[n].key
      /\ \A m \in b[o] : node[n].key < node[m].key
    BY <1>1, <1>3, SideFacts DEF On
<1>6. CASE c = NULL
    <2>1. s = <<n>> /\ Len(s) = 1 /\ s[1] = n /\ s \in Seq(Node)
        BY <1>1, <1>2, <1>6
    <2>2. \A m \in b[n] \ {n} : node[n].key < node[m].key
        BY <1>4, <1>5, <1>6
    <2> QED
        BY <1>1, <1>2, <1>6, <2>1, <2>2 DEF Descends
<1>7. CASE c # NULL
    <2>1. PICK l, e : l \in Nat /\ l = Len(t) /\ t \in Seq(Node) /\ l >= 1 /\ t[1] = c /\ e = t[l]
        BY <1>7, LenProperties DEF Descends
    <2>2. /\ e \in b[c] /\ IsKid(node, e, "left", NULL)
          /\ \A m \in b[c] \ {e} : node[e].key < node[m].key
          /\ l # 1 => t[l - 1] \in b[c] /\ IsKid(node, t[l - 1], "left", e)
        BY <1>7, <2>1 DEF Descends
    <2>3. /\ s \in Seq(Node) /\ Len(s) = l + 1 /\ s[1] = n
          /\ \A i \in 1 .. l : s[i + 1] = t[i]
        BY <1>1, <1>2, <2>1, Prepended
    <2>4. s[l + 1] = e
        BY <2>1, <2>3
    <2>5. s[l] \in b[n] /\ IsKid(node, s[l], "left", e)
        <3>1. CASE l = 1
            BY <1>2, <2>1, <2>3, <3>1
        <3>2. CASE l # 1
            <4>1. l - 1 \in 1 .. l /\ (l - 1) + 1 = l
                BY <2>1, <3>2
            <4>2. s[l] = t[l - 1]
                BY <2>3, <4>1
            <4> QED
                BY <1>4, <2>2, <3>2, <4>2
        <3> QED
            BY <3>1, <3>2
    <2>6. \A m \in b[n] \ {e} : node[e].key < node[m].key
        <3>1. e \in b[root] /\ node[e].key < node[n].key
            BY <1>2, <1>4, <1>5, <2>2
        <3>2. \A m \in b[o] : node[e].key < node[m].key
            <4> TAKE m \in b[o]
            <4>1. node[n].key < node[m].key /\ m \in b[root]
                BY <1>2, <1>4, <1>5
            <4> QED
                BY <1>2, <3>1, <4>1
        <3> QED
            BY <1>4, <2>2, <3>1, <3>2
    <2>7. Len(s) >= 1 /\ Len(s) - 1 = l
        BY <2>1, <2>3
    <2> QED
        BY <1>1, <1>4, <2>2, <2>3, <2>4, <2>5, <2>6, <2>7 DEF Descends
<1> QED
    BY <1>6, <1>7

LEMMA LeftmostDescends ==
    ASSUME NEW b, Tidy(node, root, b), IsFiniteSet(Node), NEW x \in b[root]
    PROVE  Descends(b, x, LeftmostPath(x))
<1>1. PICK C : C = Cardinality(Node)
    OBVIOUS
<1>2. node \in Memory /\ C \in Nat /\ x \in Node /\ x \in Ptr
    BY <1>1, FS_CardinalityType, NodeFacts DEF Tidy, Ptr
<1>3. PICK w : DownRows(w, C) /\ \A n \in Ptr : LeftmostPath(n) = w[C][n]
    BY <1>1, <1>2, LeftmostRows
<1> DEFINE Good(i) == \A n \in b[root] : Cardinality(b[n]) <= i => Descends(b, n, w[i][n])
           Bad == {i \in Nat : i <= C /\ ~Good(i)}
<1>4. \A n \in b[root] : Cardinality(b[n]) \in Nat /\ Cardinality(b[n]) <= C /\ Cardinality(b[n]) # 0
    <2> TAKE n \in b[root]
    <2>1. n # NULL
        BY NodeFacts, SeqTreeAssumption
    <2> QED
        BY <1>1, <2>1, Sizes
<1>5. Good(0)
    BY <1>4
<1>6. ASSUME NEW i \in 1 .. C, Good(i - 1) PROVE Good(i)
    <2> SUFFICES ASSUME NEW n \in b[root], Cardinality(b[n]) <= i PROVE Descends(b, n, w[i][n])
        OBVIOUS
    <2>1. n \in Node
        BY NodeFacts
    <2>2. PICK c : IsKid(node, n, "left", c) /\ c = node[n].left
        BY DEF IsKid, Kid
    <2>3. w[i][n] = <<n>> \o w[i - 1][c]
        BY <1>3, <2>1, <2>2 DEF DownRows
    <2>4. c \in b[root] \cup {NULL} /\ Cardinality(b[c]) < Cardinality(b[n])
        BY <2>2, KidIsSmaller DEF Dir
    <2>5. CASE c = NULL
        <3>1. i - 1 \in 0 .. C
            BY <1>2
        <3>2. w[i - 1][c] = << >>
            BY <1>3, <2>5, <3>1 DEF DownRows
        <3> QED
            BY <2>2, <2>3, <2>5, <3>2, DescendsOn
    <2>6. CASE c \in b[root]
        <3>1. Cardinality(b[c]) <= i - 1
            BY <1>2, <1>4, <2>4, <2>6
        <3>2. Descends(b, c, w[i - 1][c])
            BY <1>6, <2>6, <3>1
        <3>3. c # NULL
            BY <2>6, NodeFacts, SeqTreeAssumption
        <3> QED
            BY <2>2, <2>3, <2>6, <3>2, <3>3, DescendsOn
    <2> QED
        BY <2>4, <2>5, <2>6
<1>7. Good(C)
    <2> HIDE DEF Good
    <2> SUFFICES ASSUME Bad # {} PROVE FALSE
        BY <1>2
    <2>1. PICK i \in Bad : \A j \in Bad : ~(j < i)
        BY Least
    <2>2. i # 0
        BY <1>5
    <2>3. i \in 1 .. C /\ i - 1 \in Nat /\ Good(i - 1)
        BY <1>2, <2>1, <2>2
    <2> QED
        BY <1>6, <2>1, <2>3
<1> QED
    BY <1>2, <1>3, <1>4, <1>7

-----------------------------------------------------------------------------
(* Assignments to fields *)

WithKid(h, p, e, c) == [h EXCEPT ![p][e] = c]
WithKey(h, p, k)    == [h EXCEPT ![p].key = k]

LEMMA SetKid ==
    ASSUME NEW h \in Memory, NEW p \in Node, NEW e \in Dir, NEW c \in Ptr,
           NEW h2, h2 = WithKid(h, p, e, c)
    PROVE  h2 \in Memory /\ SameKeys(h, h2, Node) /\ Rewired(h, h2, Node, p, e, c)
<1>1. CASE e = "left"
    <2>1. h2 = [h EXCEPT ![p].left = c]
        BY <1>1 DEF WithKid
    <2> QED
        BY <1>1, <2>1 DEF Memory, IsKid, Kid, Dir, SameKeys, Rewired
<1>2. CASE e = "right"
    <2>1. h2 = [h EXCEPT ![p].right = c]
        BY <1>2 DEF WithKid
    <2> QED
        BY <1>2, <2>1 DEF Memory, IsKid, Kid, Dir, SameKeys, Rewired
<1> QED
    BY <1>1, <1>2 DEF Dir

LEMMA SetKey ==
    ASSUME NEW h \in Memory, NEW p \in Node, NEW k \in Key, NEW h2, h2 = WithKey(h, p, k)
    PROVE  /\ h2 \in Memory /\ h2[p].key = k
           /\ SameKeys(h, h2, Node \ {p}) /\ SameKids(h, h2, Node)
    BY DEF WithKey, Memory, IsKid, Kid, Dir, SameKeys, SameKids

LEMMA SetNode ==
    ASSUME node \in Memory, NEW n \in Node, NEW k \in Key, NEW h2, h2 = NewNode(n, k)
    PROVE  /\ h2 \in Memory /\ h2[n].key = k /\ \A d \in Dir : IsKid(h2, n, d, NULL)
           /\ SameKeys(node, h2, Node \ {n}) /\ SameKids(node, h2, Node \ {n})
    BY DEF NewNode, Memory, IsKid, Kid, Dir, Ptr, SameKeys, SameKids

-----------------------------------------------------------------------------
(* insert *)

\* The keys of the nodes of T in memory h.
Keys(h, T) == {h[n].key : n \in T}

\* The first node of a tree.
LEMMA FirstNode ==
    ASSUME NEW b, Tidy(node, NULL, b), NEW n \in Node, NEW k \in Key, NEW h2, h2 = NewNode(n, k)
    PROVE  \E b2 : Tidy(h2, n, b2) /\ b2[n] = {n}
<1> DEFINE b2 == [q \in Ptr |-> IF q = n THEN {n} ELSE {}]
<1>1. /\ n \in Ptr /\ NULL \in Ptr /\ n # NULL
      /\ b2 \in [Ptr -> SUBSET Node] /\ b2[NULL] = {} /\ b2[n] = {n}
    BY SeqTreeAssumption DEF Ptr
<1> HIDE DEF b2
<1>2. h2 \in Memory /\ h2[n].key \in Key /\ \A d \in Dir : IsKid(h2, n, d, NULL)
    BY SetNode DEF Tidy
<1>3. "left" \in Dir /\ Opp("left") \in Dir
    BY DEF Dir, Opp
<1>4. Local(h2, b2, n, "left", NULL, NULL)
    BY <1>1, <1>2, <1>3 DEF Local
<1>5. Nested(n, b2)
    BY <1>1 DEF Nested
<1>6. \A m \in b2[n] : h2[m].key \in Key /\ \E e, c, o : Local(h2, b2, m, e, c, o)
    BY <1>1, <1>2, <1>4
<1>7. Tidy(h2, n, b2)
    BY <1>1, <1>2, <1>5, <1>6, Assemble
<1> QED
    BY <1>1, <1>7

\* A node below another.
LEMMA AnotherNode ==
    ASSUME NEW b, Tidy(node, root, b), NEW k \in Key, NEW leaf, Ends(b, root, k, leaf),
           node[leaf].key # k, NEW n \in Node \ b[root], NEW e, e = Side(leaf, k),
           NEW h2, h2 = WithKid(NewNode(n, k), leaf, e, n)
    PROVE  \E b2 : Tidy(h2, root, b2) /\ Keys(h2, b2[root]) = Keys(node, b[root]) \cup {k}
<1>1. leaf \in b[root] /\ IsKid(node, leaf, e, NULL)
    BY DEF Ends
<1>2. /\ leaf \in Node /\ node[leaf].key \in Int /\ k \in Int /\ leaf # n
      /\ b[root] \subseteq Node /\ node \in Memory /\ n \in Ptr
    BY <1>1, NodeFacts, KeysAreNumbers DEF Tidy, Ptr
<1>3. e \in Dir /\ On(e, k, node[leaf].key)
    BY <1>2, SideIs
<1>4. PICK h1 : h1 = NewNode(n, k)
    OBVIOUS
<1>5. /\ h1 \in Memory /\ h1[n].key = k /\ \A d \in Dir : IsKid(h1, n, d, NULL)
      /\ SameKeys(node, h1, Node \ {n}) /\ SameKids(node, h1, Node \ {n})
    BY <1>2, <1>4, SetNode
<1>6. h2 = WithKid(h1, leaf, e, n)
    BY <1>4
<1>7. h2 \in Memory /\ SameKeys(h1, h2, Node) /\ Rewired(h1, h2, Node, leaf, e, n)
    BY <1>2, <1>3, <1>5, <1>6, SetKid
<1>8. h2[n].key = k /\ SameKeys(node, h2, b[root])
    BY <1>2, <1>5, <1>7 DEF SameKeys
<1>9. \A d \in Dir : IsKid(h2, n, d, NULL)
    BY <1>2, <1>5, <1>7 DEF Rewired
<1>10. Rewired(node, h2, b[root], leaf, e, n)
    BY <1>2, <1>5, <1>7 DEF Rewired, SameKids
<1>11. Fits(node, root, b, leaf, k)
    BY DEF Ends
<1>12. PICK b2 : Tidy(h2, root, b2) /\ b2[root] = b[root] \cup {n}
    <2>1. leaf \in b[root] /\ n \in Node \ b[root] /\ h2 \in Memory
        BY <1>1, <1>7
    <2> QED
        BY <1>1, <1>3, <1>8, <1>9, <1>10, <1>11, <2>1, HangUp
<1>13. Keys(h2, b2[root]) = Keys(node, b[root]) \cup {k}
    BY <1>8, <1>12 DEF Keys, SameKeys
<1> QED
    BY <1>12, <1>13

\* What it takes for a search to find its key.
LEMMA HasMeans ==
    ASSUME NEW b, Tidy(node, root, b), IsFiniteSet(Node), NEW k \in Key
    PROVE  /\ Has(k) <=> k \in Keys(node, b[root])
           /\ root # NULL => Leads(b, root, k, PathTo(k))
<1>1. root # NULL => Leads(b, root, k, PathTo(k))
    BY KeysAreNumbers, PathLeads
<1>2. CASE root = NULL
    BY <1>2 DEF Has, Keys, Tidy
<1>3. CASE root # NULL
    <2>1. PICK e : e = EndOf(PathTo(k)) /\ Ends(b, root, k, e)
        BY <1>1, <1>3 DEF Leads, EndOf
    <2>2. Has(k) <=> node[e].key = k
        BY <1>3, <2>1 DEF Has
    <2> QED
        BY <1>1, <2>1, <2>2 DEF Ends, Keys
<1> QED
    BY <1>1, <1>2, <1>3

\* insert(key) leaves a search tree with one key more, at most.
LEMMA InsertKeeps ==
    ASSUME NEW b, Tidy(node, root, b), IsFiniteSet(Node), NEW k \in Key, Insert(k)
    PROVE  \E b2 : /\ Tidy(node', root', b2)
                   /\ Keys(node', b2[root']) = Keys(node, b[root]) \cup {k}
<1>1. CASE Has(k)
    <2>1. node' = node /\ root' = root
        BY <1>1 DEF Insert
    <2>2. k \in Keys(node, b[root])
        BY <1>1, HasMeans
    <2>3. Keys(node, b[root]) \cup {k} = Keys(node, b[root])
        BY <2>2
    <2> QED
        BY <2>1, <2>3
<1>2. CASE ~Has(k)
    <2>1. PICK n, leaf : n = (CHOOSE m \in Node \ Tree : TRUE) /\ leaf = EndOf(PathTo(k))
        OBVIOUS
    <2>2. Node \ Tree # {}
        BY <1>2 DEF Insert
    <2>3. n \in Node \ b[root]
        BY <2>1, <2>2, TreeIsBelow
    <2>4. CASE root = NULL
        <3>1. root' = n /\ node' = NewNode(n, k)
            BY <1>2, <2>1, <2>4 DEF Insert
        <3>2. PICK b2 : Tidy(node', n, b2) /\ b2[n] = {n}
            BY <2>3, <2>4, <3>1, FirstNode
        <3>3. b[root] = {}
            BY <2>4 DEF Tidy
        <3>4. node'[n].key = k
            BY <2>3, <3>1, SetNode DEF Tidy
        <3>5. Keys(node', b2[n]) = Keys(node, b[root]) \cup {k}
            BY <3>2, <3>3, <3>4 DEF Keys
        <3> QED
            BY <3>1, <3>2, <3>5
    <2>5. CASE root # NULL
        <3>1. PICK e : e = Side(leaf, k)
            OBVIOUS
        <3>2. root' = root /\ node' = WithKid(NewNode(n, k), leaf, e, n)
            BY <1>2, <2>1, <2>5, <3>1 DEF Insert, WithKid
        <3>3. Ends(b, root, k, leaf)
            BY <2>1, <2>5, HasMeans DEF Leads, EndOf
        <3>4. node[leaf].key # k
            BY <1>2, <2>1, <2>5 DEF Has
        <3>5. PICK h2 : h2 = node'
            OBVIOUS
        <3>6. \E b2 : Tidy(h2, root, b2) /\ Keys(h2, b2[root]) = Keys(node, b[root]) \cup {k}
            BY <2>3, <3>1, <3>2, <3>3, <3>4, <3>5, AnotherNode
        <3> QED
            BY <3>2, <3>5, <3>6
    <2> QED
        BY <2>4, <2>5
<1> QED
    BY <1>1, <1>2

-----------------------------------------------------------------------------
(* remove *)

LEMMA KidIsSame ==
    ASSUME NEW h \in Memory, NEW p \in Node, NEW e \in Dir, NEW c, IsKid(h, p, e, c)
    PROVE  WithKid(h, p, e, c) = h
<1>1. c = h[p][e]
    BY DEF IsKid, Kid, Dir
<1> QED
    BY <1>1 DEF WithKid, Memory, Dir

\* No other node of the tree has the key of leaf.
Holds(b, leaf, k) ==
    /\ leaf \in b[root] /\ node[leaf].key = k
    /\ \A m \in b[root] \ {leaf} : node[m].key # k

\* The children of leaf are c, or none, on side f, and none on the other.
OnlyKid(leaf, f, c) == f \in Dir /\ IsKid(node, leaf, f, c) /\ IsKid(node, leaf, Opp(f), NULL)

\* h2 is the same tree without key k.
Without(h2, b, k) ==
    \E b2 : Tidy(h2, root, b2) /\ Keys(h2, b2[root]) = Keys(node, b[root]) \ {k}

\* The memory h, where p has c on side e.
IsWithKid(h2, h, p, e, c) == h2 = WithKid(h, p, e, c)

\* A node with at most one child is replaced by it.
LEMMA OneChild ==
    ASSUME NEW b, Tidy(node, root, b), NEW up \in b[root], NEW e \in Dir,
           NEW leaf \in b[root], IsKid(node, up, e, leaf),
           NEW f, NEW c, OnlyKid(leaf, f, c),
           NEW k, Holds(b, leaf, k), NEW h2, IsWithKid(h2, node, up, e, c)
    PROVE  Without(h2, b, k)
<1>1. up \in Node /\ c \in Ptr /\ b[root] \subseteq Node /\ node \in Memory /\ root \in Ptr
    BY NodeFacts, SideFacts DEF Tidy, OnlyKid
<1>2. h2 \in Memory /\ SameKeys(node, h2, b[root]) /\ Rewired(node, h2, b[root], up, e, c)
    <2>1. h2 \in Memory /\ SameKeys(node, h2, Node) /\ Rewired(node, h2, Node, up, e, c)
        BY <1>1, SetKid DEF IsWithKid
    <2> QED
        BY <1>1, <2>1 DEF SameKeys, Rewired
<1>3. PICK b2 : Tidy(h2, root, b2) /\ \A q \in Ptr : b2[q] = b[q] \ {leaf}
    BY <1>2, TakeOut DEF OnlyKid
<1>4. b2[root] = b[root] \ {leaf}
    BY <1>1, <1>3
<1>5. Keys(h2, b2[root]) = Keys(node, b[root]) \ {k}
    BY <1>2, <1>4 DEF Holds, Keys, SameKeys
<1> QED
    BY <1>3, <1>5 DEF Without

\* child is the successor of leaf, on side e of p.
Successor(b, leaf, right, p, e, child) ==
    /\ right \in b[root] /\ IsKid(node, leaf, "right", right)
    /\ \/ p = leaf /\ e = "right"
       \/ p \in b[right] /\ e = "left"
    /\ IsKid(node, p, e, child) /\ child \in b[right] /\ IsKid(node, child, "left", NULL)
    /\ \A m \in b[right] \ {child} : node[child].key < node[m].key

LEMMA SuccessorFacts ==
    ASSUME NEW b, Tidy(node, root, b), NEW leaf \in b[root],
           NEW right, NEW p, NEW e, NEW child, Successor(b, leaf, right, p, e, child)
    PROVE  /\ leaf \in Node /\ p \in Node /\ child \in Node /\ e \in Dir
           /\ right \in Ptr /\ p \in b[root] /\ child \in b[root] /\ p \in b[leaf]
           /\ b[right] \subseteq b[root] /\ leaf \notin b[right] /\ leaf # child
           /\ child \in b[leaf] /\ node[leaf].key < node[child].key
           /\ \A x : IsKid(node, child, "right", x) => x \in Ptr /\ b[x] \subseteq b[right]
<1>1. /\ right \in b[root] /\ IsKid(node, leaf, "right", right) /\ child \in b[right]
      /\ p = leaf \/ p \in b[right]
      /\ e \in Dir /\ "right" \in Dir
    BY DEF Successor, Dir
<1>2. /\ right \in Ptr /\ b[right] \subseteq b[leaf] /\ b[right] \subseteq b[root]
      /\ leaf \notin b[right] /\ \A m \in b[right] : On("right", node[m].key, node[leaf].key)
    BY <1>1, SideFacts
<1>3. leaf \in Node /\ leaf \in b[leaf] /\ b[root] \subseteq Node
    BY NodeFacts
<1>4. node[leaf].key < node[child].key
    BY <1>1, <1>2 DEF On
<1>5. b[child] \subseteq b[right]
    BY <1>1, NodeFacts
<1>6. ASSUME NEW x, IsKid(node, child, "right", x) PROVE x \in Ptr /\ b[x] \subseteq b[right]
    <2>1. child \in b[root]
        BY <1>1, <1>2
    <2>2. x \in Ptr /\ b[x] \subseteq b[child]
        BY <1>1, <1>6, <2>1, SideFacts
    <2> QED
        BY <1>5, <2>2
<1> QED
    BY <1>1, <1>2, <1>3, <1>4, <1>6

\* A node with two children takes the key of its successor, and the successor is replaced by
\* its right child.  The proof does it in the other order, so that each half is tidy.
LEMMA TwoChildren ==
    ASSUME NEW b, Tidy(node, root, b), NEW leaf \in b[root],
           NEW k, Holds(b, leaf, k),
           NEW right, NEW p, NEW e, NEW child, Successor(b, leaf, right, p, e, child),
           NEW c, IsKid(node, child, "right", c),
           NEW h2, h2 = WithKid(WithKey(node, leaf, node[child].key), p, e, c)
    PROVE  /\ h2 \in Memory /\ Rewired(node, h2, Node, p, e, c)
           /\ Without(h2, b, k)
<1>1. /\ leaf \in Node /\ p \in Node /\ child \in Node /\ e \in Dir
      /\ p \in b[root] /\ child \in b[root]
      /\ b[right] \subseteq b[root] /\ leaf \notin b[right] /\ leaf # child
      /\ child \in b[leaf] /\ node[leaf].key < node[child].key
      /\ c \in Ptr /\ b[c] \subseteq b[right]
    BY SuccessorFacts
<1>2. /\ node \in Memory /\ root \in Ptr /\ b[root] \subseteq Node /\ b \in [Ptr -> SUBSET Node]
      /\ b[NULL] = {}
      /\ \A m \in b[root] : node[m].key \in Int /\ node[m].key \in Key
    BY NodeFacts DEF Tidy
<1>3. PICK new : new = node[child].key
    OBVIOUS
<1>4. PICK h : h = WithKey(node, leaf, new)
    OBVIOUS
<1>5. /\ h \in Memory /\ h[leaf].key = new
      /\ SameKeys(node, h, Node \ {leaf}) /\ SameKids(node, h, Node)
    <2>1. new \in Key /\ leaf \in Node /\ node \in Memory
        BY <1>1, <1>2, <1>3
    <2> QED
        BY <1>4, <2>1, SetKey
<1>6. h2 \in Memory /\ SameKeys(h, h2, Node) /\ Rewired(h, h2, Node, p, e, c)
    BY <1>1, <1>3, <1>4, <1>5, SetKid
<1>7. /\ h2[leaf].key = new /\ SameKeys(node, h2, Node \ {leaf})
      /\ Rewired(node, h2, Node, p, e, c)
    BY <1>1, <1>5, <1>6 DEF SameKeys, SameKids, Rewired
<1>8. PICK h1 : h1 = WithKid(node, p, e, c)
    OBVIOUS
<1>9. h1 \in Memory /\ SameKeys(node, h1, Node) /\ Rewired(node, h1, Node, p, e, c)
    BY <1>1, <1>2, <1>8, SetKid
<1>10. PICK b2 : Tidy(h1, root, b2) /\ \A q \in Ptr : b2[q] = b[q] \ {child}
    <2>1. SameKeys(node, h1, b[root]) /\ Rewired(node, h1, b[root], p, e, c)
        BY <1>2, <1>9 DEF SameKeys, Rewired
    <2>2. /\ IsKid(node, p, e, child) /\ IsKid(node, child, Opp("right"), NULL)
          /\ "right" \in Dir
        BY DEF Successor, Opp, Dir
    <2> QED
        BY <1>1, <1>9, <2>1, <2>2, TakeOut
<1>11. b2[root] = b[root] \ {child} /\ leaf \in b2[root] /\ b2[root] \subseteq Node
    BY <1>1, <1>2, <1>10
<1>12. ASSUME NEW m \in Node, NEW d \in Dir, NEW x, IsKid(h1, m, d, x),
              NEW y, IsKid(node, m, d, y)
       PROVE  x = (IF m = p /\ d = e THEN c ELSE y) /\ IsKid(h2, m, d, x)
    <2>1. /\ IsKid(h1, m, d, IF m = p /\ d = e THEN c ELSE y)
          /\ IsKid(h2, m, d, IF m = p /\ d = e THEN c ELSE y)
        BY <1>7, <1>9, <1>12 DEF Rewired
    <2>2. x = (IF m = p /\ d = e THEN c ELSE y)
        BY <1>12, <2>1 DEF IsKid
    <2> QED
        BY <2>1, <2>2
<1>13. Fits(h1, root, b2, leaf, new)
    <2> SUFFICES ASSUME NEW m \in b2[root], NEW d \in Dir, NEW x,
                        IsKid(h1, m, d, x), leaf \in b2[x]
                 PROVE  On(d, new, h1[m].key)
        BY DEF Fits
    <2>1. PICK y : IsKid(node, m, d, y)
        BY DEF IsKid
    <2>2. m \in Node /\ m \in b[root] /\ h1[m].key = node[m].key
        BY <1>9, <1>11 DEF SameKeys
    <2>3. x = (IF m = p /\ d = e THEN c ELSE y) /\ y \in Ptr
        BY <1>12, <2>1, <2>2, SideFacts
    <2>4. leaf \in b[x]
        BY <1>1, <1>10, <2>3
    <2>5. leaf \in b[y] /\ y \in b[root]
        BY <1>1, <1>2, <2>1, <2>2, <2>3, <2>4, SideFacts
    <2>6. child \in b[y]
        BY <1>1, <2>5, NodeFacts
    <2> QED
        BY <1>3, <2>1, <2>2, <2>6, SideFacts
<1>14. ASSUME NEW d \in Dir, NEW x, IsKid(h1, leaf, d, x), NEW m \in b2[x]
       PROVE  On(d, h1[m].key, new)
    <2>1. PICK y : IsKid(node, leaf, d, y)
        BY DEF IsKid
    <2>2. x = (IF leaf = p /\ d = e THEN c ELSE y) /\ y \in Ptr /\ b[y] \subseteq b[root]
        BY <1>1, <1>12, <1>14, <2>1, SideFacts
    <2>3. m \in b[x] /\ m # child /\ m \in b[root] /\ h1[m].key = node[m].key
        BY <1>1, <1>2, <1>9, <1>10, <1>14, <2>2 DEF SameKeys
    <2>4. CASE d = "left"
        <3>1. x = y
            BY <1>1, <2>2, <2>4 DEF Successor
        <3>2. On("left", node[m].key, node[leaf].key)
            BY <2>1, <2>3, <2>4, <3>1, SideFacts
        <3> QED
            BY <1>1, <1>2, <1>3, <2>3, <2>4, <3>2 DEF On
    <2>5. CASE d = "right"
        <3>1. y = right
            BY <2>1, <2>5 DEF Successor, IsKid
        <3>2. m \in b[right]
            BY <1>1, <2>2, <2>3, <3>1
        <3> QED
            BY <1>3, <2>3, <2>5, <3>2 DEF On, Successor
    <2> QED
        BY <2>4, <2>5 DEF Dir
<1>15. SameKeys(h1, h2, b2[root] \ {leaf}) /\ SameKids(h1, h2, b2[root])
    <2>1. SameKeys(h1, h2, b2[root] \ {leaf})
        BY <1>7, <1>9, <1>11 DEF SameKeys
    <2>2. ASSUME NEW m \in b2[root], NEW d \in Dir, NEW x, IsKid(h1, m, d, x)
          PROVE  IsKid(h2, m, d, x)
        <3>1. PICK y : IsKid(node, m, d, y)
            BY DEF IsKid
        <3> QED
            BY <1>11, <1>12, <2>2, <3>1
    <2> QED
        BY <2>1, <2>2 DEF SameKids
<1>16. Tidy(h2, root, b2)
    <2>1. new \in Key
        BY <1>1, <1>2, <1>3
    <2> QED
        BY <1>6, <1>7, <1>10, <1>11, <1>13, <1>14, <1>15, <2>1, Rekey
<1>17. Keys(h2, b2[root]) = Keys(node, b[root]) \ {k}
    BY <1>1, <1>2, <1>3, <1>7, <1>11 DEF Holds, Keys, SameKeys
<1> QED
    BY <1>6, <1>7, <1>16, <1>17 DEF Without

\* What a node is replaced by.
LEMMA RemovedKeeps ==
    ASSUME NEW b, Tidy(node, root, b), IsFiniteSet(Node), NEW leaf \in b[root], ~HasTwo(leaf)
    PROVE  /\ Removed(leaf).node = node
           /\ \E f : OnlyKid(leaf, f, Removed(leaf).up)
<1>1. PICK out : out = Removed(leaf)
    OBVIOUS
<1>2. CASE node[leaf].left = NULL
    <2>1. out.node = node /\ out.up = node[leaf].right
        BY <1>1, <1>2 DEF Removed
    <2> QED
        BY <1>1, <1>2, <2>1 DEF OnlyKid, IsKid, Kid, Opp, Dir
<1>3. CASE node[leaf].left # NULL
    <2>1. node[leaf].right = NULL
        BY <1>3 DEF HasTwo
    <2>2. out.node = node /\ out.up = node[leaf].left
        BY <1>1, <1>3, <2>1 DEF Removed
    <2> QED
        BY <1>1, <2>1, <2>2 DEF OnlyKid, IsKid, Kid, Opp, Dir
<1> QED
    BY <1>2, <1>3

LEMMA RemovedTwo ==
    ASSUME NEW b, Tidy(node, root, b), IsFiniteSet(Node), NEW leaf \in b[root], HasTwo(leaf)
    PROVE  \E right, p, e, child, c :
              /\ Successor(b, leaf, right, p, e, child) /\ IsKid(node, child, "right", c)
              /\ Removed(leaf).up = leaf
              /\ Removed(leaf).node = WithKid(WithKey(node, leaf, node[child].key), p, e, c)
<1>1. PICK right, down, child, c :
           /\ right = node[leaf].right /\ down = LeftmostPath(right) /\ child = EndOf(down)
           /\ c = node[child].right
    OBVIOUS
<1>2. node[leaf].left # NULL /\ right # NULL
    BY <1>1 DEF HasTwo
<1>3. IsKid(node, leaf, "right", right) /\ IsKid(node, child, "right", c)
    BY <1>1 DEF IsKid, Kid
<1>4. right \in b[root]
    BY <1>2, <1>3, SideFacts DEF Dir
<1>5. Descends(b, right, down)
    BY <1>1, <1>4, LeftmostDescends
<1>6. /\ Len(down) >= 1 /\ down[1] = right /\ child \in b[right] /\ IsKid(node, child, "left", NULL)
      /\ \A m \in b[right] \ {child} : node[child].key < node[m].key
      /\ Len(down) # 1 => /\ down[Len(down) - 1] \in b[right]
                          /\ IsKid(node, down[Len(down) - 1], "left", child)
    BY <1>1, <1>5 DEF Descends, EndOf
<1>7. PICK out : out = Removed(leaf)
    OBVIOUS
<1>8. CASE Len(down) = 1
    <2>1. child = right
        BY <1>1, <1>6, <1>8 DEF EndOf
    <2>2. IsKid(node, leaf, "right", child)
        BY <1>3, <2>1
    <2>3. Successor(b, leaf, right, leaf, "right", child)
        BY <1>3, <1>4, <1>6, <2>2 DEF Successor
    <2>4. /\ out.up = leaf
          /\ out.node = WithKid(WithKey(node, leaf, node[child].key), leaf, "right", c)
        BY <1>1, <1>2, <1>7, <1>8, <2>1 DEF Removed, WithKid, WithKey
    <2> QED
        BY <1>3, <1>7, <2>3, <2>4
<1>9. CASE Len(down) # 1
    <2>1. PICK p : p = down[Len(down) - 1]
        OBVIOUS
    <2>2. Successor(b, leaf, right, p, "left", child)
        BY <1>3, <1>4, <1>6, <1>9, <2>1 DEF Successor
    <2>3. /\ out.up = leaf
          /\ out.node = WithKid(WithKey(node, leaf, node[child].key), p, "left", c)
        BY <1>1, <1>2, <1>7, <1>9, <2>1 DEF Removed, WithKid, WithKey
    <2> QED
        BY <1>3, <1>7, <2>2, <2>3
<1> QED
    BY <1>8, <1>9

\* remove(key) leaves a search tree.  The key is gone, unless it was that of a root with at
\* most one child, which stays.
LEMMA RemoveKeeps ==
    ASSUME NEW b, Tidy(node, root, b), IsFiniteSet(Node), NEW k \in Key, Remove(k)
    PROVE  \E b2 : /\ Tidy(node', root', b2)
                   /\ root # NULL /\ (node[root].key = k => HasTwo(root))
                         => Keys(node', b2[root']) = Keys(node, b[root]) \ {k}
<1>1. root' = root
    BY DEF Remove
<1>2. CASE ~Has(k)
    <2>1. node' = node
        BY <1>2 DEF Remove
    <2>2. k \notin Keys(node, b[root])
        BY <1>2, HasMeans
    <2>3. Keys(node, b[root]) \ {k} = Keys(node, b[root])
        BY <2>2
    <2> QED
        BY <1>1, <2>1, <2>3
<1>3. CASE Has(k)
    <2>1. PICK path, leaf, out, h2 : /\ path = PathTo(k) /\ leaf = EndOf(path)
                                     /\ out = Removed(leaf) /\ h2 = node'
        OBVIOUS
    <2>2. root # NULL /\ node[leaf].key = k
        BY <1>3, <2>1 DEF Has
    <2>3. Leads(b, root, k, path)
        BY <2>1, <2>2, HasMeans
    <2>4. /\ leaf \in b[root] /\ Holds(b, leaf, k)
          /\ Len(path) = 1 => leaf = root
        BY <2>1, <2>2, <2>3 DEF Leads, Ends, EndOf, Holds
    <2>5. PICK up, side : up = path[Len(path) - 1] /\ side = Side(up, k)
        OBVIOUS
    <2>6. h2 = IF Len(path) = 1 THEN out.node ELSE WithKid(out.node, up, side, out.up)
        BY <1>3, <2>1, <2>5 DEF Remove, WithKid
    <2>7. Len(path) # 1 => /\ up \in b[root] /\ IsKid(node, up, side, leaf) /\ side \in Dir
        BY <2>1, <2>3, <2>5 DEF Leads, EndOf, Side, Dir
    <2>8. CASE HasTwo(leaf)
        <3>1. PICK right, p, e, child, c :
                  /\ Successor(b, leaf, right, p, e, child) /\ IsKid(node, child, "right", c)
                  /\ out.up = leaf
                  /\ out.node = WithKid(WithKey(node, leaf, node[child].key), p, e, c)
            BY <2>1, <2>4, <2>8, RemovedTwo
        <3>2. PICK h : h = out.node
            OBVIOUS
        <3>3. /\ h \in Memory /\ Rewired(node, h, Node, p, e, c)
              /\ Without(h, b, k)
            <4>1. h = WithKid(WithKey(node, leaf, node[child].key), p, e, c)
                BY <3>1, <3>2
            <4> QED
                BY <2>4, <3>1, <4>1, TwoChildren
        <3>4. h2 = h
            <4>1. CASE Len(path) = 1
                BY <2>6, <3>2, <4>1
            <4>2. CASE Len(path) # 1
                <5>1. up \in b[root] /\ IsKid(node, up, side, leaf) /\ side \in Dir /\ up \in Node
                    BY <2>7, <4>2, NodeFacts
                <5>2. up # p
                    <6>1. leaf # NULL
                        BY <2>4, SeqTreeAssumption DEF Tidy
                    <6>2. up \notin b[leaf]
                        BY <5>1, SideFacts
                    <6> QED
                        BY <2>4, <3>1, <6>2, SuccessorFacts
                <5>3. IsKid(h, up, side, leaf)
                    BY <3>3, <5>1, <5>2 DEF Rewired
                <5>4. WithKid(h, up, side, leaf) = h
                    BY <3>3, <5>1, <5>3, KidIsSame
                <5> QED
                    BY <2>6, <3>1, <3>2, <4>2, <5>4
            <4> QED
                BY <4>1, <4>2
        <3> QED
            BY <1>1, <2>1, <3>3, <3>4 DEF Without
    <2>9. CASE ~HasTwo(leaf)
        <3>1. PICK f : OnlyKid(leaf, f, out.up)
            BY <2>1, <2>4, <2>9, RemovedKeeps
        <3>2. out.node = node
            BY <2>1, <2>4, <2>9, RemovedKeeps
        <3>3. CASE Len(path) = 1
            <4>1. node' = node /\ leaf = root
                BY <2>1, <2>4, <2>6, <3>2, <3>3
            <4> QED
                BY <1>1, <2>2, <2>9, <4>1
        <3>4. CASE Len(path) # 1
            <4>1. PICK c : c = out.up
                OBVIOUS
            <4>2. IsWithKid(h2, node, up, side, c)
                BY <2>6, <3>2, <3>4, <4>1 DEF IsWithKid
            <4>3. /\ up \in b[root] /\ leaf \in b[root] /\ Holds(b, leaf, k)
                  /\ IsKid(node, up, side, leaf) /\ side \in Dir
                  /\ OnlyKid(leaf, f, c)
                BY <2>4, <2>7, <3>1, <3>4, <4>1
            <4>4. Without(h2, b, k)
                BY <4>2, <4>3, OneChild
            <4> QED
                BY <1>1, <2>1, <4>4 DEF Without
        <3> QED
            BY <3>3, <3>4
    <2> QED
        BY <2>8, <2>9
<1> QED
    BY <1>2, <1>3

-----------------------------------------------------------------------------
(* The program *)

LEMMA InitShaped == Init => TreeShaped
<1> SUFFICES ASSUME Init PROVE TreeShaped
    OBVIOUS
<1> DEFINE b == [q \in Ptr |-> {}]
<1>1. root = NULL /\ node \in Memory /\ NULL \in Ptr
    BY DEF Init, Memory, Ptr
<1>2. b \in [Ptr -> SUBSET Node] /\ b[NULL] = {}
    BY <1>1
<1> HIDE DEF b
<1>3. Tidy(node, root, b)
    BY <1>1, <1>2 DEF Tidy, Linked, Nested, Sorted
<1> QED
    BY <1>3 DEF TreeShaped

LEMMA NextShaped ==
    ASSUME IsFiniteSet(Node), TreeShaped, [Next]_vars
    PROVE  TreeShaped'
<1>1. PICK b : Tidy(node, root, b)
    BY DEF TreeShaped
<1>2. ASSUME NEW k \in Key, Insert(k) PROVE TreeShaped'
    BY <1>1, <1>2, InsertKeeps DEF TreeShaped
<1>3. ASSUME NEW k \in Key, Remove(k) PROVE TreeShaped'
    BY <1>1, <1>3, RemoveKeeps DEF TreeShaped
<1>4. CASE UNCHANGED <<root, node>>
    BY <1>1, <1>4 DEF TreeShaped
<1> QED
    BY <1>2, <1>3, <1>4 DEF Next, DestroyTree, Ended, vars

\* Nothing that insert (main-2.cpp:151-200) and remove (main-2.cpp:50-121) do, in any
\* order, makes a node the child of two nodes, or closes a cycle, or puts a key on the
\* wrong side of a node above it.
THEOREM TreeStaysShaped == ASSUME IsFiniteSet(Node) PROVE Spec => []TreeShaped
<1>1. Init => TreeShaped
    BY InitShaped
<1>2. TreeShaped /\ [Next]_vars => TreeShaped'
    BY NextShaped
<1> QED
    BY <1>1, <1>2, PTL DEF Spec

\* The keys of a tree in that shape are in order, each once.
THEOREM TreeIsOrdered == ASSUME IsFiniteSet(Node) PROVE Spec => []SearchTree
<1>1. TreeShaped => SearchTree
    <2> SUFFICES ASSUME NEW b, Tidy(node, root, b) PROVE SearchTree
        BY DEF TreeShaped
    <2>1. Lists(node, InOrder, b[root])
        BY OrderLists
    <2> QED
        BY <2>1 DEF SearchTree, Lists
<1> QED
    BY <1>1, TreeStaysShaped, PTL

\* A call changes the keys of the tree by its own key: what remove (main-2.cpp:97-121)
\* does to a node with two children, whose successor gives it its key, loses no other key.
THEOREM CallsChangeKeys == ASSUME IsFiniteSet(Node) PROVE Spec => CallsChangeOneKey
<1>1. \A b : Tidy(node, root, b) => Contents = Keys(node, b[root])
    BY TreeIsBelow DEF Contents, Keys
<1>2. (\A b : Tidy(node, root, b) => Contents = Keys(node, b[root]))'
    BY <1>1, PTL
<1>3. ASSUME TreeShaped, NEW k \in Key, Insert(k) PROVE Contents' = Contents \cup {k}
    <2>1. PICK b : Tidy(node, root, b)
        BY <1>3 DEF TreeShaped
    <2>2. PICK b2 : /\ Tidy(node', root', b2)
                    /\ Keys(node', b2[root']) = Keys(node, b[root]) \cup {k}
        BY <1>3, <2>1, InsertKeeps
    <2>3. Contents' = Keys(node', b2[root'])
        BY <1>2, <2>2
    <2> QED
        BY <1>1, <2>1, <2>2, <2>3
<1>4. ASSUME TreeShaped, NEW k \in Key, Remove(k),
             root # NULL, node[root].key = k => HasTwo(root)
      PROVE  Contents' = Contents \ {k}
    <2>1. PICK b : Tidy(node, root, b)
        BY <1>4 DEF TreeShaped
    <2>2. PICK b2 : /\ Tidy(node', root', b2)
                    /\ Keys(node', b2[root']) = Keys(node, b[root]) \ {k}
        BY <1>4, <2>1, RemoveKeeps
    <2>3. Contents' = Keys(node', b2[root'])
        BY <1>2, <2>2
    <2> QED
        BY <1>1, <2>1, <2>2, <2>3
<1>5. TreeShaped /\ [Next]_vars
        => [\A k \in Key :
              /\ Insert(k) => Contents' = Contents \cup {k}
              /\ Remove(k) /\ root # NULL /\ (node[root].key = k => HasTwo(root))
                     => Contents' = Contents \ {k}]_vars
    BY <1>3, <1>4
<1> QED
    BY <1>5, TreeStaysShaped, PTL DEF Spec, CallsChangeOneKey
=============================================================================
