--------------------------- MODULE MailSyncProofs ---------------------------
(***************************************************************************)
(* Mail, from the listing to the views.  MailSync: thread reconstruction,  *)
(* listings and the saved token, for any mails, windows, caps and page     *)
(* size.  Maps: what is shown of the mail, for any mailbox, caps and       *)
(* filters.  The two share no variable, and each keeps its specification.  *)
(*                                                                         *)
(* First the union-find of threads.py.  A parent ranks above its children, *)
(* so that as many steps as there are ids lead to a root; a union keeps    *)
(* the ranks and makes one root the parent of another; so, message by      *)
(* message, the forest represents exactly what the headers link.  tlapm    *)
(* has no induction over data of its own: here it is a fact about sets,    *)
(* from the least number that a set lacks.                                 *)
(*                                                                         *)
(* Then StoreInv, which any number of overlapping runs keep: types, what a *)
(* run lists, and the links between a stored message and its thread.       *)
(*                                                                         *)
(* Then the token.  It is saved from the history id a run has read: before *)
(* its full listing, or with its last page of additions.  IInv says, step  *)
(* by step, that all mail up to that id is listed, and then stored; it     *)
(* holds when one run is under way at a time.                              *)
(*                                                                         *)
(* Last the views.  MapInv relates what a request has read to what the     *)
(* rows hold now: as long as no job has committed since it began, they are *)
(* the same; and the mail a map is derived from is safe and was stored     *)
(* while it was read.                                                      *)
(***************************************************************************)
EXTENDS MailSync, Maps, FiniteSetTheorems, TLAPS

LEMMA LeastNat ==
  ASSUME NEW S \in SUBSET Nat, S # {}
  PROVE  \E n \in S : \A m \in S : n <= m
<1> DEFINE R == {ss \in Nat \X Nat : ss[1] < ss[2]}
<1>1. IsWellFoundedOn(R, Nat)
  BY NatLessThanWellFounded DEF OpToRel
<1> HIDE DEF R
<1>2. PICK n \in S : \A m \in S : ~ (<<m, n>> \in R)
  BY <1>1, WFMin
<1>3. \A m \in S : ~(m < n)
  BY <1>2 DEF R
<1> QED
  BY <1>3

\* Induction, stated for a set.
LEMMA InductionUpTo ==
  ASSUME NEW n \in Nat, NEW S, 0 \in S, \A k \in 1..n : k - 1 \in S => k \in S
  PROVE  0..n \subseteq S
<1> SUFFICES ASSUME (0..n) \ S # {} PROVE FALSE
  OBVIOUS
<1>1. PICK k \in (0..n) \ S : \A m \in (0..n) \ S : k <= m
  <2>1. (0..n) \ S \in SUBSET Nat
    OBVIOUS
  <2> QED
    BY <2>1, LeastNat
<1>2. k \in 1..n /\ k - 1 \in 0..n /\ k - 1 \in S
  BY <1>1
<1> QED
  BY <1>1, <1>2

\* A function defined by recursion on 0..n exists.
Recurs(f, n, base, step) == f[0] = base /\ \A k \in 1..n : f[k] = step[k][f[k - 1]]

LEMMA Recursion ==
  ASSUME NEW n \in Nat, NEW S, NEW base \in S, NEW step \in [1..n -> [S -> S]]
  PROVE  \E f \in [0..n -> S] : Recurs(f, n, base, step)
<1> DEFINE Upto(m) == {f \in [0..m -> S] : f[0] = base /\ \A k \in 1..m : f[k] = step[k][f[k - 1]]}
           Good == {m \in 0..n : Upto(m) # {}}
<1>1. 0 \in Good
  <2>1. [k \in 0..0 |-> base] \in Upto(0)
    OBVIOUS
  <2> QED
    BY <2>1
<1>2. ASSUME NEW m \in 1..n, m - 1 \in Good PROVE m \in Good
  <2>1. PICK f \in [0..(m - 1) -> S] : f[0] = base /\ \A k \in 1..(m - 1) : f[k] = step[k][f[k - 1]]
    BY <1>2
  <2> DEFINE g == [k \in 0..m |-> IF k = m THEN step[m][f[m - 1]] ELSE f[k]]
  <2>2. m - 1 \in 0..(m - 1) /\ \A k \in 0..m : k # m => k \in 0..(m - 1)
    OBVIOUS
  <2>3. g \in [0..m -> S]
    BY <2>1, <2>2
  <2>4. g[0] = base
    BY <2>1
  <2>5. ASSUME NEW k \in 1..m PROVE g[k] = step[k][g[k - 1]]
    <3>1. k - 1 \in 0..m /\ k - 1 # m /\ k \in 0..m
      OBVIOUS
    <3>2. g[k - 1] = f[k - 1]
      BY <3>1
    <3>3. CASE k = m
      BY <3>1, <3>2, <3>3
    <3>4. CASE k # m
      <4>1. k \in 1..(m - 1)
        BY <3>4
      <4> QED
        BY <2>1, <3>1, <3>2, <3>4, <4>1
    <3> QED
      BY <3>3, <3>4
  <2>6. g \in Upto(m)
    BY <2>3, <2>4, <2>5
  <2> QED
    BY <2>6
<1>3. 0..n \subseteq Good
  <2> HIDE DEF Good
  <2> QED
    BY <1>1, <1>2, InductionUpTo
<1>4. n \in Good
  BY <1>3
<1> QED
  BY <1>4 DEF Recurs

-----------------------------------------------------------------------------
\* The chain of parents from x.
Chain(parent, x) ==
  CHOOSE f : f = [n \in 0..Cardinality(Mids) |-> IF n = 0 THEN x ELSE parent[f[n - 1]]]

LEMMA FindEndsChain == ASSUME NEW parent, NEW x
                       PROVE Find(parent, x) = Chain(parent, x)[Cardinality(Mids)]
  BY DEF Find, Chain

LEMMA ChainIs ==
  ASSUME NEW parent \in [Mids -> Mids], NEW x \in Mids
  PROVE  /\ Cardinality(Mids) \in Nat
         /\ Chain(parent, x) \in [0..Cardinality(Mids) -> Mids]
         /\ Chain(parent, x)[0] = x
         /\ \A n \in 1..Cardinality(Mids) : Chain(parent, x)[n] = parent[Chain(parent, x)[n - 1]]
<1> DEFINE c == Cardinality(Mids)
<1>1. c \in Nat
  BY MailConstants, FS_CardinalityType
<1> HIDE DEF c
<1>2. PICK f \in [0..c -> Mids] : f[0] = x /\ \A k \in 1..c : f[k] = parent[f[k - 1]]
  <2> DEFINE step == [k \in 1..c |-> parent]
  <2>1. step \in [1..c -> [Mids -> Mids]] /\ \A k \in 1..c : step[k] = parent
    OBVIOUS
  <2> HIDE DEF step
  <2>2. \E f \in [0..c -> Mids] : Recurs(f, c, x, step)
    BY <1>1, <2>1, Recursion
  <2> QED
    BY <2>1, <2>2 DEF Recurs
<1>3. f = [n \in 0..c |-> IF n = 0 THEN x ELSE parent[f[n - 1]]]
  BY <1>1, <1>2
<1>4. Chain(parent, x) = [n \in 0..c |-> IF n = 0 THEN x ELSE parent[Chain(parent, x)[n - 1]]]
  BY <1>3 DEF Chain, c
<1> DEFINE g == Chain(parent, x)
<1> HIDE DEF g
<1>5. g = [n \in 0..c |-> IF n = 0 THEN x ELSE parent[g[n - 1]]]
  BY <1>4 DEF g
<1>6. g[0] = x /\ \A n \in 1..c : g[n] = parent[g[n - 1]]
  BY <1>1, <1>5
<1>7. \A n \in 0..c : g[n] \in Mids
  <2> DEFINE In == {n \in 0..c : g[n] \in Mids}
  <2>1. 0 \in In
    BY <1>1, <1>6
  <2>2. \A k \in 1..c : k - 1 \in In => k \in In
    BY <1>1, <1>6
  <2> HIDE DEF In
  <2>3. 0..c \subseteq In
    BY <1>1, <2>1, <2>2, InductionUpTo
  <2> QED
    BY <2>3 DEF In
<1>8. g \in [0..c -> Mids]
  BY <1>5, <1>7
<1> QED
  BY <1>1, <1>6, <1>8 DEF c, g

-----------------------------------------------------------------------------
\* What parents keep, find keeps.
LEMMA FindStays ==
  ASSUME NEW parent \in [Mids -> Mids], NEW x \in Mids, NEW Q, x \in Q,
         \A y \in Mids : y \in Q => parent[y] \in Q
  PROVE  Find(parent, x) \in Mids /\ Find(parent, x) \in Q
<1> DEFINE c == Cardinality(Mids)
           g == Chain(parent, x)
           In == {n \in 0..c : g[n] \in Q}
<1>1. c \in Nat /\ g \in [0..c -> Mids] /\ g[0] = x /\ \A n \in 1..c : g[n] = parent[g[n - 1]]
  BY ChainIs
<1>2. Find(parent, x) = g[c]
  BY FindEndsChain
<1> HIDE DEF c, g
<1>3. 0 \in In /\ \A k \in 1..c : k - 1 \in In => k \in In
  BY <1>1
<1> HIDE DEF In
<1>4. 0..c \subseteq In
  BY <1>1, <1>3, InductionUpTo
<1> QED
  BY <1>1, <1>2, <1>4 DEF In

\* No cycles: parents rank above their children.
Ranks(parent, rank) == \A x \in Mids : parent[x] # x => rank[x] < rank[parent[x]]
IsForest(parent) == parent \in [Mids -> Mids] /\ \E rank \in [Mids -> Nat] : Ranks(parent, rank)

\* As many steps as there are ids lead to a root.
LEMMA FindIsRoot ==
  ASSUME NEW parent, IsForest(parent), NEW x \in Mids
  PROVE  Find(parent, x) \in Mids /\ parent[Find(parent, x)] = Find(parent, x)
<1> DEFINE c == Cardinality(Mids)
           g == Chain(parent, x)
<1>1. parent \in [Mids -> Mids]
  BY DEF IsForest
<1>2. PICK rank \in [Mids -> Nat] : Ranks(parent, rank)
  BY DEF IsForest
<1>3. c \in Nat /\ g \in [0..c -> Mids] /\ g[0] = x /\ \A n \in 1..c : g[n] = parent[g[n - 1]]
  BY <1>1, ChainIs
<1>4. Find(parent, x) = g[c]
  BY FindEndsChain
<1>5. IsFiniteSet(Mids) /\ IsFiniteSet(0..c) /\ Cardinality(0..c) = c + 1
  BY <1>3, MailConstants, FS_Interval
<1>6. ASSUME parent[g[c]] # g[c] PROVE FALSE
  <2>1. Cardinality(Mids) < Cardinality(0..c)
    BY <1>3, <1>5
  <2> HIDE DEF c, g
  \* Below c there is no root.
  <2>2. ASSUME NEW n \in 0..c, parent[g[n]] = g[n] PROVE FALSE
    <3> DEFINE Same == {k \in 0..c : k >= n => g[k] = g[n]}
    <3>1. 0 \in Same
      BY <1>3, <2>2
    <3>2. \A k \in 1..c : k - 1 \in Same => k \in Same
      BY <1>3, <2>2
    <3> HIDE DEF Same
    <3>3. 0..c \subseteq Same
      BY <1>3, <3>1, <3>2, InductionUpTo
    <3>4. g[c] = g[n]
      BY <1>3, <3>3 DEF Same
    <3> QED
      BY <1>6, <2>2, <3>4
  <2>3. \A k \in 1..c : rank[g[k - 1]] < rank[g[k]]
    <3> TAKE k \in 1..c
    <3>1. k - 1 \in 0..c /\ g[k] = parent[g[k - 1]] /\ g[k - 1] \in Mids
      BY <1>3
    <3>2. parent[g[k - 1]] # g[k - 1]
      BY <2>2, <3>1
    <3> QED
      BY <1>2, <3>1, <3>2 DEF Ranks
  <2>4. ASSUME NEW i \in 0..c, NEW j \in 0..c, i < j PROVE g[i] # g[j]
    <3> DEFINE Up == {k \in 0..c : k > i => rank[g[i]] < rank[g[k]]}
    <3>1. \A k \in 0..c : rank[g[k]] \in Nat
      BY <1>2, <1>3
    <3>2. 0 \in Up
      BY <1>3
    <3>3. \A k \in 1..c : k - 1 \in Up => k \in Up
      BY <1>3, <2>3, <3>1
    <3> HIDE DEF Up
    <3>4. 0..c \subseteq Up
      BY <1>3, <3>2, <3>3, InductionUpTo
    <3>5. rank[g[i]] < rank[g[j]]
      BY <2>4, <3>4 DEF Up
    <3> QED
      BY <3>1, <3>5
  <2>5. PICK i, j \in 0..c : i # j /\ g[i] = g[j]
    BY <1>3, <1>5, <2>1, FS_PigeonHole
  <2> QED
    BY <1>3, <2>4, <2>5
<1> QED
  BY <1>3, <1>4, <1>6

\* What is constant along parents, and the root itself at a root, is what find returns.
LEMMA FindIs ==
  ASSUME NEW parent, IsForest(parent), NEW top \in [Mids -> Mids],
         \A y \in Mids : top[parent[y]] = top[y] /\ (parent[y] = y => top[y] = y)
  PROVE  \A x \in Mids : Find(parent, x) = top[x]
<1> TAKE x \in Mids
<1> DEFINE Q == {y \in Mids : top[y] = top[x]}
<1>1. parent \in [Mids -> Mids]
  BY DEF IsForest
<1>2. Find(parent, x) \in Q
  BY <1>1, FindStays
<1>3. parent[Find(parent, x)] = Find(parent, x)
  BY FindIsRoot
<1> QED
  BY <1>2, <1>3

\* A parent leads to the same root.
LEMMA FindOfParent ==
  ASSUME NEW parent, IsForest(parent), NEW x \in Mids
  PROVE  Find(parent, parent[x]) = Find(parent, x) /\ (parent[x] = x => Find(parent, x) = x)
<1> DEFINE c == Cardinality(Mids)
           y == parent[x]
           g == Chain(parent, x)
           h == Chain(parent, y)
<1>1. parent \in [Mids -> Mids] /\ y \in Mids
  BY DEF IsForest
<1>2. c \in Nat /\ g \in [0..c -> Mids] /\ g[0] = x /\ \A n \in 1..c : g[n] = parent[g[n - 1]]
  BY <1>1, ChainIs
<1>3. h \in [0..c -> Mids] /\ h[0] = y /\ \A n \in 1..c : h[n] = parent[h[n - 1]]
  BY <1>1, ChainIs
<1>4. Find(parent, x) = g[c] /\ Find(parent, y) = h[c]
  BY FindEndsChain
<1>5. parent[g[c]] = g[c]
  BY <1>4, FindIsRoot
<1> HIDE DEF c, y, g, h
<1>6. h[c] = parent[g[c]]
  <2> DEFINE In == {n \in 0..c : h[n] = parent[g[n]]}
  <2>1. 0 \in In
    BY <1>2, <1>3 DEF y
  <2>2. \A k \in 1..c : k - 1 \in In => k \in In
    BY <1>2, <1>3
  <2> HIDE DEF In
  <2>3. 0..c \subseteq In
    BY <1>2, <2>1, <2>2, InductionUpTo
  <2> QED
    BY <1>2, <2>3 DEF In
<1>7. ASSUME y = x PROVE g[c] = x
  <2>1. Find(parent, x) \in {x}
    BY <1>1, <1>7, FindStays DEF y
  <2> QED
    BY <1>4, <2>1
<1> QED
  BY <1>4, <1>5, <1>6, <1>7 DEF y
-----------------------------------------------------------------------------
\* UnionFind.find halves the path that it walks (threads.py, line 48), which Find leaves out:
\* one halving leaves a forest, in which every id has the root that it had.
THEOREM HalvingFindsTheSame ==
  ASSUME NEW parent, IsForest(parent), NEW x \in Mids
  PROVE  LET halved == [parent EXCEPT ![x] = parent[parent[x]]]
         IN  IsForest(halved) /\ \A y \in Mids : Find(halved, y) = Find(parent, y)
<1> DEFINE halved == [parent EXCEPT ![x] = parent[parent[x]]]
           top == [y \in Mids |-> Find(parent, y)]
<1>1. parent \in [Mids -> Mids]
  BY DEF IsForest
<1>2. PICK rank \in [Mids -> Nat] : Ranks(parent, rank)
  BY DEF IsForest
<1>3. halved \in [Mids -> Mids] /\ halved[x] = parent[parent[x]]
      /\ \A y \in Mids : y # x => halved[y] = parent[y]
  BY <1>1
<1>4. top \in [Mids -> Mids] /\ \A y \in Mids : top[y] = Find(parent, y)
  BY FindIsRoot
<1>5. \A y \in Mids : top[parent[y]] = top[y] /\ (parent[y] = y => top[y] = y)
  BY <1>1, <1>4, FindOfParent
<1> HIDE DEF halved, top
<1>6. Ranks(halved, rank)
  <2> SUFFICES ASSUME NEW y \in Mids, halved[y] # y PROVE rank[y] < rank[halved[y]]
    BY DEF Ranks
  <2>1. CASE y # x
    BY <1>2, <1>3, <2>1 DEF Ranks
  <2>2. CASE y = x
    <3>1. parent[x] # x
      BY <1>3, <2>2
    <3>2. parent[x] \in Mids /\ rank[x] < rank[parent[x]]
      BY <1>1, <1>2, <3>1 DEF Ranks
    <3>3. parent[parent[x]] = parent[x] \/ rank[parent[x]] < rank[parent[parent[x]]]
      BY <1>2, <3>2 DEF Ranks
    <3>4. parent[parent[x]] \in Mids
      BY <1>1, <3>2
    <3> QED
      BY <1>2, <1>3, <2>2, <3>2, <3>3, <3>4
  <2> QED
    BY <2>1, <2>2
<1>7. IsForest(halved)
  BY <1>2, <1>3, <1>6 DEF IsForest
<1>8. \A y \in Mids : top[halved[y]] = top[y] /\ (halved[y] = y => top[y] = y)
  <2> SUFFICES ASSUME NEW y \in Mids
               PROVE  top[halved[y]] = top[y] /\ (halved[y] = y => top[y] = y)
    OBVIOUS
  <2>1. CASE y # x
    BY <1>3, <1>5, <2>1
  <2>2. CASE y = x
    <3>1. parent[x] \in Mids /\ top[parent[parent[x]]] = top[x]
      BY <1>1, <1>5
    <3>2. ASSUME halved[x] = x PROVE parent[x] = x
      <4>1. parent[parent[x]] = x
        BY <1>3, <3>2
      <4>2. parent[x] # x => rank[x] < rank[parent[x]] /\ rank[parent[x]] < rank[x]
        BY <1>2, <3>1, <4>1 DEF Ranks
      <4>3. rank[x] \in Nat /\ rank[parent[x]] \in Nat
        BY <1>2, <3>1
      <4> QED
        BY <4>2, <4>3
    <3> QED
      BY <1>3, <1>5, <2>2, <3>1, <3>2
  <2> QED
    BY <2>1, <2>2
<1>9. \A y \in Mids : Find(halved, y) = top[y]
  BY <1>4, <1>7, <1>8, FindIs
<1> QED
  BY <1>4, <1>7, <1>9 DEF halved

\* A union makes one root the parent of the other.
LEMMA UnionFinds ==
  ASSUME NEW parent, IsForest(parent), NEW a \in Mids, NEW b \in Mids
  PROVE  /\ IsForest(Union(parent, a, b))
         /\ \A y \in Mids : Find(Union(parent, a, b), y) =
              IF Find(parent, y) = Find(parent, a) THEN Find(parent, b) ELSE Find(parent, y)
<1> DEFINE ra == Find(parent, a)
           rb == Find(parent, b)
           new == [parent EXCEPT ![ra] = rb]
           top == [y \in Mids |-> IF Find(parent, y) = ra THEN rb ELSE Find(parent, y)]
<1>1. parent \in [Mids -> Mids]
  BY DEF IsForest
<1>2. PICK rank \in [Mids -> Nat] : Ranks(parent, rank)
  BY DEF IsForest
<1>3. ra \in Mids /\ rb \in Mids /\ parent[ra] = ra /\ parent[rb] = rb
  BY FindIsRoot
<1>4. Find(parent, ra) = ra /\ Find(parent, rb) = rb
  BY <1>3, FindOfParent
<1>5. Union(parent, a, b) = new
  BY DEF Union
<1>6. top \in [Mids -> Mids]
      /\ \A y \in Mids : top[y] = IF Find(parent, y) = ra THEN rb ELSE Find(parent, y)
  BY <1>3, FindIsRoot
<1> HIDE DEF ra, rb, top
<1>7. new \in [Mids -> Mids] /\ new[ra] = rb /\ \A y \in Mids : y # ra => new[y] = parent[y]
  BY <1>1, <1>3
<1> HIDE DEF new
<1>8. IsForest(new)
  <2>1. CASE ra = rb
    <3>1. \A y \in Mids : new[y] = parent[y]
      BY <1>3, <1>7, <2>1
    <3>2. Ranks(new, rank)
      BY <1>2, <3>1 DEF Ranks
    <3> QED
      BY <1>2, <1>7, <3>2 DEF IsForest
  <2>2. CASE ra # rb
    <3> DEFINE up == [rank EXCEPT ![rb] = IF rank[rb] > rank[ra] THEN rank[rb] ELSE rank[ra] + 1]
    <3>1. up \in [Mids -> Nat] /\ up[rb] > rank[ra] /\ up[rb] >= rank[rb]
          /\ \A y \in Mids : y # rb => up[y] = rank[y]
      BY <1>2, <1>3
    <3> HIDE DEF up
    <3>2. Ranks(new, up)
      <4> SUFFICES ASSUME NEW y \in Mids, new[y] # y PROVE up[y] < up[new[y]]
        BY DEF Ranks
      <4>1. CASE y = ra
        BY <1>7, <2>2, <3>1, <4>1
      <4>2. CASE y # ra
        <5>1. new[y] = parent[y] /\ parent[y] # y /\ parent[y] \in Mids
          BY <1>1, <1>7, <4>2
        <5>2. y # rb /\ up[y] = rank[y]
          BY <1>3, <3>1, <5>1
        <5>3. rank[y] < rank[parent[y]]
          BY <1>2, <5>1 DEF Ranks
        <5>4. rank[y] \in Nat /\ rank[parent[y]] \in Nat /\ up[parent[y]] \in Nat
              /\ up[parent[y]] >= rank[parent[y]]
          BY <1>2, <3>1, <5>1
        <5> QED
          BY <5>1, <5>2, <5>3, <5>4
      <4> QED
        BY <4>1, <4>2
    <3> QED
      BY <1>7, <3>1, <3>2 DEF IsForest
  <2> QED
    BY <2>1, <2>2
<1>9. \A y \in Mids : top[new[y]] = top[y] /\ (new[y] = y => top[y] = y)
  <2> SUFFICES ASSUME NEW y \in Mids
               PROVE  top[new[y]] = top[y] /\ (new[y] = y => top[y] = y)
    OBVIOUS
  <2>1. CASE y = ra
    BY <1>3, <1>4, <1>6, <1>7, <2>1
  <2>2. CASE y # ra
    <3>1. new[y] = parent[y] /\ parent[y] \in Mids
      BY <1>1, <1>7, <2>2
    <3>2. Find(parent, parent[y]) = Find(parent, y) /\ (parent[y] = y => Find(parent, y) = y)
      BY FindOfParent
    <3> QED
      BY <1>6, <2>2, <3>1, <3>2
  <2> QED
    BY <2>1, <2>2
<1>10. \A y \in Mids : Find(new, y) = top[y]
  BY <1>6, <1>8, <1>9, FindIs
<1> QED
  BY <1>5, <1>6, <1>8, <1>10 DEF ra, rb
-----------------------------------------------------------------------------
\* The forest links what a set of links does: no root is reached from both sides of a set
\* that the links leave closed, and the ends of each link have one root.
Respects(ids, links) == \A l \in links : l[1] \in ids <=> l[2] \in ids
Represents(parent, links) ==
  /\ IsForest(parent)
  /\ \A l \in links : Find(parent, l[1]) = Find(parent, l[2])
  /\ \A ids \in SUBSET Mids : Respects(ids, links) =>
        \A x \in Mids : x \in ids <=> Find(parent, x) \in ids

LEMMA UnionRepresents ==
  ASSUME NEW parent, NEW links \in SUBSET (Mids \X Mids), Represents(parent, links),
         NEW a \in Mids, NEW b \in Mids
  PROVE  Represents(Union(parent, a, b), links \cup {<<a, b>>})
<1> DEFINE new == Union(parent, a, b)
           more == links \cup {<<a, b>>}
<1>1. IsForest(parent)
  BY DEF Represents
<1>2. IsForest(new)
      /\ \A y \in Mids : Find(new, y) =
           IF Find(parent, y) = Find(parent, a) THEN Find(parent, b) ELSE Find(parent, y)
  BY <1>1, UnionFinds
<1> HIDE DEF new
<1>3. ASSUME NEW l \in more PROVE Find(new, l[1]) = Find(new, l[2])
  <2>1. CASE l \in links
    <3>1. l[1] \in Mids /\ l[2] \in Mids /\ Find(parent, l[1]) = Find(parent, l[2])
      BY <2>1 DEF Represents
    <3> QED
      BY <1>2, <3>1
  <2>2. CASE l = <<a, b>>
    BY <1>2, <2>2
  <2> QED
    BY <1>3, <2>1, <2>2
<1>4. ASSUME NEW ids \in SUBSET Mids, Respects(ids, more), NEW x \in Mids
      PROVE  x \in ids <=> Find(new, x) \in ids
  <2>1. Respects(ids, links) /\ (a \in ids <=> b \in ids)
    <3>1. <<a, b>> \in more /\ <<a, b>>[1] = a /\ <<a, b>>[2] = b /\ links \subseteq more
      OBVIOUS
    <3> HIDE DEF more
    <3> QED
      BY <1>4, <3>1 DEF Respects
  <2>2. \A y \in Mids : y \in ids <=> Find(parent, y) \in ids
    BY <2>1 DEF Represents
  <2> QED
    BY <1>2, <2>1, <2>2
<1> QED
  BY <1>2, <1>3, <1>4 DEF Represents, new

LEMMA SinglesRepresent == Represents([m \in Mids |-> m], {})
<1> DEFINE id == [m \in Mids |-> m]
<1>1. id \in [Mids -> Mids] /\ \A x \in Mids : id[x] = x
  OBVIOUS
<1>2. [m \in Mids |-> 0] \in [Mids -> Nat]
  OBVIOUS
<1> HIDE DEF id
<1>3. IsForest(id)
  BY <1>1, <1>2 DEF IsForest, Ranks
<1>4. \A x \in Mids : Find(id, x) = x
  BY <1>1, <1>3, FindOfParent
<1> QED
  BY <1>3, <1>4 DEF Represents, id

\* The links of the first references of a message, and of a set of messages.
LinksTo(m, n) == {<<Mid[m], References[m][j]>> : j \in 1..n}
LinksOf(mails) == UNION {LinksTo(m, Len(References[m])) : m \in mails}

LEMMA MailTypes ==
  ASSUME NEW m \in Mails
  PROVE  /\ Mid[m] \in Mids /\ References[m] \in Seq(Mids) /\ Len(References[m]) \in Nat
         /\ \A j \in 1..Len(References[m]) : References[m][j] \in Mids
  BY MailConstants

LEMMA UnionType ==
  ASSUME NEW parent \in [Mids -> Mids], NEW a \in Mids, NEW b \in Mids
  PROVE  Union(parent, a, b) \in [Mids -> Mids]
<1>1. Find(parent, b) \in Mids
  BY FindStays
<1> QED
  BY <1>1 DEF Union

\* The unions of a message, one after the other.
LEMMA JoinedIs ==
  ASSUME NEW parent \in [Mids -> Mids], NEW m \in Mails
  PROVE  \E f \in [0..Len(References[m]) -> [Mids -> Mids]] :
           /\ f[0] = parent
           /\ \A j \in 1..Len(References[m]) : f[j] = Union(f[j - 1], Mid[m], References[m][j])
           /\ Joined(parent, m) = f[Len(References[m])]
<1> DEFINE n == Len(References[m])
           S == [Mids -> Mids]
           step == [j \in 1..n |-> [p \in S |-> Union(p, Mid[m], References[m][j])]]
           Is(f) == f = [j \in 0..n |-> IF j = 0 THEN parent
                                         ELSE Union(f[j - 1], Mid[m], References[m][j])]
           up == CHOOSE f : Is(f)
<1>1. n \in Nat /\ Mid[m] \in Mids /\ \A j \in 1..n : References[m][j] \in Mids
  BY MailTypes
<1>2. \A j \in 1..n, p \in S : Union(p, Mid[m], References[m][j]) \in S
  BY <1>1, UnionType
<1>3. step \in [1..n -> [S -> S]]
      /\ \A j \in 1..n, p \in S : step[j][p] = Union(p, Mid[m], References[m][j])
  BY <1>2
<1>4. Joined(parent, m) = up[n]
  BY DEF Joined
<1> HIDE DEF n, S, step
<1>5. parent \in S
  BY DEF S
<1>6. PICK g \in [0..n -> S] : Recurs(g, n, parent, step)
  BY <1>1, <1>3, <1>5, Recursion
<1>7. g[0] = parent /\ \A j \in 1..n : g[j - 1] \in S /\ g[j] = Union(g[j - 1], Mid[m], References[m][j])
  <2>1. \A j \in 1..n : j - 1 \in 0..n
    BY <1>1
  <2> QED
    BY <1>1, <1>3, <1>6, <2>1 DEF Recurs
<1>8. Is(g)
  BY <1>1, <1>6, <1>7
<1>9. Is(up)
  <2> HIDE DEF Is
  <2> QED
    BY <1>8
<1> HIDE DEF up
<1>10. up = [j \in 0..n |-> IF j = 0 THEN parent ELSE Union(up[j - 1], Mid[m], References[m][j])]
  BY <1>9
<1>11. up[0] = parent /\ \A j \in 1..n : up[j] = Union(up[j - 1], Mid[m], References[m][j])
  BY <1>1, <1>10
<1>12. \A j \in 0..n : up[j] \in S
  <2> DEFINE In == {j \in 0..n : up[j] \in S}
  <2>1. 0 \in In
    BY <1>1, <1>5, <1>11
  <2>2. \A j \in 1..n : j - 1 \in In => j \in In
    BY <1>1, <1>2, <1>11
  <2> HIDE DEF In
  <2>3. 0..n \subseteq In
    BY <1>1, <2>1, <2>2, InductionUpTo
  <2> QED
    BY <2>3 DEF In
<1>13. up \in [0..n -> S]
  BY <1>10, <1>12
<1> QED
  BY <1>4, <1>11, <1>13 DEF n, S
LEMMA JoinedRepresents ==
  ASSUME NEW parent, NEW m \in Mails, NEW links \in SUBSET (Mids \X Mids),
         Represents(parent, links)
  PROVE  Represents(Joined(parent, m), links \cup LinksTo(m, Len(References[m])))
<1> DEFINE n == Len(References[m])
<1>1. parent \in [Mids -> Mids]
  BY DEF Represents, IsForest
<1>2. n \in Nat /\ Mid[m] \in Mids /\ \A j \in 1..n : References[m][j] \in Mids
  BY MailTypes
<1>3. PICK f \in [0..n -> [Mids -> Mids]] :
        /\ f[0] = parent
        /\ \A j \in 1..n : f[j] = Union(f[j - 1], Mid[m], References[m][j])
        /\ Joined(parent, m) = f[n]
  BY <1>1, JoinedIs
<1> HIDE DEF n
<1> DEFINE In == {j \in 0..n : Represents(f[j], links \cup LinksTo(m, j))}
<1>4. 0 \in In
  <2>1. links \cup LinksTo(m, 0) = links
    BY DEF LinksTo
  <2>2. Represents(f[0], links \cup LinksTo(m, 0))
    BY <1>3, <2>1
  <2>3. 0 \in 0..n
    BY <1>2
  <2> QED
    BY <2>2, <2>3
<1>5. ASSUME NEW j \in 1..n, j - 1 \in In PROVE j \in In
  <2> DEFINE before == links \cup LinksTo(m, j - 1)
  <2>1. before \in SUBSET (Mids \X Mids)
    <3>1. \A k \in 1..(j - 1) : k \in 1..n
      BY <1>2
    <3> QED
      BY <1>2, <3>1 DEF LinksTo
  <2>2. Represents(f[j - 1], before)
    BY <1>5
  <2>3. links \cup LinksTo(m, j) = before \cup {<<Mid[m], References[m][j]>>}
    <3>1. 1..j = 1..(j - 1) \cup {j}
      BY <1>2
    <3> QED
      BY <3>1 DEF LinksTo
  <2> HIDE DEF before
  <2>4. Represents(Union(f[j - 1], Mid[m], References[m][j]), before \cup {<<Mid[m], References[m][j]>>})
    BY <1>2, <2>1, <2>2, UnionRepresents
  <2>5. Represents(f[j], links \cup LinksTo(m, j))
    BY <1>3, <2>3, <2>4
  <2>6. j \in 0..n
    BY <1>2
  <2> QED
    BY <2>5, <2>6
<1> HIDE DEF In
<1>6. 0..n \subseteq In
  BY <1>2, <1>4, <1>5, InductionUpTo
<1>7. n \in In
  BY <1>2, <1>6
<1> QED
  BY <1>3, <1>7 DEF In, n

\* The messages of a batch, one after the other.
LEMMA ForestIs ==
  ASSUME NEW batch \in Seq(Mails)
  PROVE  \E f : /\ f[0] = [m \in Mids |-> m]
                /\ \A i \in 1..Len(batch) : f[i] = Joined(f[i - 1], batch[i])
                /\ Forest(batch) = f[Len(batch)]
<1> DEFINE n == Len(batch)
           S == [Mids -> Mids]
           id == [m \in Mids |-> m]
           step == [i \in 1..n |-> [p \in S |-> Joined(p, batch[i])]]
           Is(f) == f = [i \in 0..n |-> IF i = 0 THEN [m \in Mids |-> m]
                                         ELSE Joined(f[i - 1], batch[i])]
           up == CHOOSE f : Is(f)
<1>1. n \in Nat /\ \A i \in 1..n : batch[i] \in Mails
  OBVIOUS
<1>2. \A m \in Mails, p \in S : Joined(p, m) \in S
  <2> TAKE m \in Mails, p \in S
  <2>1. PICK f \in [0..Len(References[m]) -> [Mids -> Mids]] : Joined(p, m) = f[Len(References[m])]
    BY JoinedIs
  <2>2. Len(References[m]) \in 0..Len(References[m])
    BY MailTypes
  <2> QED
    BY <2>1, <2>2
<1>3. step \in [1..n -> [S -> S]] /\ \A i \in 1..n, p \in S : step[i][p] = Joined(p, batch[i])
  BY <1>1, <1>2
<1>4. Forest(batch) = up[n]
  BY DEF Forest
<1>5. id \in S
  OBVIOUS
<1> HIDE DEF n, S, step
<1>6. PICK g \in [0..n -> S] : Recurs(g, n, id, step)
  <2> HIDE DEF id
  <2> QED
    BY <1>1, <1>3, <1>5, Recursion
<1>7. g[0] = id /\ \A i \in 1..n : g[i] = Joined(g[i - 1], batch[i])
  <2>1. \A i \in 1..n : i - 1 \in 0..n /\ g[i - 1] \in S
    BY <1>1, <1>6
  <2> QED
    BY <1>1, <1>3, <1>6, <2>1 DEF Recurs
<1>8. Is(g)
  BY <1>1, <1>6, <1>7
<1>9. Is(up)
  <2> HIDE DEF Is
  <2> QED
    BY <1>8
<1> HIDE DEF up
<1>10. up = [i \in 0..n |-> IF i = 0 THEN [m \in Mids |-> m] ELSE Joined(up[i - 1], batch[i])]
  BY <1>9
<1>11. up[0] = [m \in Mids |-> m] /\ \A i \in 1..n : up[i] = Joined(up[i - 1], batch[i])
  BY <1>1, <1>10
<1> QED
  BY <1>4, <1>11 DEF n

LEMMA LinksOfType == ASSUME NEW mails \in SUBSET Mails PROVE LinksOf(mails) \in SUBSET (Mids \X Mids)
<1> SUFFICES ASSUME NEW m \in mails PROVE LinksTo(m, Len(References[m])) \subseteq Mids \X Mids
  BY DEF LinksOf
<1> QED
  BY MailTypes DEF LinksTo

LEMMA ForestRepresents ==
  ASSUME NEW batch \in Seq(Mails)
  PROVE  Represents(Forest(batch), LinksOf(Range(batch)))
<1> DEFINE n == Len(batch)
           First(i) == {batch[k] : k \in 1..i}
<1>1. n \in Nat /\ (\A i \in 1..n : batch[i] \in Mails) /\ Range(batch) = First(n)
  BY DEF Range
<1>2. PICK f : /\ f[0] = [m \in Mids |-> m]
               /\ \A i \in 1..n : f[i] = Joined(f[i - 1], batch[i])
               /\ Forest(batch) = f[n]
  BY ForestIs
<1> HIDE DEF n
<1> DEFINE In == {i \in 0..n : Represents(f[i], LinksOf(First(i)))}
<1>3. 0 \in In
  <2>1. LinksOf(First(0)) = {}
    BY DEF LinksOf
  <2>2. Represents(f[0], LinksOf(First(0)))
    BY <1>2, <2>1, SinglesRepresent
  <2>3. 0 \in 0..n
    BY <1>1
  <2> QED
    BY <2>2, <2>3
<1>4. ASSUME NEW i \in 1..n, i - 1 \in In PROVE i \in In
  <2>1. First(i) = First(i - 1) \cup {batch[i]}
    <3>1. 1..i = 1..(i - 1) \cup {i}
      BY <1>1
    <3> QED
      BY <3>1
  <2>2. First(i - 1) \in SUBSET Mails /\ batch[i] \in Mails
    BY <1>1
  <2>3. Represents(f[i - 1], LinksOf(First(i - 1)))
    BY <1>4
  <2> HIDE DEF First
  <2>4. LinksOf(First(i)) = LinksOf(First(i - 1)) \cup LinksTo(batch[i], Len(References[batch[i]]))
    BY <2>1 DEF LinksOf
  <2>5. Represents(Joined(f[i - 1], batch[i]), LinksOf(First(i)))
    BY <2>2, <2>3, <2>4, LinksOfType, JoinedRepresents
  <2> QED
    BY <1>1, <1>2, <2>5 DEF First
<1> HIDE DEF In
<1>5. 0..n \subseteq In
  BY <1>1, <1>3, <1>4, InductionUpTo
<1>6. n \in In
  BY <1>1, <1>5
<1>7. Represents(f[n], LinksOf(First(n)))
  BY <1>6 DEF In
<1> QED
  BY <1>1, <1>2, <1>7

-----------------------------------------------------------------------------
LEMMA ClosedIs ==
  ASSUME NEW mails \in SUBSET Mails, NEW ids
  PROVE  Closed(ids, mails) <=> Respects(ids, LinksOf(mails))
<1>1. ASSUME Closed(ids, mails), NEW l \in LinksOf(mails) PROVE l[1] \in ids <=> l[2] \in ids
  <2>1. PICK m \in mails : l \in LinksTo(m, Len(References[m]))
    BY DEF LinksOf
  <2>2. PICK j \in 1..Len(References[m]) : l = <<Mid[m], References[m][j]>>
    BY <2>1 DEF LinksTo
  <2>3. j \in DOMAIN References[m]
    BY MailTypes
  <2> QED
    BY <1>1, <2>2, <2>3 DEF Closed
<1>2. ASSUME Respects(ids, LinksOf(mails)), NEW m \in mails, NEW j \in DOMAIN References[m]
      PROVE  Mid[m] \in ids <=> References[m][j] \in ids
  <2>1. j \in 1..Len(References[m])
    BY MailTypes
  <2>2. <<Mid[m], References[m][j]>> \in LinksOf(mails)
    BY <2>1 DEF LinksOf, LinksTo
  <2>3. <<Mid[m], References[m][j]>>[1] = Mid[m] /\ <<Mid[m], References[m][j]>>[2] = References[m][j]
    OBVIOUS
  <2> QED
    BY <1>2, <2>2, <2>3 DEF Respects
<1> QED
  BY <1>1, <1>2 DEF Closed, Respects

\* The roots of a batch are typed, and equal exactly for ids that its headers link.
LEMMA RootsFollow ==
  ASSUME NEW batch \in Seq(Mails)
  PROVE  /\ Roots(batch) \in [Mids -> Mids]
         /\ \A x, y \in Mids : Roots(batch)[x] = Roots(batch)[y] <=> Linked(x, y, Range(batch))
         /\ \A x \in Mids : Linked(x, Roots(batch)[x], Range(batch))
<1> DEFINE parent == Forest(batch)
           mails == Range(batch)
           root == Roots(batch)
<1>1. mails \in SUBSET Mails
  BY DEF Range
<1>2. Represents(parent, LinksOf(mails))
  BY ForestRepresents
<1>3. IsForest(parent)
  BY <1>2 DEF Represents
<1>4. \A x \in Mids : Find(parent, x) \in Mids
  BY <1>3, FindIsRoot
<1>5. root = [m \in Mids |-> Find(parent, m)]
  BY DEF Roots
<1> HIDE DEF parent, mails, root
<1>6. root \in [Mids -> Mids] /\ \A x \in Mids : root[x] = Find(parent, x)
  BY <1>4, <1>5
<1>7. ASSUME NEW ids \in SUBSET Mids, Closed(ids, mails), NEW x \in Mids
      PROVE  x \in ids <=> root[x] \in ids
  BY <1>1, <1>2, <1>6, <1>7, ClosedIs DEF Represents
<1>8. ASSUME NEW x \in Mids, NEW y \in Mids, Linked(x, y, mails) PROVE root[x] = root[y]
  <2> DEFINE ids == {z \in Mids : root[z] = root[x]}
  <2>1. Respects(ids, LinksOf(mails))
    <3> SUFFICES ASSUME NEW l \in LinksOf(mails) PROVE l[1] \in ids <=> l[2] \in ids
      BY DEF Respects
    <3>1. l[1] \in Mids /\ l[2] \in Mids
      BY <1>1, LinksOfType
    <3>2. Find(parent, l[1]) = Find(parent, l[2])
      BY <1>2 DEF Represents
    <3> QED
      BY <1>6, <3>1, <3>2
  <2>2. Closed(ids, mails) /\ ids \in SUBSET Mids /\ x \in ids
    BY <1>1, <2>1, ClosedIs
  <2>3. y \in ids
    BY <1>8, <2>2 DEF Linked
  <2> QED
    BY <2>3
<1>9. ASSUME NEW x \in Mids, NEW y \in Mids, root[x] = root[y] PROVE Linked(x, y, mails)
  BY <1>7, <1>9 DEF Linked
<1>10. \A x \in Mids : Linked(x, root[x], mails)
  BY <1>7 DEF Linked
<1> QED
  BY <1>6, <1>8, <1>9, <1>10 DEF mails, root

-----------------------------------------------------------------------------
\* The listing that the cap cuts.
LEMMA SlicedIsKept ==
  ASSUME NEW ids \in Seq(Mails), NEW cap \in Nat
  PROVE  /\ Sliced(ids, cap) \in Seq(Mails)
         /\ Len(Sliced(ids, cap)) <= cap => Sliced(ids, cap) = ids
         /\ Len(ids) <= cap => Sliced(ids, cap) = ids
<1>1. CASE Len(ids) <= cap + 1
  BY <1>1 DEF Sliced
<1>2. CASE Len(ids) > cap + 1
  <2>1. Sliced(ids, cap) = SubSeq(ids, 1, cap + 1)
    BY <1>2 DEF Sliced
  <2>2. SubSeq(ids, 1, cap + 1) \in Seq(Mails) /\ Len(SubSeq(ids, 1, cap + 1)) = cap + 1
    BY <1>2
  <2> QED
    BY <1>2, <2>1, <2>2
<1> QED
  BY <1>1, <1>2

-----------------------------------------------------------------------------
\* A listing: each hit once, at the place of its rank.
HitsOf(q) == {i \in 1..Len(gmail) : Hits(q, i)}

LEMMA NewestLists ==
  ASSUME gmail \in Seq(Mails), NEW q
  PROVE  /\ Newest(q) \in Seq(Mails)
         /\ \A k \in 1..Len(Newest(q)) : \E i \in HitsOf(q) : Newest(q)[k] = gmail[i]
         /\ \A i \in HitsOf(q) : \E k \in 1..Len(Newest(q)) : Newest(q)[k] = gmail[i]
<1> DEFINE hits == HitsOf(q)
           c == Cardinality(hits)
           newer(i) == {j \in hits : j >= i}
           rank == [i \in hits |-> Cardinality(newer(i))]
           nth(k) == CHOOSE i \in hits : rank[i] = k
<1>1. Len(gmail) \in Nat /\ hits \in SUBSET (1..Len(gmail))
  BY DEF HitsOf
<1>2. IsFiniteSet(hits) /\ c \in Nat
  <2>1. IsFiniteSet(1..Len(gmail))
    BY <1>1, FS_Interval
  <2> HIDE DEF hits
  <2> QED
    BY <1>1, <2>1, FS_Subset, FS_CardinalityType
<1>3. Newest(q) = [k \in 1..c |-> gmail[CHOOSE i \in hits : Cardinality(newer(i)) = k]]
  BY DEF Newest, HitsOf
<1> HIDE DEF hits
<1>4. \A i \in hits : /\ newer(i) \in SUBSET hits /\ IsFiniteSet(newer(i))
                       /\ rank[i] \in 1..c
  <2> TAKE i \in hits
  <2>1. newer(i) \in SUBSET hits /\ i \in newer(i)
    BY <1>1
  <2>2. IsFiniteSet(newer(i)) /\ Cardinality(newer(i)) <= c
    BY <1>2, <2>1, FS_Subset
  <2>3. Cardinality(newer(i)) \in Nat /\ Cardinality(newer(i)) # 0
    BY <2>1, <2>2, FS_CardinalityType, FS_EmptySet
  <2> QED
    BY <1>2, <2>1, <2>2, <2>3
<1>5. ASSUME NEW i \in hits, NEW j \in hits, i < j PROVE rank[j] < rank[i]
  <2>1. newer(j) \in SUBSET newer(i) /\ newer(i) # newer(j)
    <3>1. \A k \in hits : k \in Int
      BY <1>1
    <3>2. i \in newer(i) /\ i \notin newer(j)
      BY <1>5, <3>1
    <3>3. \A k \in newer(j) : k \in newer(i)
      BY <1>5, <3>1
    <3> QED
      BY <3>2, <3>3
  <2>2. Cardinality(newer(j)) <= Cardinality(newer(i))
        /\ Cardinality(newer(j)) # Cardinality(newer(i))
    BY <1>4, <2>1, FS_Subset
  <2>3. rank[i] = Cardinality(newer(i)) /\ rank[j] = Cardinality(newer(j))
    OBVIOUS
  <2>4. rank[i] \in 1..c /\ rank[j] \in 1..c
    BY <1>4
  <2> QED
    BY <1>2, <2>2, <2>3, <2>4
<1>6. \A i, j \in hits : rank[i] = rank[j] => i = j
  <2> SUFFICES ASSUME NEW i \in hits, NEW j \in hits, i # j PROVE rank[i] # rank[j]
    OBVIOUS
  <2>1. i < j \/ j < i
    BY <1>1
  <2>2. rank[i] \in 1..c /\ rank[j] \in 1..c
    BY <1>4
  <2> HIDE DEF rank, c
  <2> QED
    BY <1>2, <1>5, <2>1, <2>2
<1>7. \A k \in 1..c : \E i \in hits : rank[i] = k
  <2>1. rank \in [hits -> 1..c]
    BY <1>4
  <2> HIDE DEF rank, c
  <2>2. rank \in Injection(hits, 1..c)
    BY <1>6, <2>1 DEF Injection, IsInjective
  <2>3. IsFiniteSet(1..c) /\ Cardinality(1..c) = c
    BY <1>2, FS_Interval
  <2>4. rank \in Surjection(hits, 1..c)
    BY <2>2, <2>3, FS_Injection DEF c
  <2> QED
    BY <2>4 DEF Surjection
<1>8. \A k \in 1..c : nth(k) \in hits /\ rank[nth(k)] = k
  <2> HIDE DEF rank
  <2> QED
    BY <1>7
<1>9. Newest(q) = [k \in 1..c |-> gmail[nth(k)]]
  <2>1. \A k \in 1..c : (CHOOSE i \in hits : Cardinality(newer(i)) = k) = nth(k)
    <3> TAKE k \in 1..c
    <3>1. \A i \in hits : rank[i] = Cardinality(newer(i))
      OBVIOUS
    <3> HIDE DEF newer, rank
    <3> QED
      BY <3>1
  <2> QED
    BY <1>3, <2>1
<1> HIDE DEF nth
<1>10. \A k \in 1..c : gmail[nth(k)] \in Mails
  <2>1. \A i \in hits : gmail[i] \in Mails
    BY <1>1
  <2> HIDE DEF c, rank
  <2> QED
    BY <1>8, <2>1
<1>11. Newest(q) \in Seq(Mails) /\ Len(Newest(q)) = c /\ \A k \in 1..c : Newest(q)[k] = gmail[nth(k)]
  <2> HIDE DEF c
  <2> QED
    BY <1>2, <1>9, <1>10
<1>12. \A i \in hits : nth(rank[i]) = i /\ rank[i] \in 1..c
  <2> TAKE i \in hits
  <2>1. rank[i] \in 1..c
    BY <1>4
  <2> HIDE DEF rank
  <2> QED
    BY <1>6, <1>8, <2>1
<1> HIDE DEF rank, c
<1>13. \A k \in 1..c : \E i \in hits : Newest(q)[k] = gmail[i]
  BY <1>8, <1>11
<1>14. \A i \in hits : \E k \in 1..c : Newest(q)[k] = gmail[i]
  BY <1>11, <1>12
<1> QED
  BY <1>11, <1>13, <1>14 DEF hits

-----------------------------------------------------------------------------
(***************************************************************************)
(* Types, listings and threads, however many runs overlap.                 *)
(***************************************************************************)
Inside(w, upto) ==
  {i \in 1..upto : (w.from # 0 => DayOf(i) >= w.from) /\ (w.to # 0 => DayOf(i) <= w.to)}

\* What a windowed run has listed.
ListsWindow(r) ==
  r.at \in {"listed", "fetched"} /\ IsWindowed(r.window) =>
    /\ r.read <= Len(gmail)
    /\ \A k \in 1..Len(r.ids) : \E i \in Inside(r.window, r.read) : r.ids[k] = gmail[i]
    /\ ~HitCap(r) => \A i \in Inside(r.window, r.read) : \E k \in 1..Len(r.ids) : r.ids[k] = gmail[i]

\* A run lists what has arrived; one with a window does not continue from a token.
RunHolds(r) ==
  /\ \A k \in 1..Len(r.ids) : r.ids[k] \in Range(gmail)
  /\ r.since > 0 => ~IsWindowed(r.window)
  /\ ListsWindow(r)

\* A stored message is in the thread of an id that mail links it to.
ThreadsLink ==
  \A x \in message : threadOf[x] \in Mids /\ Linked(x, threadOf[x], Range(gmail))

StoreInv == TypeOK /\ (\A a \in Runners : RunHolds(run[a])) /\ ThreadsLink

LEMMA LinkedGrows ==
  ASSUME NEW x, NEW y, NEW few, NEW many, few \subseteq many, Linked(x, y, few)
  PROVE  Linked(x, y, many)
  BY DEF Linked, Closed

\* The complement of a closed set is closed, so links have no direction.
LEMMA LinkedBack ==
  ASSUME NEW mails \in SUBSET Mails, NEW x \in Mids, NEW y \in Mids, Linked(x, y, mails)
  PROVE  Linked(y, x, mails)
<1> SUFFICES ASSUME NEW ids \in SUBSET Mids, Closed(ids, mails), y \in ids, x \notin ids
             PROVE  FALSE
  BY DEF Linked
<1>1. Closed(Mids \ ids, mails)
  <2> SUFFICES ASSUME NEW m \in mails, NEW j \in DOMAIN References[m]
               PROVE  Mid[m] \in Mids \ ids <=> References[m][j] \in Mids \ ids
    BY DEF Closed
  <2>1. Mid[m] \in Mids /\ References[m][j] \in Mids
    BY MailTypes
  <2>2. Mid[m] \in ids <=> References[m][j] \in ids
    BY DEF Closed
  <2> QED
    BY <2>1, <2>2
<1>2. y \in Mids \ ids
  BY <1>1 DEF Linked
<1> QED
  BY <1>2

LEMMA LinkedOn ==
  ASSUME NEW x, NEW y, NEW z, NEW mails, Linked(x, y, mails), Linked(y, z, mails)
  PROVE  Linked(x, z, mails)
  BY DEF Linked

LEMMA KeptType ==
  ASSUME NEW r \in Run
  PROVE  /\ Kept(r) \in Seq(Mails)
         /\ \A m \in Range(Kept(r)) : \E k \in 1..Len(r.ids) : r.ids[k] = m
<1>1. r.ids \in Seq(Mails) /\ r.cap \in Nat
  BY MailConstants DEF Run
<1>2. CASE HitCap(r)
  <2>1. Len(r.ids) > r.cap
    BY <1>2 DEF HitCap
  <2>2. Kept(r) = SubSeq(r.ids, 1, r.cap)
    BY <1>2 DEF Kept
  <2>3. Kept(r) \in Seq(Mails) /\ DOMAIN Kept(r) = 1..r.cap
        /\ \A k \in 1..r.cap : Kept(r)[k] = r.ids[k]
    BY <1>1, <2>1, <2>2
  <2> QED
    BY <1>1, <2>1, <2>3 DEF Range
<1>3. CASE ~HitCap(r)
  BY <1>1, <1>3 DEF Kept, Range
<1> QED
  BY <1>2, <1>3

LEMMA IdleHolds == Idle \in Run /\ RunHolds(Idle) /\ RunHolds(Idle)'
<1>1. Open \in Windows /\ ~IsWindowed(Open)
  BY MailConstants DEF Open, Windows, IsWindowed
<1>2. <<>> \in Seq(Mails) /\ Len(<<>>) = 0
  OBVIOUS
<1>3. Idle \in Run
  BY <1>1, <1>2 DEF Idle, Run, Modes
<1> QED
  BY <1>2, <1>3 DEF Idle, RunHolds, ListsWindow

LEMMA StoreInit == Init => StoreInv
<1> SUFFICES ASSUME Init PROVE StoreInv
  OBVIOUS
<1>1. <<>> \in Seq(Mails)
  OBVIOUS
<1>2. TypeOK
  BY <1>1, IdleHolds DEF Init, TypeOK
<1>3. \A a \in Runners : RunHolds(run[a])
  BY IdleHolds DEF Init
<1> QED
  BY <1>2, <1>3 DEF Init, StoreInv, ThreadsLink

\* A runner takes another run record, and the rows stay.
LEMMA RunStepStores ==
  ASSUME StoreInv, NEW a \in Runners, NEW r \in Run, Goes(a, r), RunHolds(r),
         UNCHANGED <<gmail, message, threadOf, thread>>, token' \in Nat
  PROVE  StoreInv'
<1>1. run' \in [Runners -> Run] /\ run'[a] = r /\ \A b \in Runners : b # a => run'[b] = run[b]
  BY DEF StoreInv, TypeOK, Goes
<1>2. TypeOK'
  BY <1>1 DEF StoreInv, TypeOK
<1>3. (\A b \in Runners : RunHolds(run[b]))'
  <2> SUFFICES ASSUME NEW b \in Runners PROVE RunHolds(run[b])'
    OBVIOUS
  <2>1. gmail' = gmail /\ RunHolds(run'[b])
    BY <1>1 DEF StoreInv
  <2> QED
    BY <2>1 DEF RunHolds, ListsWindow, HitCap
<1>4. ThreadsLink'
  BY DEF StoreInv, ThreadsLink
<1> QED
  BY <1>2, <1>3, <1>4 DEF StoreInv

\* What the invariant says of a runner.
LEMMA RunnerHolds ==
  ASSUME StoreInv, NEW a \in Runners
  PROVE  /\ run[a] \in Run /\ RunHolds(run[a])
         /\ run[a].ids \in Seq(Mails) /\ run[a].cap \in Nat
         /\ gmail \in Seq(Mails) /\ Len(gmail) \in Nat /\ token \in Nat
<1>1. run[a] \in Run /\ gmail \in Seq(Mails) /\ token \in Nat /\ RunHolds(run[a])
  BY DEF StoreInv, TypeOK
<1>2. run[a].ids \in Seq(Mails) /\ run[a].cap \in Nat
  BY <1>1, MailConstants DEF Run
<1> QED
  BY <1>1, <1>2

LEMMA ArriveStores == ASSUME StoreInv, NEW m \in Mails, Arrive(m) PROVE StoreInv'
<1>1. /\ gmail' = Append(gmail, m) /\ gmail \in Seq(Mails)
      /\ UNCHANGED <<run, message, threadOf, thread, token>>
  BY DEF StoreInv, TypeOK, Arrive
<1>2. /\ gmail' \in Seq(Mails) /\ Len(gmail') = Len(gmail) + 1 /\ Len(gmail) \in Nat
      /\ \A i \in 1..Len(gmail) : gmail'[i] = gmail[i]
  BY <1>1
<1>3. Range(gmail) \subseteq Range(gmail)'
  <2> SUFFICES ASSUME NEW i \in DOMAIN gmail PROVE gmail[i] \in Range(gmail')
    BY DEF Range
  <2>1. i \in DOMAIN gmail' /\ gmail'[i] = gmail[i]
    BY <1>1, <1>2
  <2> QED
    BY <2>1 DEF Range
<1>4. TypeOK'
  BY <1>1, <1>2 DEF StoreInv, TypeOK
<1>5. (\A a \in Runners : RunHolds(run[a]))'
  <2> SUFFICES ASSUME NEW a \in Runners PROVE RunHolds(run[a])'
    OBVIOUS
  <2>1. run'[a] = run[a] /\ RunHolds(run[a]) /\ run[a].read \in Nat
    BY <1>1, RunnerHolds DEF Run
  <2> DEFINE r == run[a]
  <2> HIDE DEF r
  <2>2. (\A k \in 1..Len(r.ids) : r.ids[k] \in Range(gmail')) /\ (r.since > 0 => ~IsWindowed(r.window))
    BY <1>3, <2>1 DEF RunHolds, r
  <2>3. ASSUME r.at \in {"listed", "fetched"}, IsWindowed(r.window)
        PROVE  /\ r.read <= Len(gmail')
               /\ \A i \in Inside(r.window, r.read) : gmail'[i] = gmail[i]
    BY <1>2, <2>1, <2>3 DEF RunHolds, ListsWindow, Inside, r
  <2>4. ListsWindow(r)
    BY <2>1 DEF RunHolds, r
  <2>5. RunHolds(r)'
    <3>1. r' = r
      BY <2>1 DEF r
    <3>2. ListsWindow(r)'
      BY <2>3, <2>4, <3>1 DEF ListsWindow, HitCap
    <3> QED
      BY <2>2, <3>1, <3>2 DEF RunHolds
  <2> QED
    BY <2>5 DEF r
<1>6. ThreadsLink'
  <2> SUFFICES ASSUME NEW x \in message
               PROVE  threadOf[x] \in Mids /\ Linked(x, threadOf[x], Range(gmail'))
    BY <1>1 DEF ThreadsLink
  <2> QED
    BY <1>3, LinkedGrows DEF StoreInv, ThreadsLink
<1> QED
  BY <1>4, <1>5, <1>6 DEF StoreInv

LEMMA EndStores ==
  ASSUME StoreInv, NEW a \in Runners, Goes(a, Idle), UNCHANGED <<gmail, message, threadOf, thread>>,
         token' \in Nat
  PROVE  StoreInv'
  BY IdleHolds, RunStepStores

LEMMA BeginStores ==
  ASSUME StoreInv, NEW a \in Runners, NEW r \in Run, Goes(a, r),
         r.at = "begun", r.ids = <<>>, r.since > 0 => ~IsWindowed(r.window),
         UNCHANGED <<gmail, message, threadOf, thread, token>>
  PROVE  StoreInv'
<1>1. Len(<<>>) = 0
  OBVIOUS
<1>2. RunHolds(r)
  BY <1>1 DEF RunHolds, ListsWindow
<1>3. token' \in Nat
  BY DEF StoreInv, TypeOK
<1> QED
  BY <1>2, <1>3, RunStepStores

LEMMA BeginJobStores ==
  ASSUME StoreInv, NEW w \in Windows, NEW replace \in BOOLEAN, NEW cap \in Caps,
         BeginJob(w, replace, cap)
  PROVE  StoreInv'
<1> DEFINE r == [Idle EXCEPT !.at = "begun", !.window = w, !.replace = replace, !.cap = cap]
<1>1. Job \in Runners /\ Goes(Job, r) /\ UNCHANGED <<gmail, message, threadOf, thread, token>>
  BY MailConstants DEF BeginJob
<1>2. r.at = "begun" /\ r.since = 0 /\ r.ids = <<>>
  BY DEF Idle
<1>3. r \in Run
  BY IdleHolds DEF Run
<1> HIDE DEF r
<1> QED
  BY <1>1, <1>2, <1>3, BeginStores

LEMMA BeginCliStores ==
  ASSUME StoreInv, NEW mode \in Modes, NEW w \in Windows, NEW replace \in BOOLEAN,
         NEW cap \in Caps, BeginCli(mode, w, replace, cap)
  PROVE  StoreInv'
<1> DEFINE c == IF mode = "smoke" THEN 0 ELSE cap
           since == Since(mode, w)
           half == [Idle EXCEPT !.at = "begun", !.mode = mode, !.window = w]
           r == [Idle EXCEPT !.at = "begun", !.mode = mode, !.window = w, !.replace = replace,
                             !.cap = c, !.since = since]
<1>1. Cli \in Runners /\ c \in Caps \cup {0}
  BY MailConstants
<1>2. since \in Nat /\ (since > 0 => ~IsWindowed(w))
  BY DEF Since, StoreInv, TypeOK
<1>3. Goes(Cli, r) /\ UNCHANGED <<gmail, message, threadOf, thread, token>>
  BY DEF BeginCli
<1> HIDE DEF c, since
<1>4. r.at = "begun" /\ r.since = since /\ r.window = w /\ r.ids = <<>>
  BY DEF Idle
<1>5. r = [half EXCEPT !.replace = replace, !.cap = c, !.since = since]
  BY DEF Idle
<1>6. half \in Run
  BY IdleHolds DEF Run
<1> HIDE DEF half
<1>7. [half EXCEPT !.replace = replace, !.cap = c, !.since = since] \in Run
  BY <1>1, <1>2, <1>6 DEF Run
<1> HIDE DEF r
<1> QED
  BY <1>1, <1>2, <1>3, <1>4, <1>5, <1>7, BeginStores

LEMMA ProfileStores == ASSUME StoreInv, NEW a \in Runners, Profile(a) PROVE StoreInv'
<1>1. PICK h \in {0, Len(gmail)} :
        /\ Goes(a, [run[a] EXCEPT !.at = "profiled", !.history = h])
        /\ UNCHANGED <<gmail, message, threadOf, thread, token>>
  BY DEF Profile
<1> DEFINE r == [run[a] EXCEPT !.at = "profiled", !.history = h]
<1>2. h \in Nat /\ run[a] \in Run /\ RunHolds(run[a]) /\ token' \in Nat
  BY <1>1, RunnerHolds
<1>3. r \in Run /\ r.at = "profiled" /\ r.ids = run[a].ids /\ r.since = run[a].since
      /\ r.window = run[a].window
  BY <1>2 DEF Run
<1>4. Goes(a, r)
  BY <1>1
<1> HIDE DEF r
<1>5. RunHolds(r)
  BY <1>2, <1>3 DEF RunHolds, ListsWindow
<1> QED
  BY <1>1, <1>2, <1>3, <1>4, <1>5, RunStepStores

\* The hits of a window's query are the mails of its days.
LEMMA HitsAreInside ==
  ASSUME NEW w \in Windows, gmail \in Seq(Mails)
  PROVE  HitsOf(Query(w)) = Inside(w, Len(gmail))
<1>1. w.from \in Nat /\ w.to \in Nat
  BY MailConstants DEF Windows
<1>2. Query(w).after = w.from /\ Query(w).before = IF w.to = 0 THEN 0 ELSE w.to + 1
  BY DEF Query
<1>3. ASSUME NEW i \in 1..Len(gmail)
      PROVE  Hits(Query(w), i) <=> (w.from # 0 => DayOf(i) >= w.from) /\ (w.to # 0 => DayOf(i) <= w.to)
  <2>1. DayOf(i) \in Int
    <3>1. i - 1 \in Int /\ PerDay \in Nat /\ PerDay > 0
      BY MailConstants
    <3>2. (i - 1) \div PerDay \in Int
      BY <3>1
    <3> QED
      BY <3>2 DEF DayOf
  <2> QED
    BY <1>1, <1>2, <2>1 DEF Hits
<1> QED
  BY <1>3 DEF HitsOf, Inside

\* The listing that the cap cuts: of what is listed, and all of it unless the cap was hit.
LEMMA SlicedLists ==
  ASSUME NEW ids \in Seq(Mails), NEW cap \in Nat
  PROVE  \A k \in 1..Len(Sliced(ids, cap)) : k \in 1..Len(ids) /\ Sliced(ids, cap)[k] = ids[k]
<1>1. CASE Len(ids) <= cap + 1
  BY <1>1 DEF Sliced
<1>2. CASE Len(ids) > cap + 1
  <2>1. Sliced(ids, cap) = SubSeq(ids, 1, cap + 1)
    BY <1>2 DEF Sliced
  <2> QED
    BY <1>2, <2>1
<1> QED
  BY <1>1, <1>2

LEMMA ListStores == ASSUME StoreInv, NEW a \in Runners, List(a) PROVE StoreInv'
<1> DEFINE old == run[a]
           all == Newest(Query(old.window))
           ids == Sliced(all, old.cap)
           r == [old EXCEPT !.at = "listed", !.ids = ids, !.read = Len(gmail)]
<1>1. Goes(a, r) /\ UNCHANGED <<gmail, message, threadOf, thread, token>>
  BY DEF List
<1>2. old \in Run /\ RunHolds(old) /\ gmail \in Seq(Mails) /\ Len(gmail) \in Nat
      /\ token' \in Nat /\ old.cap \in Nat
  BY <1>1, RunnerHolds
<1>3. old.window \in Windows
  BY <1>2 DEF Run
<1>4. /\ all \in Seq(Mails)
      /\ \A k \in 1..Len(all) : \E i \in Inside(old.window, Len(gmail)) : all[k] = gmail[i]
      /\ \A i \in Inside(old.window, Len(gmail)) : \E k \in 1..Len(all) : all[k] = gmail[i]
  BY <1>2, <1>3, NewestLists, HitsAreInside
<1> HIDE DEF all
<1>5. ids \in Seq(Mails) /\ (Len(ids) <= old.cap => ids = all)
      /\ \A k \in 1..Len(ids) : \E i \in Inside(old.window, Len(gmail)) : ids[k] = gmail[i]
  <2>1. ids \in Seq(Mails) /\ (Len(ids) <= old.cap => ids = all)
    BY <1>2, <1>4, SlicedIsKept
  <2>2. \A k \in 1..Len(ids) : k \in 1..Len(all) /\ ids[k] = all[k]
    BY <1>2, <1>4, SlicedLists
  <2> HIDE DEF ids
  <2> QED
    BY <1>4, <2>1, <2>2
<1> HIDE DEF ids
<1>6. r \in Run /\ r.at = "listed" /\ r.ids = ids /\ r.read = Len(gmail) /\ r.cap = old.cap
      /\ r.since = old.since /\ r.window = old.window
  BY <1>2, <1>5 DEF Run
<1> HIDE DEF r, old
<1>7. \A k \in 1..Len(ids) : ids[k] \in Range(gmail)
  <2>1. \A i \in Inside(old.window, Len(gmail)) : gmail[i] \in Range(gmail)
    BY <1>2 DEF Inside, Range
  <2> QED
    BY <1>5, <2>1
<1>8. ~HitCap(r) => ids = all
  BY <1>2, <1>5, <1>6 DEF HitCap
<1>9. ListsWindow(r)
  BY <1>2, <1>4, <1>5, <1>6, <1>8 DEF ListsWindow
<1>10. RunHolds(r)
  BY <1>2, <1>6, <1>7, <1>9 DEF RunHolds
<1> QED
  BY <1>1, <1>2, <1>6, <1>10, RunStepStores

\* A page of the history.
LEMMA PageIs ==
  ASSUME NEW s \in Seq(Mails), NEW from \in Nat, NEW upto \in Nat, from <= upto, upto <= Len(s)
  PROVE  /\ SubSeq(s, from + 1, upto) \in Seq(Mails) /\ Len(SubSeq(s, from + 1, upto)) = upto - from
         /\ \A k \in 1..(upto - from) : from + k \in DOMAIN s /\ SubSeq(s, from + 1, upto)[k] = s[from + k]
<1>1. SubSeq(s, from + 1, upto) \in Seq(Mails)
  OBVIOUS
<1>2. Len(SubSeq(s, from + 1, upto)) = upto - from
  OBVIOUS
<1>3. ASSUME NEW k \in 1..(upto - from)
      PROVE  from + k \in DOMAIN s /\ SubSeq(s, from + 1, upto)[k] = s[from + k]
  OBVIOUS
<1> QED
  BY <1>1, <1>2, <1>3

LEMMA HistoryPageStores == ASSUME StoreInv, NEW a \in Runners, HistoryPage(a) PROVE StoreInv'
<1> DEFINE old == run[a]
           from == IF old.read = 0 THEN old.since ELSE old.read
           upto == IF from + Page < Len(gmail) THEN from + Page ELSE Len(gmail)
           page == SubSeq(gmail, from + 1, upto)
           all == old.ids \o page
           at == IF upto = Len(gmail) \/ Len(all) > old.cap THEN "listed" ELSE "begun"
           r == [old EXCEPT !.ids = Sliced(all, old.cap), !.history = Len(gmail),
                            !.read = upto, !.at = at]
<1>1. Goes(a, r) /\ old.since > 0 /\ UNCHANGED <<gmail, message, threadOf, thread, token>>
  BY DEF HistoryPage
<1>2. old \in Run /\ RunHolds(old) /\ gmail \in Seq(Mails) /\ Len(gmail) \in Nat
      /\ token' \in Nat /\ old.cap \in Nat /\ old.ids \in Seq(Mails)
  BY <1>1, RunnerHolds
<1>3. from \in Nat /\ upto \in Nat /\ upto <= Len(gmail)
  <2>1. old.read \in Nat /\ old.since \in Nat /\ Page \in Nat
    BY <1>2, MailConstants DEF Run
  <2>2. from \in Nat
    BY <2>1
  <2> HIDE DEF from
  <2> QED
    BY <1>2, <2>1, <2>2
<1> HIDE DEF from, upto
<1>4. page \in Seq(Mails) /\ \A k \in 1..Len(page) : page[k] \in Range(gmail)
  <2>1. CASE from + 1 <= upto
    <3>1. page \in Seq(Mails) /\ Len(page) = upto - from
          /\ \A k \in 1..(upto - from) : from + k \in DOMAIN gmail /\ page[k] = gmail[from + k]
      BY <1>2, <1>3, <2>1, PageIs
    <3> HIDE DEF page
    <3> QED
      BY <3>1 DEF Range
  <2>2. CASE ~(from + 1 <= upto)
    <3>1. page = <<>>
      BY <1>2, <1>3, <2>2
    <3> HIDE DEF page
    <3>2. <<>> \in Seq(Mails) /\ Len(<<>>) = 0
      OBVIOUS
    <3> QED
      BY <3>1, <3>2
  <2> QED
    BY <2>1, <2>2
<1> HIDE DEF page
<1>5. all \in Seq(Mails) /\ \A k \in 1..Len(all) : all[k] \in Range(gmail)
  <2>1. \A k \in 1..Len(old.ids) : old.ids[k] \in Range(gmail)
    BY <1>2 DEF RunHolds
  <2>2. Len(all) = Len(old.ids) + Len(page) /\ all \in Seq(Mails)
        /\ (\A k \in 1..Len(old.ids) : all[k] = old.ids[k])
        /\ (\A k \in 1..Len(page) : all[Len(old.ids) + k] = page[k])
    BY <1>2, <1>4
  <2>3. ASSUME NEW k \in 1..Len(all), k > Len(old.ids) PROVE all[k] \in Range(gmail)
    <3>1. k - Len(old.ids) \in 1..Len(page) /\ Len(old.ids) + (k - Len(old.ids)) = k
      BY <1>2, <1>4, <2>2, <2>3
    <3> HIDE DEF all
    <3> QED
      BY <1>4, <2>2, <3>1
  <2> HIDE DEF all
  <2>4. Len(old.ids) \in Nat /\ Len(all) \in Nat
    BY <1>2, <2>2
  <2>5. ASSUME NEW k \in 1..Len(all), k <= Len(old.ids) PROVE all[k] \in Range(gmail)
    <3>1. k \in 1..Len(old.ids)
      BY <2>4, <2>5
    <3> QED
      BY <2>1, <2>2, <3>1
  <2>6. \A k \in 1..Len(all) : k <= Len(old.ids) \/ k > Len(old.ids)
    BY <2>4
  <2> QED
    BY <2>2, <2>3, <2>5, <2>6
<1> HIDE DEF all
<1>6. Sliced(all, old.cap) \in Seq(Mails)
      /\ \A k \in 1..Len(Sliced(all, old.cap)) : Sliced(all, old.cap)[k] \in Range(gmail)
  BY <1>2, <1>5, SlicedIsKept, SlicedLists
<1>7. at \in {"listed", "begun"}
  OBVIOUS
<1> HIDE DEF at
<1>8. r \in Run /\ r.ids = Sliced(all, old.cap) /\ r.since = old.since /\ r.window = old.window
  BY <1>2, <1>3, <1>6, <1>7 DEF Run
<1> HIDE DEF r
<1>9. ~IsWindowed(r.window)
  BY <1>1, <1>2, <1>8 DEF RunHolds
<1>10. RunHolds(r)
  BY <1>6, <1>8, <1>9 DEF RunHolds, ListsWindow
<1> QED
  BY <1>1, <1>2, <1>8, <1>10, RunStepStores

LEMMA FetchStores == ASSUME StoreInv, NEW a \in Runners, Fetch(a) PROVE StoreInv'
<1> DEFINE old == run[a]
           r == [old EXCEPT !.at = "fetched"]
<1>1. Goes(a, r) /\ old.at = "listed" /\ UNCHANGED <<gmail, message, threadOf, thread, token>>
  BY DEF Fetch
<1>2. old \in Run /\ RunHolds(old) /\ token' \in Nat
  BY <1>1, RunnerHolds
<1>3. r \in Run /\ r.at = "fetched" /\ r.ids = old.ids /\ r.read = old.read /\ r.cap = old.cap
      /\ r.since = old.since /\ r.window = old.window
  BY <1>2 DEF Run
<1> HIDE DEF r
<1>4. RunHolds(r)
  BY <1>1, <1>2, <1>3 DEF RunHolds, ListsWindow, HitCap
<1> QED
  BY <1>1, <1>2, <1>3, <1>4, RunStepStores

LEMMA PersistStores == ASSUME StoreInv, NEW a \in Runners, Persist(a) PROVE StoreInv'
<1> DEFINE old == run[a]
           batch == Kept(old)
           root == Roots(batch)
           new == {Mid[batch[i]] : i \in DOMAIN batch}
           rows == ThreadRows(batch, root)
           kept == ~old.replace
           r == IF a = Cli THEN [old EXCEPT !.at = "stored"] ELSE Idle
<1>1. /\ message' = new \cup (IF kept THEN message ELSE {})
      /\ threadOf' = [m \in Mids |-> IF m \in new THEN root[m]
                                     ELSE IF kept THEN threadOf[m] ELSE None]
      /\ thread' = [t \in Mids |-> IF t \in DOMAIN rows THEN rows[t]
                                   ELSE IF kept THEN thread[t] ELSE "none"]
      /\ token' = IF kept THEN token ELSE 0
      /\ Goes(a, r) /\ gmail' = gmail
  BY DEF Persist
<1>2. old \in Run /\ RunHolds(old) /\ gmail \in Seq(Mails) /\ token \in Nat
  BY RunnerHolds
<1>3. batch \in Seq(Mails) /\ \A m \in Range(batch) : m \in Range(gmail)
  BY <1>2, KeptType DEF RunHolds
<1>4. root \in [Mids -> Mids] /\ \A x \in Mids : Linked(x, root[x], Range(batch))
  BY <1>3, RootsFollow
<1>5. r \in Run /\ RunHolds(r)
  <2>1. CASE a = Cli
    <3>1. r \in Run /\ r.at = "stored" /\ r.ids = old.ids /\ r.since = old.since /\ r.window = old.window
      BY <1>2, <2>1 DEF Run
    <3> HIDE DEF r
    <3> QED
      BY <1>2, <3>1 DEF RunHolds, ListsWindow
  <2>2. CASE a # Cli
    BY <2>2, IdleHolds
  <2> QED
    BY <2>1, <2>2
<1>6. new \subseteq Mids
  BY <1>3, MailTypes
<1>7. \A t \in DOMAIN rows : rows[t] \in {"plain", "conflict"}
  BY DEF ThreadRows
<1> HIDE DEF batch, root, new, rows, r
<1>8. run' \in [Runners -> Run] /\ run'[a] = r /\ \A b \in Runners : b # a => run'[b] = run[b]
  BY <1>1, <1>5 DEF StoreInv, TypeOK, Goes
<1>9. TypeOK'
  <2>1. gmail' \in Seq(Mails) /\ token' \in Nat
    BY <1>1, <1>2
  <2>2. message' \in SUBSET Mids
    BY <1>1, <1>6 DEF StoreInv, TypeOK
  <2>3. threadOf' \in [Mids -> Mids \cup {None}]
    BY <1>1, <1>4 DEF StoreInv, TypeOK
  <2>4. thread' \in [Mids -> {"none", "plain", "conflict"}]
    BY <1>1, <1>7 DEF StoreInv, TypeOK
  <2> QED
    BY <1>8, <2>1, <2>2, <2>3, <2>4 DEF TypeOK
<1>10. (\A b \in Runners : RunHolds(run[b]))'
  <2> SUFFICES ASSUME NEW b \in Runners PROVE RunHolds(run[b])'
    OBVIOUS
  <2>1. gmail' = gmail /\ RunHolds(run'[b])
    BY <1>1, <1>5, <1>8 DEF StoreInv
  <2> QED
    BY <2>1 DEF RunHolds, ListsWindow, HitCap
<1>11. ThreadsLink'
  <2> SUFFICES ASSUME NEW x \in message'
               PROVE  threadOf'[x] \in Mids /\ Linked(x, threadOf'[x], Range(gmail))
    BY <1>1 DEF ThreadsLink
  <2>1. x \in Mids
    BY <1>9 DEF TypeOK
  <2>2. CASE x \in new
    <3>1. threadOf'[x] = root[x]
      BY <1>1, <2>1, <2>2
    <3>2. Range(batch) \subseteq Range(gmail)
      BY <1>3
    <3>3. Linked(x, root[x], Range(gmail))
      BY <1>4, <2>1, <3>2, LinkedGrows
    <3> QED
      BY <1>4, <2>1, <3>1, <3>3
  <2>3. CASE x \notin new
    <3>1. x \in message /\ threadOf'[x] = threadOf[x]
      BY <1>1, <2>1, <2>3
    <3> QED
      BY <3>1 DEF StoreInv, ThreadsLink
  <2> QED
    BY <2>2, <2>3
<1> QED
  BY <1>9, <1>10, <1>11 DEF StoreInv

LEMMA SaveTokenStores == ASSUME StoreInv, SaveToken PROVE StoreInv'
<1>1. Cli \in Runners
  BY MailConstants
<1>2. Goes(Cli, Idle) /\ UNCHANGED <<gmail, message, threadOf, thread>>
      /\ token' = IF Saves(run[Cli]) THEN run[Cli].history ELSE token
  BY DEF SaveToken
<1>3. run[Cli].history \in Nat /\ token \in Nat
  BY <1>1, RunnerHolds DEF Run
<1> QED
  BY <1>1, <1>2, <1>3, EndStores

LEMMA NextStores == ASSUME StoreInv, [Next]_vars PROVE StoreInv'
<1>1. ASSUME NEW m \in Mails, Arrive(m) PROVE StoreInv'
  BY <1>1, ArriveStores
<1>2. ASSUME NEW w \in Windows, NEW replace \in BOOLEAN, NEW cap \in Caps,
             \/ BeginJob(w, replace, cap)
             \/ \E mode \in Modes : BeginCli(mode, w, replace, cap)
      PROVE  StoreInv'
  BY <1>2, BeginJobStores, BeginCliStores
<1>3. ASSUME NEW a \in Runners, SmokeCheck(a) \/ Look(a) \/ Fail(a) PROVE StoreInv'
  <2>1. token \in Nat
    BY DEF StoreInv, TypeOK
  <2> QED
    BY <1>3, <2>1, EndStores DEF SmokeCheck, Look, Fail
<1>4. ASSUME NEW a \in Runners, \/ Profile(a)
                                \/ List(a)
                                \/ HistoryPage(a)
                                \/ Fetch(a)
                                \/ Persist(a)
      PROVE  StoreInv'
  BY <1>4, ProfileStores, ListStores, HistoryPageStores, FetchStores, PersistStores
<1>5. CASE SaveToken
  BY <1>5, SaveTokenStores
<1>6. CASE UNCHANGED vars
  BY <1>6 DEF vars, StoreInv, TypeOK, RunHolds, ListsWindow, HitCap, ThreadsLink
<1> QED
  BY <1>1, <1>2, <1>3, <1>4, <1>5, <1>6 DEF Next

LEMMA StoreHolds == Spec => []StoreInv
<1>1. Init => StoreInv
  BY StoreInit
<1>2. StoreInv /\ [Next]_vars => StoreInv'
  BY NextStores
<1> QED
  BY <1>1, <1>2, PTL DEF Spec

\* The variables keep their types, whatever runs overlap.
THEOREM TypesHold == Spec => []TypeOK
<1>1. StoreInv => TypeOK
  BY DEF StoreInv
<1> QED
  BY <1>1, StoreHolds, PTL

\* A windowed listing holds the mail of the days asked for, both included (build_gmail_query,
\* list_ids, plan_window), for any mailbox, window and cap, while mail arrives.
THEOREM WindowsAreInclusive == Spec => []WindowIsInclusive
<1>1. ASSUME StoreInv PROVE WindowIsInclusive
  <2> SUFFICES ASSUME NEW a \in Runners, run[a].at = "fetched", IsWindowed(run[a].window)
               PROVE  LET w == run[a].window
                          inside == {i \in 1..run[a].read : /\ w.from # 0 => DayOf(i) >= w.from
                                                            /\ w.to # 0 => DayOf(i) <= w.to}
                          mails == {gmail[i] : i \in inside}
                      IN  /\ Range(run[a].ids) \subseteq mails
                          /\ ~HitCap(run[a]) => Range(run[a].ids) = mails
    BY DEF WindowIsInclusive
  <2> DEFINE r == run[a]
             mails == {gmail[i] : i \in Inside(r.window, r.read)}
  <2>1. ListsWindow(r) /\ r.ids \in Seq(Mails)
    BY <1>1, RunnerHolds DEF RunHolds
  <2>2. Range(r.ids) = {r.ids[k] : k \in 1..Len(r.ids)}
    BY <2>1 DEF Range
  <2>3. /\ \A k \in 1..Len(r.ids) : \E i \in Inside(r.window, r.read) : r.ids[k] = gmail[i]
        /\ ~HitCap(r) => \A i \in Inside(r.window, r.read) : \E k \in 1..Len(r.ids) : r.ids[k] = gmail[i]
    BY <2>1 DEF ListsWindow
  <2>4. Range(r.ids) \subseteq mails
    BY <2>2, <2>3
  <2>5. ~HitCap(r) => mails \subseteq Range(r.ids)
    BY <2>2, <2>3
  <2> QED
    BY <2>4, <2>5 DEF Inside
<1> QED
  BY <1>1, StoreHolds, PTL

LEMMA BatchFollows == ASSUME StoreInv PROVE BatchFollowsHeaders
<1> SUFFICES ASSUME NEW a \in Runners, NEW batch, batch = Kept(run[a]),
                    NEW m \in Range(batch)
             PROVE  LET mails == Range(batch)
                        root == Roots(batch)
                        linked(k, n) == Linked(Mid[k], Mid[n], mails)
                    IN  /\ \A n \in mails : root[Mid[m]] = root[Mid[n]] <=> linked(m, n)
                        /\ root[Mid[m]] \in Conflicted(batch, root) <=>
                             \E k, n \in mails : linked(m, k) /\ Group[k] = Group[n] /\ ~linked(k, n)
  BY DEF BatchFollowsHeaders
<1> DEFINE mails == Range(batch)
           root == Roots(batch)
<1>1. batch \in Seq(Mails)
  BY RunnerHolds, KeptType
<1>2. mails \in SUBSET Mails
  BY <1>1 DEF Range
<1>3. \A x, y \in Mids : root[x] = root[y] <=> Linked(x, y, mails)
  BY <1>1, RootsFollow
<1>4. \A k \in mails : Mid[k] \in Mids
  BY <1>2, MailTypes
<1>5. Conflicted(batch, root) =
        {root[Mid[k]] : k \in {j \in mails : \E n \in mails :
                               Group[n] = Group[j] /\ root[Mid[n]] # root[Mid[j]]}}
  BY DEF Conflicted
<1> HIDE DEF mails, root
<1>6. \A k, n \in mails : root[Mid[k]] = root[Mid[n]] <=> Linked(Mid[k], Mid[n], mails)
  BY <1>3, <1>4
<1>7. m \in mails
  BY DEF mails
<1>8. root[Mid[m]] \in Conflicted(batch, root) <=>
        \E k, n \in mails : /\ Linked(Mid[m], Mid[k], mails) /\ Group[k] = Group[n]
                            /\ ~Linked(Mid[k], Mid[n], mails)
  <2>1. ASSUME root[Mid[m]] \in Conflicted(batch, root)
        PROVE  \E k, n \in mails : /\ Linked(Mid[m], Mid[k], mails) /\ Group[k] = Group[n]
                                   /\ ~Linked(Mid[k], Mid[n], mails)
    <3>1. PICK k \in mails : /\ root[Mid[m]] = root[Mid[k]]
                             /\ \E n \in mails : Group[n] = Group[k] /\ root[Mid[n]] # root[Mid[k]]
      BY <1>5, <2>1
    <3> QED
      BY <1>6, <1>7, <3>1
  <2>2. ASSUME NEW k \in mails, NEW n \in mails, Linked(Mid[m], Mid[k], mails),
               Group[k] = Group[n], ~Linked(Mid[k], Mid[n], mails)
        PROVE  root[Mid[m]] \in Conflicted(batch, root)
    <3>1. root[Mid[m]] = root[Mid[k]] /\ root[Mid[n]] # root[Mid[k]]
      BY <1>6, <1>7, <2>2
    <3> QED
      BY <1>5, <2>2, <3>1
  <2> QED
    BY <2>1, <2>2
<1> QED
  BY <1>6, <1>7, <1>8 DEF mails, root

\* Threads are cut along the headers of the mail and nothing else, in every batch and in the
\* store that any number of runs has filled (threads.py, reconstruct): a union-find over the
\* references, in whatever order they are met, yields the classes that they generate.
THEOREM HeadersMakeThreads == Spec => []ThreadsFollowHeaders
<1>1. ASSUME StoreInv PROVE StoreFollowsHeaders
  <2> SUFFICES ASSUME NEW x \in message, NEW y \in message, threadOf[x] = threadOf[y]
               PROVE  Linked(x, y, Range(gmail))
    BY DEF StoreFollowsHeaders
  <2> DEFINE mails == Range(gmail)
  <2>1. mails \in SUBSET Mails /\ x \in Mids /\ y \in Mids
    BY <1>1 DEF StoreInv, TypeOK, Range
  <2>2. /\ threadOf[x] \in Mids
        /\ Linked(x, threadOf[x], mails) /\ Linked(y, threadOf[x], mails)
    BY <1>1 DEF StoreInv, ThreadsLink
  <2> HIDE DEF mails
  <2>3. Linked(threadOf[x], y, mails)
    BY <2>1, <2>2, LinkedBack
  <2> QED
    BY <2>2, <2>3, LinkedOn DEF mails
<1>2. ASSUME StoreInv PROVE BatchFollowsHeaders
  BY <1>2, BatchFollows
<1>3. StoreInv => ThreadsFollowHeaders
  BY <1>1, <1>2 DEF ThreadsFollowHeaders
<1> QED
  BY <1>3, StoreHolds, PTL

-----------------------------------------------------------------------------
(***************************************************************************)
(* The token, while one run is under way at a time.                        *)
(***************************************************************************)
Fields == {"at", "mode", "window", "replace", "cap", "since", "history", "read", "ids"}

\* What the argument needs of the types.
Typed ==
  /\ gmail \in Seq(Mails)
  /\ token \in Nat
  /\ DOMAIN run = Runners
  /\ \A a \in Runners :
       /\ DOMAIN run[a] = Fields
       /\ run[a].cap \in Nat /\ run[a].since \in Nat
       /\ run[a].history \in Nat /\ run[a].read \in Nat
       /\ ~IsWindowed(run[a].window) => run[a].ids \in Seq(Mails)

\* A listing holds the mails of a range of the history.
Lists(ids, mails, lo, hi) == \A i \in lo..hi : \E j \in 1..Len(ids) : ids[j] = mails[i]

At(r) == IF r.read = 0 THEN r.since ELSE r.read

\* The operator's run, on its way to a token.
OnTheWay(r) ==
  /\ r.at # "idle" => /\ r.since = 0 \/ (r.since = token /\ ~IsWindowed(r.window))
                      /\ r.replace => IsWindowed(r.window)
                      /\ run[Job].at = "idle"
  /\ r.at = "begun" /\ r.since > 0 =>
       /\ r.since <= At(r) /\ At(r) <= Len(gmail)
       /\ Lists(r.ids, gmail, r.since + 1, At(r))
  /\ r.at = "profiled" => r.history <= Len(gmail) /\ r.since = 0
  /\ r.at \in {"listed", "fetched", "stored"} /\ Saves(r) =>
       /\ r.history <= Len(gmail)
       /\ Lists(r.ids, gmail, r.since + 1, r.history)
  /\ r.at = "stored" /\ Saves(r) => \A i \in 1..r.history : Mid[gmail[i]] \in message

\* A job never continues from a token.
JobsStartAfresh == run[Job].since = 0

IInv == Typed /\ TokenIsComplete /\ OnTheWay(run[Cli]) /\ JobsStartAfresh

-----------------------------------------------------------------------------
LEMMA IdleIsTyped ==
  /\ DOMAIN Idle = Fields
  /\ Idle.cap \in Nat /\ Idle.since \in Nat /\ Idle.history \in Nat /\ Idle.read \in Nat
  /\ Idle.ids = <<>> /\ Idle.at = "idle"
  BY DEF Idle, Fields

\* The additions after a position, appended.
LEMMA PageLists ==
  ASSUME gmail \in Seq(Mails), NEW ids \in Seq(Mails), NEW lo \in Nat, NEW from \in Nat,
         NEW upto \in Nat, from <= upto, upto <= Len(gmail),
         \A i \in lo..from : \E j \in 1..Len(ids) : ids[j] = gmail[i]
  PROVE  /\ ids \o SubSeq(gmail, from + 1, upto) \in Seq(Mails)
         /\ \A i \in lo..upto : \E j \in 1..Len(ids \o SubSeq(gmail, from + 1, upto)) :
               (ids \o SubSeq(gmail, from + 1, upto))[j] = gmail[i]
<1> DEFINE page == SubSeq(gmail, from + 1, upto)
           all == ids \o page
<1>1. page \in Seq(Mails) /\ Len(page) = upto - from
      /\ \A k \in 1..(upto - from) : page[k] = gmail[from + k]
  BY PageIs
<1> HIDE DEF page
<1>2. all \in Seq(Mails) /\ Len(all) = Len(ids) + (upto - from)
      /\ (\A j \in 1..Len(ids) : all[j] = ids[j])
      /\ (\A k \in 1..(upto - from) : all[Len(ids) + k] = page[k])
  BY <1>1
<1> HIDE DEF all
<1>3. ASSUME NEW i \in lo..upto PROVE \E j \in 1..Len(all) : all[j] = gmail[i]
  <2>1. CASE i <= from
    <3>1. PICK j \in 1..Len(ids) : ids[j] = gmail[i]
      BY <2>1
    <3> QED
      BY <3>1, <1>2
  <2>2. CASE i > from
    <3>1. PICK k \in 1..(upto - from) : from + k = i
      <4>1. i - from \in 1..(upto - from) /\ from + (i - from) = i
        BY <2>2
      <4> QED
        BY <4>1
    <3>2. all[Len(ids) + k] = gmail[i]
      BY <3>1, <1>1, <1>2
    <3>3. Len(ids) + k \in 1..Len(all)
      BY <3>1, <1>2
    <3> QED
      BY <3>2, <3>3
  <2> QED
    BY <2>1, <2>2
<1> QED
  BY <1>2, <1>3 DEF page, all

-----------------------------------------------------------------------------
LEMMA InitHolds == Init => IInv
<1> SUFFICES ASSUME Init PROVE IInv
  OBVIOUS
<1>1. \A a \in Runners : run[a] = Idle
  BY DEF Init
<1>2. Cli \in Runners /\ Job \in Runners
  BY MailConstants
<1>3. Typed
  <2>1. gmail \in Seq(Mails) /\ token \in Nat /\ DOMAIN run = Runners /\ <<>> \in Seq(Mails)
    BY DEF Init
  <2> QED
    BY <1>1, <2>1, IdleIsTyped DEF Typed
<1>4. TokenIsComplete
  BY DEF Init, TokenIsComplete
<1>5. OnTheWay(run[Cli]) /\ JobsStartAfresh
  BY <1>1, <1>2, IdleIsTyped DEF OnTheWay, JobsStartAfresh, Idle
<1> QED
  BY <1>3, <1>4, <1>5 DEF IInv

\* A runner takes another run record: what has to be shown of it.
LEMMA GoesIsTyped ==
  ASSUME Typed, NEW a \in Runners, NEW r, Goes(a, r), DOMAIN r = Fields,
         r.cap \in Nat, r.since \in Nat, r.history \in Nat, r.read \in Nat,
         ~IsWindowed(r.window) => r.ids \in Seq(Mails),
         gmail' \in Seq(Mails), token' \in Nat
  PROVE  Typed' /\ run'[a] = r /\ \A b \in Runners \ {a} : run'[b] = run[b]
  BY DEF Typed, Goes

\* The mails that had arrived are where they were.
LEMMA ArriveHolds == ASSUME IInv, NEW m \in Mails, Arrive(m) PROVE IInv'
<1>1. /\ gmail' \in Seq(Mails) /\ Len(gmail') = Len(gmail) + 1
      /\ \A i \in 1..Len(gmail) : gmail'[i] = gmail[i]
  BY DEF IInv, Typed, Arrive
<1>2. Len(gmail) \in Nat /\ token \in Nat /\ Cli \in Runners
  BY MailConstants DEF IInv, Typed
<1>3. UNCHANGED <<run, message, token>>
  BY DEF Arrive
<1>4. Typed'
  BY <1>1, <1>3 DEF IInv, Typed
<1>5. TokenIsComplete'
  BY <1>1, <1>2, <1>3 DEF IInv, TokenIsComplete
<1>6. OnTheWay(run[Cli])'
  <2> DEFINE r == run[Cli]
  <2>1. r' = r /\ At(r)' = At(r) /\ Saves(r)' = Saves(r)
    BY <1>3 DEF At, Saves, HitCap
  <2>2. r.since \in Nat /\ r.history \in Nat /\ r.read \in Nat /\ At(r) \in Nat
    BY <1>2 DEF IInv, Typed, At
  <2>3. ASSUME NEW lo \in Nat, NEW hi \in Nat, lo > 0, hi <= Len(gmail),
               Lists(r.ids, gmail, lo, hi)
        PROVE  Lists(r.ids, gmail', lo, hi)
    BY <1>1, <1>2, <2>3 DEF Lists
  <2>4. OnTheWay(r)
    BY DEF IInv
  <2> HIDE DEF r
  <2>5. r.since + 1 \in Nat /\ r.since + 1 > 0
    BY <2>2
  <2>6. r.at = "begun" /\ r.since > 0 =>
           r.since <= At(r) /\ At(r) <= Len(gmail') /\ Lists(r.ids, gmail', r.since + 1, At(r))
    BY <1>1, <1>2, <2>2, <2>3, <2>4, <2>5 DEF OnTheWay
  <2>7. r.at \in {"listed", "fetched", "stored"} /\ Saves(r) =>
           r.history <= Len(gmail') /\ Lists(r.ids, gmail', r.since + 1, r.history)
    BY <1>1, <1>2, <2>2, <2>3, <2>4, <2>5 DEF OnTheWay
  <2>8. r.at = "stored" /\ Saves(r) => \A i \in 1..r.history : Mid[gmail'[i]] \in message'
    BY <1>1, <1>2, <1>3, <2>2, <2>4 DEF OnTheWay
  <2>9. r.at = "profiled" => r.history <= Len(gmail') /\ r.since = 0
    BY <1>1, <1>2, <2>2, <2>4 DEF OnTheWay
  <2>10. r.at # "idle" => /\ r.since = 0 \/ (r.since = token' /\ ~IsWindowed(r.window))
                          /\ r.replace => IsWindowed(r.window)
                          /\ run'[Job].at = "idle"
    BY <1>3, <2>4 DEF OnTheWay
  <2> QED
    BY <2>1, <2>6, <2>7, <2>8, <2>9, <2>10 DEF OnTheWay, r
<1>7. JobsStartAfresh'
  BY <1>3 DEF IInv, JobsStartAfresh
<1> QED
  BY <1>4, <1>5, <1>6, <1>7 DEF IInv

-----------------------------------------------------------------------------
\* A step of one runner that leaves mail, messages and token alone keeps the invariant, if
\* the record it takes is typed and, for the operator's, on its way.
LEMMA RunStepHolds ==
  ASSUME IInv, NEW a \in Runners, NEW r, Goes(a, r), UNCHANGED <<gmail, message, token>>,
         DOMAIN r = Fields,
         r.cap \in Nat, r.since \in Nat, r.history \in Nat, r.read \in Nat,
         ~IsWindowed(r.window) => r.ids \in Seq(Mails),
         a = Job => r.since = 0 /\ (run[Cli].at = "idle" \/ r.at = "idle"),
         a = Cli => OnTheWay(r)
  PROVE  IInv'
<1>1. Cli \in Runners /\ Job \in Runners /\ Cli # Job /\ Runners = {Cli, Job}
  BY MailConstants
<1>2. gmail \in Seq(Mails) /\ token \in Nat /\ gmail' = gmail /\ message' = message
      /\ token' = token /\ DOMAIN run = Runners
  BY DEF IInv, Typed
<1>3. Typed'
  BY <1>2, GoesIsTyped DEF IInv
<1>4. run'[a] = r /\ \A b \in Runners \ {a} : run'[b] = run[b]
  BY <1>2 DEF Goes
<1>5. TokenIsComplete'
  BY <1>2 DEF IInv, TokenIsComplete
<1>8. JobsStartAfresh'
  BY <1>1, <1>4 DEF IInv, JobsStartAfresh
<1>6. CASE a = Cli
  <2>2. run'[Cli] = r
    BY <1>4, <1>6
  <2>3. run'[Job] = run[Job] /\ OnTheWay(r)
    BY <1>1, <1>4, <1>6
  <2>4. OnTheWay(run[Cli])'
    BY <1>2, <2>2, <2>3 DEF OnTheWay, At, Saves, HitCap
  <2> QED
    BY <1>3, <1>5, <1>8, <2>4 DEF IInv
<1>7. CASE a = Job
  <2>1. run'[Cli] = run[Cli] /\ run'[Job] = r
    BY <1>1, <1>4, <1>7
  <2>2. OnTheWay(run[Cli])
    BY DEF IInv
  <2>3. run[Cli].at # "idle" => run'[Job].at = "idle"
    BY <1>7, <2>1
  <2> QED
    BY <1>2, <1>3, <1>5, <1>8, <2>1, <2>2, <2>3 DEF IInv, OnTheWay
<1> QED
  BY <1>1, <1>6, <1>7

\* What the invariant says of a runner.
LEMMA RunnerTypes ==
  ASSUME IInv, NEW a \in Runners
  PROVE  /\ DOMAIN run[a] = Fields /\ run[a].cap \in Nat /\ run[a].since \in Nat
         /\ run[a].history \in Nat /\ run[a].read \in Nat
         /\ ~IsWindowed(run[a].window) => run[a].ids \in Seq(Mails)
         /\ gmail \in Seq(Mails) /\ Len(gmail) \in Nat /\ token \in Nat /\ token <= Len(gmail)
         /\ a = Job => run[a].since = 0 /\ (run[a].at # "idle" => run[Cli].at = "idle")
<1>1. gmail \in Seq(Mails) /\ Len(gmail) \in Nat /\ token \in Nat
  BY DEF IInv, Typed
<1>2. token <= Len(gmail)
  <2>1. CASE token = 0
    BY <1>1, <2>1
  <2>2. CASE token > 0
    <3>1. token \in 1..token
      BY <1>1, <2>2
    <3> QED
      BY <3>1 DEF IInv, TokenIsComplete
  <2> QED
    BY <1>1, <2>1, <2>2
<1>3. run[Cli].at # "idle" => run[Job].at = "idle"
  BY DEF IInv, OnTheWay
<1> QED
  BY <1>1, <1>2, <1>3 DEF IInv, Typed, JobsStartAfresh

LEMMA EndHolds ==
  ASSUME IInv, NEW a \in Runners, Goes(a, Idle), UNCHANGED <<gmail, message, token>>
  PROVE  IInv'
<1>1. OnTheWay(Idle)
  BY IdleIsTyped DEF OnTheWay
<1>2. <<>> \in Seq(Mails)
  OBVIOUS
<1>3. Idle.since = 0
  BY DEF Idle
<1> QED
  BY <1>1, <1>2, <1>3, IdleIsTyped, RunStepHolds

LEMMA BeginJobHolds ==
  ASSUME IInv, ~Overlap, NEW w \in Windows, NEW replace \in BOOLEAN, NEW cap \in Caps,
         BeginJob(w, replace, cap)
  PROVE  IInv'
<1> DEFINE r == [Idle EXCEPT !.at = "begun", !.window = w, !.replace = replace, !.cap = cap]
<1>1. DOMAIN r = Fields /\ r.cap = cap /\ r.since = 0 /\ r.history = 0 /\ r.read = 0
      /\ r.ids = <<>>
  BY DEF Idle, Fields
<1>2. Job \in Runners /\ Cli \in Runners \ {Job} /\ cap \in Nat /\ <<>> \in Seq(Mails)
  BY MailConstants
<1>3. Goes(Job, r) /\ UNCHANGED <<gmail, message, token>> /\ Alone(Job)
  BY DEF BeginJob
<1>4. run[Cli].at = "idle"
  BY <1>2, <1>3 DEF Alone
<1> HIDE DEF r
<1>5. r.cap \in Nat /\ r.since \in Nat /\ r.history \in Nat /\ r.read \in Nat
      /\ r.ids \in Seq(Mails) /\ Job # Cli
  BY <1>1, <1>2
<1> QED
  BY <1>1, <1>2, <1>3, <1>4, <1>5, RunStepHolds

LEMMA BeginCliHolds ==
  ASSUME IInv, ~Overlap, NEW mode \in Modes, NEW w \in Windows, NEW replace \in BOOLEAN,
         NEW cap \in Caps, BeginCli(mode, w, replace, cap)
  PROVE  IInv'
<1> DEFINE c == IF mode = "smoke" THEN 0 ELSE cap
           since == Since(mode, w)
           r == [Idle EXCEPT !.at = "begun", !.mode = mode, !.window = w,
                             !.replace = replace, !.cap = c, !.since = since]
<1>1. Cli \in Runners /\ Job \in Runners \ {Cli} /\ c \in Nat /\ <<>> \in Seq(Mails)
      /\ Cli # Job
  BY MailConstants
<1>2. since \in Nat /\ since <= Len(gmail)
      /\ (since = 0 \/ (since = token /\ ~IsWindowed(w)))
  BY <1>1, RunnerTypes DEF Since
<1>3. Goes(Cli, r) /\ UNCHANGED <<gmail, message, token>> /\ Alone(Cli)
      /\ (replace => IsWindowed(w))
  BY DEF BeginCli, MayReplace
<1>4. run[Job].at = "idle"
  BY <1>1, <1>3 DEF Alone
<1> HIDE DEF c, since
<1>5. DOMAIN r = Fields /\ r.at = "begun" /\ r.cap = c /\ r.since = since /\ r.history = 0
      /\ r.read = 0 /\ r.ids = <<>> /\ r.window = w /\ r.replace = replace
  BY DEF Idle, Fields
<1> HIDE DEF r
<1>6. Lists(r.ids, gmail, r.since + 1, At(r))
  BY <1>2, <1>5 DEF Lists, At
<1>7. OnTheWay(r)
  BY <1>2, <1>3, <1>4, <1>5, <1>6 DEF OnTheWay, At
<1>8. r.cap \in Nat /\ r.since \in Nat /\ r.history \in Nat /\ r.read \in Nat
      /\ r.ids \in Seq(Mails)
  BY <1>1, <1>2, <1>5
<1> QED
  BY <1>1, <1>3, <1>5, <1>7, <1>8, RunStepHolds

LEMMA ProfileHolds == ASSUME IInv, NEW a \in Runners, Profile(a) PROVE IInv'
<1>1. PICK h \in {0, Len(gmail)} :
        /\ Goes(a, [run[a] EXCEPT !.at = "profiled", !.history = h])
        /\ run[a].at = "begun" /\ run[a].since = 0
        /\ UNCHANGED <<gmail, message, token>>
  BY DEF Profile
<1> DEFINE r == [run[a] EXCEPT !.at = "profiled", !.history = h]
<1>2. h \in Nat /\ h <= Len(gmail)
  BY <1>1, RunnerTypes
<1>3. DOMAIN r = Fields /\ r.at = "profiled" /\ r.cap = run[a].cap /\ r.since = 0
      /\ r.history = h /\ r.read = run[a].read /\ r.ids = run[a].ids
      /\ r.window = run[a].window /\ r.replace = run[a].replace
  BY <1>1, RunnerTypes DEF Fields
<1>4. Goes(a, r)
  BY <1>1
<1> HIDE DEF r
<1>5. a = Cli => OnTheWay(r)
  <2> SUFFICES ASSUME a = Cli PROVE OnTheWay(r)
    OBVIOUS
  <2>1. OnTheWay(run[a])
    BY DEF IInv
  <2> QED
    BY <1>1, <1>2, <1>3, <2>1 DEF OnTheWay
<1> QED
  BY <1>1, <1>2, <1>3, <1>4, <1>5, RunnerTypes, RunStepHolds

LEMMA ListHolds == ASSUME IInv, NEW a \in Runners, List(a) PROVE IInv'
<1> DEFINE old == run[a]
           ids == Sliced(Newest(Query(old.window)), old.cap)
           r == [old EXCEPT !.at = "listed", !.ids = ids, !.read = Len(gmail)]
<1>1. Goes(a, r) /\ old.at = "profiled" /\ UNCHANGED <<gmail, message, token>>
  BY DEF List
<1>2. DOMAIN r = Fields /\ r.at = "listed" /\ r.cap = old.cap /\ r.since = old.since
      /\ r.history = old.history /\ r.read = Len(gmail) /\ r.ids = ids
      /\ r.window = old.window /\ r.replace = old.replace
  BY RunnerTypes DEF Fields
<1>3. ASSUME ~IsWindowed(old.window)
      PROVE  ids \in Seq(Mails) /\ (Len(ids) <= old.cap => ids = Newest(Query(Open)))
  BY <1>3, NewestLists, SlicedIsKept, RunnerTypes DEF IsWindowed
<1> HIDE DEF ids, r
<1>4. a = Cli => OnTheWay(r)
  <2> SUFFICES ASSUME a = Cli PROVE OnTheWay(r)
    OBVIOUS
  <2>1. OnTheWay(old)
    BY DEF IInv
  <2>2. old.since = 0 /\ old.history <= Len(gmail) /\ old.history \in Nat
    BY <1>1, <2>1, RunnerTypes DEF OnTheWay
  <2>3. ASSUME Saves(r) PROVE Lists(r.ids, gmail, r.since + 1, r.history)
    <3>1. ids = Newest(Query(Open))
      BY <1>2, <1>3, <2>3, RunnerTypes DEF Saves, HitCap
    <3>2. ASSUME NEW i \in 1..old.history PROVE \E j \in 1..Len(ids) : ids[j] = gmail[i]
      <4>1. i \in 1..Len(gmail)
        BY <2>2, RunnerTypes
      <4>2. i \in HitsOf(Query(Open))
        BY <4>1 DEF HitsOf, Hits, Query, Open
      <4> QED
        BY <3>1, <4>2, NewestLists, RunnerTypes
    <3> QED
      BY <1>2, <2>2, <3>2 DEF Lists
  <2> QED
    BY <1>1, <1>2, <2>1, <2>2, <2>3 DEF OnTheWay
<1> QED
  BY <1>1, <1>2, <1>3, <1>4, RunnerTypes, RunStepHolds

LEMMA HistoryPageHolds == ASSUME IInv, NEW a \in Runners, HistoryPage(a) PROVE IInv'
<1> DEFINE old == run[a]
           from == IF old.read = 0 THEN old.since ELSE old.read
           upto == IF from + Page < Len(gmail) THEN from + Page ELSE Len(gmail)
           all == old.ids \o SubSeq(gmail, from + 1, upto)
           at == IF upto = Len(gmail) \/ Len(all) > old.cap THEN "listed" ELSE "begun"
           r == [old EXCEPT !.ids = Sliced(all, old.cap), !.history = Len(gmail),
                            !.read = upto, !.at = at]
<1>1. Goes(a, r) /\ old.at = "begun" /\ old.since > 0 /\ UNCHANGED <<gmail, message, token>>
  BY DEF HistoryPage
<1>2. a = Cli /\ OnTheWay(old) /\ ~IsWindowed(old.window) /\ old.since <= Len(gmail)
  <2>1. a = Cli
    BY <1>1, MailConstants, RunnerTypes
  <2>2. OnTheWay(old)
    BY <2>1 DEF IInv
  <2>3. old.since = token /\ ~IsWindowed(old.window)
    BY <1>1, <2>2, RunnerTypes DEF OnTheWay
  <2> QED
    BY <2>1, <2>2, <2>3, RunnerTypes
<1>3. from = At(old) /\ from \in Nat /\ from <= Len(gmail) /\ old.since <= from
      /\ Lists(old.ids, gmail, old.since + 1, from)
  BY <1>1, <1>2, RunnerTypes DEF OnTheWay, At
<1>4. upto \in Nat /\ from <= upto /\ upto <= Len(gmail)
  <2>1. Page \in Nat /\ Page > 0 /\ Len(gmail) \in Nat
    BY MailConstants, RunnerTypes
  <2> HIDE DEF from
  <2> QED
    BY <1>3, <2>1
<1>5. DOMAIN r = Fields /\ r.at = at /\ r.cap = old.cap /\ r.since = old.since
      /\ r.history = Len(gmail) /\ r.read = upto /\ r.ids = Sliced(all, old.cap)
      /\ r.window = old.window /\ r.replace = old.replace
  BY RunnerTypes DEF Fields
<1> HIDE DEF from, upto
<1>6. all \in Seq(Mails) /\ Lists(all, gmail, old.since + 1, upto)
  <2>1. old.since + 1 \in Nat /\ old.ids \in Seq(Mails) /\ gmail \in Seq(Mails)
    BY <1>2, RunnerTypes
  <2>2. \A i \in (old.since + 1)..from : \E j \in 1..Len(old.ids) : old.ids[j] = gmail[i]
    BY <1>3 DEF Lists
  <2> DEFINE lo == old.since + 1
  <2>3. \A i \in lo..from : \E j \in 1..Len(old.ids) : old.ids[j] = gmail[i]
    BY <2>2
  <2>4. lo \in Nat
    BY <2>1
  <2> DEFINE ids == old.ids
             allOf == ids \o SubSeq(gmail, from + 1, upto)
  <2> HIDE DEF lo, ids
  <2>6. gmail \in Seq(Mails) /\ ids \in Seq(Mails) /\ from <= upto /\ upto <= Len(gmail)
        /\ from \in Nat /\ upto \in Nat
        /\ \A i \in lo..from : \E j \in 1..Len(ids) : ids[j] = gmail[i]
    BY <1>3, <1>4, <2>1, <2>3 DEF ids
  <2>7. allOf \in Seq(Mails)
        /\ \A i \in lo..upto : \E j \in 1..Len(allOf) : allOf[j] = gmail[i]
    BY <2>4, <2>6, PageLists
  <2>5. all \in Seq(Mails)
        /\ \A i \in lo..upto : \E j \in 1..Len(all) : all[j] = gmail[i]
    BY <2>7 DEF ids
  <2> QED
    BY <2>5 DEF Lists, lo
<1>7. at \in {"begun", "listed"} /\ (at = "listed" /\ Len(all) <= old.cap => upto = Len(gmail))
      /\ (at = "begun" => Len(all) <= old.cap /\ upto # Len(gmail))
  <2>1. Len(all) \in Nat /\ old.cap \in Nat
    BY <1>6, RunnerTypes
  <2> HIDE DEF all
  <2> QED
    BY <2>1
<1> HIDE DEF all, at, r
<1>8. Sliced(all, old.cap) \in Seq(Mails)
      /\ (Len(Sliced(all, old.cap)) <= old.cap => Sliced(all, old.cap) = all)
      /\ (Len(all) <= old.cap => Sliced(all, old.cap) = all)
  BY <1>6, SlicedIsKept, RunnerTypes
<1>9. OnTheWay(r)
  <2>1. Saves(r) /\ r.at = "listed" =>
          r.history <= Len(gmail) /\ Lists(r.ids, gmail, r.since + 1, r.history)
    BY <1>5, <1>6, <1>7, <1>8, RunnerTypes DEF Saves, HitCap
  <2>2. ASSUME r.at = "begun"
        PROVE  At(r) = upto /\ Lists(r.ids, gmail, r.since + 1, At(r))
    <3>1. upto # 0
      BY <1>1, <1>3, <1>4, RunnerTypes
    <3> QED
      BY <1>5, <1>6, <1>7, <1>8, <2>2, <3>1 DEF At
  <2>3. r.since <= upto
    BY <1>3, <1>4, <1>5, RunnerTypes
  <2> QED
    BY <1>1, <1>2, <1>4, <1>5, <1>7, <2>1, <2>2, <2>3 DEF OnTheWay
<1>10. r.cap \in Nat /\ r.since \in Nat /\ r.history \in Nat /\ r.read \in Nat
       /\ r.ids \in Seq(Mails) /\ a # Job
  BY <1>2, <1>4, <1>5, <1>8, MailConstants, RunnerTypes
<1> QED
  BY <1>1, <1>5, <1>9, <1>10, RunStepHolds

LEMMA FetchHolds == ASSUME IInv, NEW a \in Runners, Fetch(a) PROVE IInv'
<1> DEFINE old == run[a]
           r == [old EXCEPT !.at = "fetched"]
<1>1. Goes(a, r) /\ old.at = "listed" /\ UNCHANGED <<gmail, message, token>>
  BY DEF Fetch
<1>2. DOMAIN r = Fields /\ r.at = "fetched" /\ r.cap = old.cap /\ r.since = old.since
      /\ r.history = old.history /\ r.read = old.read /\ r.ids = old.ids
      /\ r.window = old.window /\ r.replace = old.replace
  BY RunnerTypes DEF Fields
<1> HIDE DEF r
<1>3. a = Cli => OnTheWay(r)
  <2>1. a = Cli => OnTheWay(old)
    BY DEF IInv
  <2>2. Saves(r) => Saves(old)
    BY <1>2 DEF Saves, HitCap
  <2> QED
    BY <1>1, <1>2, <2>1, <2>2 DEF OnTheWay
<1> QED
  BY <1>1, <1>2, <1>3, RunnerTypes, RunStepHolds

\* What a commit stores: the batch it kept, beside what was there unless it replaces it.
LEMMA PersistHolds == ASSUME IInv, NEW a \in Runners, Persist(a) PROVE IInv'
<1> DEFINE old == run[a]
           batch == Kept(old)
           new == {Mid[batch[i]] : i \in DOMAIN batch}
           r == IF a = Cli THEN [old EXCEPT !.at = "stored"] ELSE Idle
<1>1. /\ old.at = "fetched" /\ Goes(a, r) /\ gmail' = gmail
      /\ message' = new \cup (IF ~old.replace THEN message ELSE {})
      /\ token' = IF ~old.replace THEN token ELSE 0
  BY DEF Persist
<1>2. Cli \in Runners /\ Job \in Runners /\ Cli # Job /\ Runners = {Cli, Job}
  BY MailConstants
<1>3. DOMAIN r = Fields /\ r.cap \in Nat /\ r.since \in Nat /\ r.history \in Nat
      /\ r.read \in Nat /\ (~IsWindowed(r.window) => r.ids \in Seq(Mails))
      /\ (a = Job => r.since = 0)
  <2>1. CASE a = Cli
    BY <2>1, RunnerTypes DEF Fields
  <2>2. CASE a # Cli
    BY <2>2, IdleIsTyped DEF Idle
  <2> QED
    BY <2>1, <2>2
<1>4. token \in Nat /\ gmail \in Seq(Mails) /\ token' \in Nat /\ Len(gmail) \in Nat
  BY <1>1, RunnerTypes
<1>5. Typed' /\ run'[a] = r /\ \A b \in Runners \ {a} : run'[b] = run[b]
  BY <1>1, <1>3, <1>4, GoesIsTyped DEF IInv
<1>6. TokenIsComplete'
  BY <1>1, <1>4 DEF IInv, TokenIsComplete
<1>7. JobsStartAfresh'
  BY <1>2, <1>3, <1>5 DEF IInv, JobsStartAfresh
<1>8. OnTheWay(run[Cli])'
  <2>1. CASE a = Job
    <3>1. run'[Cli] = run[Cli] /\ run[Cli].at = "idle"
      BY <1>1, <1>2, <1>5, <2>1, RunnerTypes
    <3> QED
      BY <3>1 DEF OnTheWay
  <2>2. CASE a = Cli
    <3>1. r.at = "stored" /\ r.window = old.window /\ r.replace = old.replace
          /\ r.since = old.since /\ r.history = old.history /\ r.ids = old.ids
          /\ r.cap = old.cap /\ run'[Cli] = r /\ run'[Job] = run[Job]
      BY <1>2, <1>5, <2>2, RunnerTypes DEF Fields
    <3>2. OnTheWay(old)
      BY <2>2 DEF IInv
    <3>3. (r.since = 0 \/ (r.since = token' /\ ~IsWindowed(r.window)))
          /\ (r.replace => IsWindowed(r.window)) /\ run[Job].at = "idle"
      BY <1>1, <3>1, <3>2 DEF OnTheWay
    <3>4. ASSUME Saves(r)
          PROVE  /\ r.history <= Len(gmail')
                 /\ Lists(r.ids, gmail', r.since + 1, r.history)
                 /\ \A i \in 1..r.history : Mid[gmail'[i]] \in message'
      <4>1. Saves(old) /\ ~old.replace
        BY <3>1, <3>2, <3>4, <1>1 DEF Saves, HitCap, OnTheWay
      <4>2. old.history <= Len(gmail) /\ Lists(old.ids, gmail, old.since + 1, old.history)
        BY <1>1, <3>2, <4>1 DEF OnTheWay
      <4>3. batch = old.ids
        BY <4>1 DEF Saves, Kept
      <4>4. old.ids \in Seq(Mails)
        BY <4>1, RunnerTypes DEF Saves
      <4>5. ASSUME NEW i \in 1..old.history PROVE Mid[gmail[i]] \in message'
        <5>1. CASE i <= token /\ old.since # 0
          BY <1>1, <1>4, <4>1, <4>5, <5>1 DEF IInv, TokenIsComplete
        <5>2. CASE i > old.since
          <6>1. i \in (old.since + 1)..old.history
            BY <4>5, <5>2, RunnerTypes
          <6>2. PICK j \in 1..Len(old.ids) : old.ids[j] = gmail[i]
            BY <4>2, <6>1 DEF Lists
          <6>3. j \in DOMAIN batch /\ batch[j] = gmail[i]
            BY <4>3, <4>4, <6>2
          <6> QED
            BY <1>1, <6>3
        <5>3. old.since = 0 \/ old.since = token
          BY <1>1, <3>2 DEF OnTheWay
        <5> QED
          BY <1>4, <4>5, <5>1, <5>2, <5>3, RunnerTypes
      <4> QED
        BY <1>1, <3>1, <4>2, <4>5
    <3> QED
      BY <1>1, <3>1, <3>3, <3>4 DEF OnTheWay, Saves, HitCap
  <2> QED
    BY <1>2, <2>1, <2>2
<1> QED
  BY <1>5, <1>6, <1>7, <1>8 DEF IInv

LEMMA SaveTokenHolds == ASSUME IInv, SaveToken PROVE IInv'
<1> DEFINE old == run[Cli]
<1>1. old.at = "stored" /\ Goes(Cli, Idle) /\ gmail' = gmail /\ message' = message
      /\ token' = IF Saves(old) THEN old.history ELSE token
  BY DEF SaveToken
<1>2. Cli \in Runners /\ Job \in Runners \ {Cli} /\ <<>> \in Seq(Mails)
  BY MailConstants
<1>3. old.history \in Nat /\ gmail \in Seq(Mails) /\ token \in Nat /\ OnTheWay(old)
  BY <1>2, RunnerTypes DEF IInv
<1>4. Typed' /\ run'[Cli] = Idle /\ \A b \in Runners \ {Cli} : run'[b] = run[b]
  BY <1>1, <1>2, <1>3, IdleIsTyped, GoesIsTyped DEF IInv
<1>5. TokenIsComplete'
  <2>1. CASE Saves(old)
    <3>1. old.history <= Len(gmail) /\ \A i \in 1..old.history : Mid[gmail[i]] \in message
      BY <1>1, <1>3, <2>1 DEF OnTheWay
    <3> QED
      BY <1>1, <1>3, <2>1, <3>1 DEF TokenIsComplete
  <2>2. CASE ~Saves(old)
    BY <1>1, <2>2 DEF IInv, TokenIsComplete
  <2> QED
    BY <2>1, <2>2
<1>6. OnTheWay(run[Cli])'
  BY <1>4, IdleIsTyped DEF OnTheWay
<1>7. JobsStartAfresh'
  BY <1>2, <1>4 DEF IInv, JobsStartAfresh
<1> QED
  BY <1>4, <1>5, <1>6, <1>7 DEF IInv

-----------------------------------------------------------------------------
LEMMA NextHolds == ASSUME ~Overlap, IInv, [Next]_vars PROVE IInv'
<1>1. ASSUME NEW m \in Mails, Arrive(m) PROVE IInv'
  BY <1>1, ArriveHolds
<1>2. ASSUME NEW w \in Windows, NEW replace \in BOOLEAN, NEW cap \in Caps,
             \/ BeginJob(w, replace, cap)
             \/ \E mode \in Modes : BeginCli(mode, w, replace, cap)
      PROVE  IInv'
  BY <1>2, BeginJobHolds, BeginCliHolds
<1>3. ASSUME NEW a \in Runners,
             SmokeCheck(a) \/ Look(a) \/ Fail(a)
      PROVE  IInv'
  BY <1>3, EndHolds DEF SmokeCheck, Look, Fail
<1>4. ASSUME NEW a \in Runners, \/ Profile(a)
                                \/ List(a)
                                \/ HistoryPage(a)
                                \/ Fetch(a)
                                \/ Persist(a)
      PROVE  IInv'
  BY <1>4, ProfileHolds, ListHolds, HistoryPageHolds, FetchHolds, PersistHolds
<1>5. CASE SaveToken
  BY <1>5, SaveTokenHolds
<1>6. CASE UNCHANGED vars
  BY <1>6 DEF vars, IInv, Typed, TokenIsComplete, OnTheWay, At, Saves, HitCap, JobsStartAfresh
<1> QED
  BY <1>1, <1>2, <1>3, <1>4, <1>5, <1>6 DEF Next

\* While one run is under way at a time, the saved token never claims a mail that is not
\* stored (_decide_sync_token, save_sync_token, clear_mailbox_snapshot_for_reingest).
THEOREM TheTokenIsComplete == ASSUME ~Overlap PROVE Spec => []TokenIsComplete
<1>1. Init => IInv
  BY InitHolds
<1>2. IInv /\ [Next]_vars => IInv'
  BY NextHolds
<1>3. IInv => TokenIsComplete
  BY DEF IInv
<1> QED
  BY <1>1, <1>2, <1>3, PTL DEF Spec

-----------------------------------------------------------------------------
\* The views.
\* While a request runs, extant has every message row since it began; what it derives from is
\* of them, and safe.
Extant == req.at # "idle" => stored \subseteq extant
MailHeld == req.at = "derive" => \A m \in req.mail : Safe(m) /\ m \in extant

\* The state of a project as the rows have it now.
StateNow(q) == StateOf(\A t \in Live(ThreadsOf(assigned, q)) : Past(stored, t), q \in Fresh(outcomes))

\* The stages of a list and of a project, and what each has read: current, unless a job has
\* committed since the request began.
KindHolds ==
  /\ req.kind = "list" => req.at \in {"list", "outcomes", "stamps", "assigns", "ends"}
  /\ req.kind = "project" => req.at \in {"project", "team", "weights", "assigns", "ends", "outcomes", "stamps"}
  /\ req.kind = "project" \/ (req.kind = "list" /\ req.at = "ends") => req.root \in Projects
ListReads == req.kind = "list" /\ req.began = writes =>
  /\ req.at = "stamps" => req.outcomes = outcomes
  /\ req.at \in {"assigns", "ends"} => req.recent = Fresh(outcomes)
  /\ req.at = "ends" => req.eligible = ThreadsOf(assigned, req.root)
  /\ \A s \in req.states : s[2] = StateNow(s[1])
ProjectReads == req.kind = "project" /\ req.began = writes =>
  /\ req.at = "ends" => req.eligible = ThreadsOf(assigned, req.root)
  /\ req.at \in {"outcomes", "stamps"} =>
       ((\A i \in req.info : i.old) <=> \A t \in Live(ThreadsOf(assigned, req.root)) : Past(stored, t))
  /\ req.at = "stamps" => req.outcomes = outcomes
ListingCurrent ==
  /\ \A s \in listing : s[2] = StateNow(s[1])
  /\ listing # {} /\ req.at # "idle" => req.began = writes
Begun == req.at # "idle" => req.began <= writes

MapInv == MapsTypeOK /\ Extant /\ MailHeld /\ KindHolds /\ ListReads /\ ProjectReads /\ ListingCurrent /\ Begun

-----------------------------------------------------------------------------
LEMMA Parts ==
  /\ \A m \in Universe : m.thread \in Threads /\ m.header \in Headers /\ Parties(m) \subseteq People
  /\ Contacts \subseteq People /\ People \subseteq Nodes /\ Projects \subseteq Nodes /\ Domains \subseteq Nodes
  /\ People \ {Owner} = Contacts /\ Owner \in People
  BY MapConstants DEF Threads, Headers, Parties, People, Nodes

LEMMA RowTypes ==
  ASSUME NEW rows, rows \subseteq Universe
  PROVE  /\ Addresses(rows) \subseteq People /\ Exchanges(rows) \subseteq Contacts
         /\ \A t : TakePart(rows, t) \subseteq People
         /\ Eligible(rows) \subseteq Threads
         /\ \A p : RoleOf(rows, p) \in Roles
<1>1. Addresses(rows) \subseteq People BY Parts DEF Addresses
<1>2. \A t : TakePart(rows, t) \subseteq People BY Parts DEF TakePart, Addresses
<1>3. Exchanges(rows) \subseteq Contacts
  <2>1. ASSUME NEW m \in rows PROVE Others(m) \subseteq Contacts
    <3>1. m.sender \in People /\ m.to \subseteq People BY MapConstants
    <3> QED BY <3>1, Parts DEF Others
  <2> QED BY <2>1 DEF Exchanges
<1>4. \A p : RoleOf(rows, p) \in Roles BY DEF RoleOf, Inferred, Roles
<1> QED BY <1>1, <1>2, <1>3, <1>4 DEF Eligible

LEMMA MembersType ==
  ASSUME NEW ps, ps \subseteq Projects, NEW rows, NEW known,
         NEW as, as \in Assignments(ps, rows) \/ (ps = {} /\ as = {}), rows \subseteq Universe
  PROVE  as \subseteq Threads \X ps /\ MembersOf(as, known, rows) \subseteq ps \X (Contacts \cap known)
<1>1. as \subseteq Threads \X ps BY DEF Assignments, Eligible
<1> QED BY <1>1 DEF MembersOf

LEMMA MapInitHolds == MapsInit => MapInv
<1> SUFFICES ASSUME MapsInit PROVE MapInv
  OBVIOUS
<1>1. PICK rows \in SUBSET Universe, later \in SUBSET Universe, enriched \in BOOLEAN, ps \in SUBSET Projects :
       \E as \in IF ps = {} THEN {{}} ELSE Assignments(ps, rows) :
         /\ rows \cap later = {} /\ (enriched \/ ps = {})
         /\ stored = rows \cup later
         /\ people = IF enriched THEN Addresses(rows) ELSE {}
         /\ edges = IF enriched THEN Exchanges(rows) ELSE {}
         /\ roles = [p \in Contacts |-> IF enriched THEN RoleOf(rows, p) ELSE "unknown"]
         /\ projects = ps /\ assigned = as
         /\ members = MembersOf(as, people, rows)
         /\ outcomes = {}
  BY DEF MapsInit
<1>2. /\ stored \subseteq Universe /\ people \subseteq People /\ edges \subseteq Contacts
      /\ projects \subseteq Projects
  BY <1>1, RowTypes
<1>3. roles \in [Contacts -> Roles] BY <1>1, RowTypes DEF Roles
<1>4. assigned \subseteq Threads \X projects /\ members \subseteq projects \X (Contacts \cap people)
  <2>1. PICK as \in IF ps = {} THEN {{}} ELSE Assignments(ps, rows) :
          projects = ps /\ assigned = as /\ members = MembersOf(as, people, rows)
    BY <1>1
  <2>2. as \in Assignments(ps, rows) \/ (ps = {} /\ as = {}) BY <2>1
  <2>3. /\ as \subseteq Threads \X ps
        /\ MembersOf(as, people, rows) \subseteq ps \X (Contacts \cap people)
    BY <2>2, MembersType
  <2> QED BY <2>1, <2>3
<1>5. req = NoRequest /\ answer = Nothing /\ listing = {} /\ extant = {} /\ writes = 0 /\ outcomes = {}
  BY DEF MapsInit
<1>6. NoRequest \in Request /\ Nothing \in Answer
  BY MapConstants DEF NoRequest, Request, Nothing, Answer, Kinds, Stages
<1>7. MapsTypeOK BY <1>2, <1>3, <1>4, <1>5, <1>6, MapConstants DEF MapsTypeOK
<1> QED
  BY <1>5, <1>7
  DEF MapInv, Extant, MailHeld, KindHolds, ListReads, ProjectReads, ListingCurrent, Begun, NoRequest

-----------------------------------------------------------------------------
\* A commit: what was read before it is no longer current, and the listing is gone.
LEMMA CommitHolds ==
  ASSUME MapInv, Commit,
         stored' \subseteq Universe, people' \subseteq People, roles' \in [Contacts -> Roles],
         edges' \subseteq Contacts, projects' \subseteq Projects, assigned' \subseteq Threads \X projects',
         members' \subseteq projects' \X (Contacts \cap people'), outcomes' \subseteq Outcome
  PROVE  MapInv'
<1>1. /\ writes < MaxWrites /\ writes' = writes + 1 /\ extant' = extant \cup stored' /\ listing' = {}
      /\ req' = req /\ answer' = answer
  BY DEF Commit
<1>2. writes \in 0..MaxWrites /\ req \in Request /\ req.began \in 0..MaxWrites BY DEF MapInv, MapsTypeOK, Request
<1>3. MapsTypeOK' BY <1>1, <1>2, MapConstants DEF MapInv, MapsTypeOK
<1>4. Extant' /\ MailHeld' /\ KindHolds' BY <1>1 DEF MapInv, Extant, MailHeld, KindHolds
<1>5. Begun' BY <1>1, <1>2, MapConstants DEF MapInv, Begun
<1>6. ListingCurrent' BY <1>1 DEF ListingCurrent
<1>7. req.at # "idle" => req'.began # writes' BY <1>1, <1>2, MapConstants DEF MapInv, Begun
<1>8. req.kind \in {"list", "project"} => req.at # "idle" BY DEF MapInv, KindHolds
<1>9. ListReads' /\ ProjectReads' BY <1>1, <1>7, <1>8 DEF ListReads, ProjectReads
<1> QED BY <1>3, <1>4, <1>5, <1>6, <1>9 DEF MapInv

LEMMA JobsHold == ASSUME MapInv, Jobs PROVE MapInv'
<1>1. /\ stored \subseteq Universe /\ people \subseteq People /\ roles \in [Contacts -> Roles]
      /\ edges \subseteq Contacts /\ projects \subseteq Projects
      /\ assigned \subseteq Threads \X projects /\ members \subseteq projects \X (Contacts \cap people)
      /\ outcomes \subseteq Outcome
  BY DEF MapInv, MapsTypeOK
<1>2. CASE AppendMail
  <2>1. stored' \subseteq Universe /\ Commit /\ UNCHANGED <<people, roles, edges, projects, assigned, members, outcomes>>
    BY <1>1, <1>2 DEF AppendMail
  <2> QED BY <1>1, <2>1, CommitHolds
<1>3. CASE Replace
  <2>1. /\ stored' \subseteq Universe /\ Commit /\ people' = {} /\ edges' = {} /\ projects' = {} /\ assigned' = {}
        /\ members' = {} /\ outcomes' = {} /\ roles' \in [Contacts -> Roles]
    BY <1>3 DEF Replace, Roles
  <2> QED BY <2>1, CommitHolds
<1>4. CASE Enrich
  <2>1. /\ Commit /\ UNCHANGED <<stored, projects, assigned, members, outcomes>>
        /\ people' = people \cup Addresses(stored) /\ edges' = edges \cup Exchanges(stored)
        /\ roles' = [p \in Contacts |-> IF p \in Addresses(stored) THEN RoleOf(stored, p) ELSE roles[p]]
    BY <1>4 DEF Enrich
  <2>2. people' \subseteq People /\ edges' \subseteq Contacts BY <1>1, <2>1, RowTypes
  <2>3. roles' \in [Contacts -> Roles] BY <1>1, <2>1, RowTypes
  <2> QED BY <1>1, <2>1, <2>2, <2>3, CommitHolds
<1>5. CASE Materialize
  <2>1. PICK ps \in SUBSET Projects, as \in SUBSET (Eligible(stored) \X Projects) :
          /\ as \in Assignments(ps, stored)
          /\ projects' = ps /\ assigned' = as
          /\ members' = MembersOf(as, people, stored)
          /\ outcomes' = {o \in outcomes : o.project \in ps}
          /\ UNCHANGED <<stored, people, roles, edges>>
          /\ Commit
    BY <1>5 DEF Materialize, Assignments
  <2>2. /\ as \subseteq Threads \X ps
        /\ MembersOf(as, people, stored) \subseteq ps \X (Contacts \cap people)
    BY <1>1, <2>1, MembersType
  <2>3. assigned' \subseteq Threads \X projects' /\ members' \subseteq projects' \X (Contacts \cap people')
    BY <2>1, <2>2
  <2> QED BY <1>1, <2>1, <2>3, CommitHolds
<1>6. CASE Extract
  <2>1. PICK a \in assigned, m \in stored :
          /\ outcomes' = outcomes \cup {[project |-> a[2], cites |-> m.header]}
          /\ UNCHANGED <<stored, people, roles, edges, projects, assigned, members>>
          /\ Commit
    BY <1>6 DEF Extract
  <2>2. a[2] \in Projects /\ m.header \in Headers BY <1>1, Parts
  <2>3. outcomes' \subseteq Outcome BY <1>1, <2>1, <2>2 DEF Outcome
  <2> QED BY <1>1, <2>1, <2>3, CommitHolds
<1> QED BY <1>2, <1>3, <1>4, <1>5, <1>6 DEF Jobs

-----------------------------------------------------------------------------
\* The request that follows q when it goes on to stage a.
Reads(r, q, a) == r \in Request /\ r.at = a /\ r.kind = q.kind /\ r.began = q.began

\* The three kinds of step a request makes: it begins, reads a statement, responds.
LEMMA BeginHolds ==
  ASSUME MapInv, NEW r \in Request, Begin(r), r.at \in {"people", "owner", "contact", "list", "project"},
         r.kind = "list" => r.at = "list", r.states = {},
         r.kind = "project" => r.at = "project" /\ r.root \in Projects
  PROVE  MapInv'
<1>1. /\ req.at = "idle" /\ req' = [r EXCEPT !.began = writes] /\ answer' = Nothing /\ extant' = stored
      /\ UNCHANGED <<stored, people, roles, edges, projects, assigned, members, outcomes, listing, writes>>
  BY DEF Begin, db
<1>2. MapsTypeOK BY DEF MapInv
<1>3. writes \in 0..MaxWrites BY <1>2 DEF MapsTypeOK
<1>4. req' \in Request BY <1>1, <1>3 DEF Request
<1>5. /\ req'.at = r.at /\ req'.kind = r.kind /\ req'.states = {} /\ req'.root = r.root /\ req'.began = writes
  BY <1>1 DEF Request
<1>6. Nothing \in Answer BY DEF Nothing, Answer
<1>7. MapsTypeOK' BY <1>1, <1>2, <1>4, <1>6 DEF MapsTypeOK
<1>8. Extant' /\ MailHeld' /\ KindHolds' BY <1>1, <1>5 DEF Extant, MailHeld, KindHolds
<1>9. ListReads' /\ ProjectReads' BY <1>5 DEF ListReads, ProjectReads
<1>10. \A q : StateNow(q)' = StateNow(q) BY <1>1 DEF StateNow, Live, Past, Fresh
<1>11. ListingCurrent' /\ Begun'
  BY <1>1, <1>3, <1>5, <1>10 DEF MapInv, ListingCurrent, Begun
<1> QED BY <1>7, <1>8, <1>9, <1>11 DEF MapInv

LEMMA GoHolds ==
  ASSUME MapInv, NEW r \in Request, Go(r), req.at # "idle", r.at # "idle",
         r.kind = req.kind, r.began = req.began,
         r.at = "derive" => \A m \in r.mail : Safe(m) /\ m \in extant
  PROVE  /\ MapsTypeOK' /\ Extant' /\ MailHeld' /\ ListingCurrent' /\ Begun'
         /\ req' = r /\ \A q : StateNow(q)' = StateNow(q)
         /\ UNCHANGED <<stored, people, roles, edges, projects, assigned, members, outcomes, extant, writes>>
<1>1. /\ req' = r /\ answer' = answer /\ listing' = listing
      /\ UNCHANGED <<stored, people, roles, edges, projects, assigned, members, outcomes, extant, writes>>
  BY DEF Go, db
<1>2. MapsTypeOK' BY <1>1 DEF MapInv, MapsTypeOK
<1>3. Extant' /\ MailHeld' BY <1>1 DEF MapInv, Extant, MailHeld
<1>4. \A q : StateNow(q)' = StateNow(q) BY <1>1 DEF StateNow, Live, Past, Fresh
<1>5. ListingCurrent' /\ Begun' BY <1>1, <1>4 DEF MapInv, ListingCurrent, Begun
<1> QED BY <1>1, <1>2, <1>3, <1>4, <1>5

\* A request that is neither a list nor a project reads nothing the listing depends on.
LEMMA GoElsewhere ==
  ASSUME MapInv, NEW r \in Request, Go(r), req.at # "idle", r.at # "idle",
         r.kind = req.kind, r.began = req.began, req.kind \notin {"list", "project"},
         r.at = "derive" => \A m \in r.mail : Safe(m) /\ m \in extant
  PROVE  MapInv'
<1>1. MapsTypeOK' /\ Extant' /\ MailHeld' /\ ListingCurrent' /\ Begun' /\ req' = r BY GoHolds
<1>2. KindHolds' /\ ListReads' /\ ProjectReads' BY <1>1 DEF KindHolds, ListReads, ProjectReads
<1> QED BY <1>1, <1>2 DEF MapInv

LEMMA RespondHolds ==
  ASSUME MapInv, NEW code \in {200, 404}, NEW nodes \in SUBSET Nodes, NEW es \in SUBSET Edge,
         NEW states \in SUBSET (Projects \X States), Respond(code, nodes, es, states),
         req.kind = "list" /\ req.began = writes => \A s \in states : s[2] = StateNow(s[1])
  PROVE  MapInv'
<1>1. /\ answer' = [code |-> code, nodes |-> nodes, edges |-> es, states |-> states]
      /\ listing' = IF req.kind = "list" /\ req.began = writes THEN states ELSE listing
      /\ req' = NoRequest
      /\ UNCHANGED <<stored, people, roles, edges, projects, assigned, members, outcomes, extant, writes>>
  BY DEF Respond, db
<1>2. MapsTypeOK BY DEF MapInv
<1>3. answer' \in Answer BY <1>1 DEF Answer
<1>4. NoRequest \in Request /\ NoRequest.at = "idle" /\ NoRequest.kind = "map"
  BY MapConstants DEF NoRequest, Request, Kinds, Stages
<1>5. MapsTypeOK' BY <1>1, <1>2, <1>3, <1>4 DEF MapsTypeOK
<1>6. \A q : StateNow(q)' = StateNow(q) BY <1>1 DEF StateNow, Live, Past, Fresh
<1>7. ListingCurrent' BY <1>1, <1>4, <1>6 DEF MapInv, ListingCurrent
<1>8. Extant' /\ MailHeld' /\ KindHolds' /\ ListReads' /\ ProjectReads' /\ Begun'
  BY <1>1, <1>4 DEF Extant, MailHeld, KindHolds, ListReads, ProjectReads, Begun
<1> QED BY <1>5, <1>7, <1>8 DEF MapInv

LEMMA NotFoundHolds == ASSUME MapInv, NotFound PROVE MapInv'
BY RespondHolds DEF NotFound

-----------------------------------------------------------------------------
\* What each statement of a map reads is of its type.
LEMMA NextStage ==
  ASSUME NEW r \in Request, NEW a \in Stages PROVE Reads([r EXCEPT !.at = a], r, a)
BY DEF Request, Reads

LEMMA NextRead ==
  ASSUME NEW r \in Request, NEW a \in Stages
  PROVE  /\ \A s \in SUBSET People : Reads([r EXCEPT !.at = a, !.people = s], r, a)
         /\ \A s \in SUBSET People : Reads([r EXCEPT !.at = a, !.known = s], r, a)
         /\ \A s \in SUBSET Projects : Reads([r EXCEPT !.at = a, !.projects = s], r, a)
         /\ \A s \in SUBSET (Projects \X Contacts) : Reads([r EXCEPT !.at = a, !.members = s], r, a)
         /\ \A s \in SUBSET Contacts : Reads([r EXCEPT !.at = a, !.edges = s], r, a)
         /\ \A s \in SUBSET Threads : Reads([r EXCEPT !.at = a, !.eligible = s], r, a)
         /\ \A s \in SUBSET (Threads \X Projects) : Reads([r EXCEPT !.at = a, !.assigned = s], r, a)
         /\ \A s \in SUBSET Info : Reads([r EXCEPT !.at = a, !.info = s], r, a)
         /\ \A s \in SUBSET Universe : Reads([r EXCEPT !.at = a, !.mail = s], r, a)
         /\ \A s \in SUBSET Outcome : Reads([r EXCEPT !.at = a, !.outcomes = s], r, a)
         /\ \A s \in SUBSET Projects : Reads([r EXCEPT !.at = a, !.recent = s], r, a)
         /\ \A s \in SUBSET (Projects \X States) : Reads([r EXCEPT !.at = a, !.states = s], r, a)
         /\ \A n \in Nodes : Reads([r EXCEPT !.at = a, !.root = n], r, a)
<1> DEFINE p == [r EXCEPT !.at = a]
<1>1. Reads(p, r, a) BY NextStage
<1>2. \A s : /\ [r EXCEPT !.at = a, !.people = s] = [p EXCEPT !.people = s]
             /\ [r EXCEPT !.at = a, !.known = s] = [p EXCEPT !.known = s]
             /\ [r EXCEPT !.at = a, !.projects = s] = [p EXCEPT !.projects = s]
             /\ [r EXCEPT !.at = a, !.members = s] = [p EXCEPT !.members = s]
             /\ [r EXCEPT !.at = a, !.edges = s] = [p EXCEPT !.edges = s]
             /\ [r EXCEPT !.at = a, !.eligible = s] = [p EXCEPT !.eligible = s]
             /\ [r EXCEPT !.at = a, !.assigned = s] = [p EXCEPT !.assigned = s]
  OBVIOUS
<1>3. \A s : /\ [r EXCEPT !.at = a, !.info = s] = [p EXCEPT !.info = s]
             /\ [r EXCEPT !.at = a, !.mail = s] = [p EXCEPT !.mail = s]
             /\ [r EXCEPT !.at = a, !.outcomes = s] = [p EXCEPT !.outcomes = s]
             /\ [r EXCEPT !.at = a, !.recent = s] = [p EXCEPT !.recent = s]
             /\ [r EXCEPT !.at = a, !.states = s] = [p EXCEPT !.states = s]
             /\ [r EXCEPT !.at = a, !.root = s] = [p EXCEPT !.root = s]
  OBVIOUS
<1> HIDE DEF p
<1>4. \A s \in SUBSET People : Reads([p EXCEPT !.people = s], r, a) BY <1>1 DEF Request, Reads
<1>5. \A s \in SUBSET People : Reads([p EXCEPT !.known = s], r, a) BY <1>1 DEF Request, Reads
<1>6. \A s \in SUBSET Projects : Reads([p EXCEPT !.projects = s], r, a) BY <1>1 DEF Request, Reads
<1>7. \A s \in SUBSET (Projects \X Contacts) : Reads([p EXCEPT !.members = s], r, a)
  BY <1>1 DEF Request, Reads
<1>8. \A s \in SUBSET Contacts : Reads([p EXCEPT !.edges = s], r, a) BY <1>1 DEF Request, Reads
<1>9. \A s \in SUBSET Threads : Reads([p EXCEPT !.eligible = s], r, a) BY <1>1 DEF Request, Reads
<1>10. \A s \in SUBSET (Threads \X Projects) : Reads([p EXCEPT !.assigned = s], r, a)
  BY <1>1 DEF Request, Reads
<1>11. \A s \in SUBSET Info : Reads([p EXCEPT !.info = s], r, a) BY <1>1 DEF Request, Reads
<1>12. \A s \in SUBSET Universe : Reads([p EXCEPT !.mail = s], r, a) BY <1>1 DEF Request, Reads
<1>13. \A s \in SUBSET Outcome : Reads([p EXCEPT !.outcomes = s], r, a) BY <1>1 DEF Request, Reads
<1>14. \A s \in SUBSET Projects : Reads([p EXCEPT !.recent = s], r, a) BY <1>1 DEF Request, Reads
<1>15. \A s \in SUBSET (Projects \X States) : Reads([p EXCEPT !.states = s], r, a)
  BY <1>1 DEF Request, Reads
<1>16. \A n \in Nodes : Reads([p EXCEPT !.root = n], r, a) BY <1>1 DEF Request, Reads
<1> QED
  BY <1>2, <1>3, <1>4, <1>5, <1>6, <1>7, <1>8, <1>9, <1>10, <1>11, <1>12, <1>13, <1>14, <1>15, <1>16

LEMMA InfoType ==
  ASSUME MapsTypeOK
  PROVE  {[thread |-> t, projects |-> ProjectsOfThread(req.assigned, t),
           with |-> (TakePart(stored, t) \cap req.known) \ {Owner}, old |-> Past(stored, t)] :
             t \in {u \in req.eligible : (\E m \in stored : m.thread = u)
                                         /\ ProjectsOfThread(req.assigned, u) # {}}} \subseteq Info
<1> SUFFICES ASSUME NEW t \in req.eligible
             PROVE  [thread |-> t, projects |-> ProjectsOfThread(req.assigned, t),
                     with |-> (TakePart(stored, t) \cap req.known) \ {Owner}, old |-> Past(stored, t)] \in Info
  OBVIOUS
<1>1. req.eligible \subseteq Threads /\ req.assigned \subseteq Threads \X Projects /\ req.known \subseteq People
  BY DEF MapsTypeOK, Request
<1>2. ProjectsOfThread(req.assigned, t) \subseteq Projects BY <1>1 DEF ProjectsOfThread
<1>3. (TakePart(stored, t) \cap req.known) \ {Owner} \subseteq Contacts BY <1>1, Parts
<1>4. Past(stored, t) \in BOOLEAN BY DEF Past
<1> QED BY <1>1, <1>2, <1>3, <1>4 DEF Info

LEMMA AskMapHolds == ASSUME MapInv, AskMap PROVE MapInv'
<1>0. \A mode \in {"graph", "owner", "org", "project"} : RootsOf[mode] \subseteq Nodes
  BY MapConstants, Parts DEF RootsOf
<1>1. PICK mode \in {"graph", "owner", "org", "project"}, f \in Filters, root \in Nodes \cup {NoNode} :
        Begin([NoRequest EXCEPT !.at = "people", !.mode = mode, !.root = root, !.types = f.types,
                           !.weight = f.weight, !.recency = f.recency])
  BY <1>0 DEF AskMap
<1> DEFINE r == [NoRequest EXCEPT !.at = "people", !.mode = mode, !.root = root, !.types = f.types,
                             !.weight = f.weight, !.recency = f.recency]
<1>2. f.types \subseteq Types /\ f.weight \in Nat /\ f.recency \in BOOLEAN BY MapConstants
<1>3. root \in Nodes \cup {NoNode} BY <1>1
<1>4. Begin(r) BY <1>1
<1> DEFINE p == [NoRequest EXCEPT !.at = "people"]
           q == [p EXCEPT !.mode = mode]
<1>5. r = [q EXCEPT !.root = root, !.types = f.types, !.weight = f.weight, !.recency = f.recency] OBVIOUS
<1>6. NoRequest \in Request /\ NoRequest.kind = "map" /\ NoRequest.states = {}
  BY MapConstants DEF NoRequest, Request, Kinds, Stages
<1>7. p \in Request /\ p.at = "people" /\ p.kind = "map" /\ p.states = {} BY <1>6 DEF Request, Stages
<1> HIDE DEF p
<1>8. q \in Request /\ q.at = "people" /\ q.kind = "map" /\ q.states = {} BY <1>7 DEF Request
<1> HIDE DEF q
<1>9. r \in Request /\ r.at = "people" /\ r.kind = "map" /\ r.states = {}
  BY <1>2, <1>3, <1>5, <1>8 DEF Request
<1> HIDE DEF r
<1> QED BY <1>4, <1>9, BeginHolds

LEMMA ReadsHold ==
  ASSUME MapInv,
         \/ ReadPeople \/ ReadKnown \/ ReadProjects \/ ReadMembers \/ ReadEdges \/ ReadEligible
         \/ ReadAssigned \/ ReadThreads \/ ReadMail
  PROVE  MapInv'
<1>1. MapsTypeOK /\ KindHolds /\ Extant BY DEF MapInv
<1>2. req \in Request BY <1>1 DEF MapsTypeOK
<1>3. /\ stored \subseteq Universe /\ people \subseteq People /\ edges \subseteq Contacts /\ projects \subseteq Projects
      /\ assigned \subseteq Threads \X Projects /\ members \subseteq Projects \X Contacts
  BY <1>1 DEF MapsTypeOK
<1>4. CASE ReadPeople
  <2> DEFINE r == [req EXCEPT !.at = "known", !.people = people]
  <2>1. Reads(r, req, "known") BY <1>2, <1>3, NextRead DEF Stages
  <2>3. req.at = "people" /\ Go(r) BY <1>4 DEF ReadPeople
  <2> HIDE DEF r
  <2> QED BY <1>1, <2>1, <2>3, GoElsewhere DEF KindHolds, Reads
<1>5. CASE ReadKnown
  <2> DEFINE r == [req EXCEPT !.at = "projects", !.known = people]
  <2>1. Reads(r, req, "projects") BY <1>2, <1>3, NextRead DEF Stages
  <2>3. req.at = "known" /\ Go(r) BY <1>5 DEF ReadKnown
  <2> HIDE DEF r
  <2> QED BY <1>1, <2>1, <2>3, GoElsewhere DEF KindHolds, Reads
<1>6. CASE ReadProjects
  <2> DEFINE r == [req EXCEPT !.at = "members", !.projects = projects]
  <2>1. Reads(r, req, "members") BY <1>2, <1>3, NextRead DEF Stages
  <2>3. req.at = "projects" /\ Go(r) BY <1>6 DEF ReadProjects
  <2> HIDE DEF r
  <2> QED BY <1>1, <2>1, <2>3, GoElsewhere DEF KindHolds, Reads
<1>7. CASE ReadMembers
  <2> DEFINE r == [req EXCEPT !.at = "edges", !.members = {m \in members : m[1] \in req.projects}]
  <2>1. Reads(r, req, "edges") BY <1>2, <1>3, NextRead DEF Stages
  <2>3. req.at = "members" /\ Go(r) BY <1>7 DEF ReadMembers
  <2> HIDE DEF r
  <2> QED BY <1>1, <2>1, <2>3, GoElsewhere DEF KindHolds, Reads
<1>8. CASE ReadEdges
  <2> DEFINE r == [req EXCEPT !.at = "eligible", !.edges = edges]
  <2>1. Reads(r, req, "eligible") BY <1>2, <1>3, NextRead DEF Stages
  <2>3. req.at = "edges" /\ Go(r) BY <1>8 DEF ReadEdges
  <2> HIDE DEF r
  <2> QED BY <1>1, <2>1, <2>3, GoElsewhere DEF KindHolds, Reads
<1>9. CASE ReadEligible
  <2> DEFINE r == [req EXCEPT !.at = "assigned", !.eligible = Eligible(stored)]
  <2>0. Eligible(stored) \subseteq Threads BY DEF Eligible
  <2>1. Reads(r, req, "assigned") BY <1>2, <2>0, NextRead DEF Stages
  <2>3. req.at = "eligible" /\ Go(r) BY <1>9 DEF ReadEligible
  <2> HIDE DEF r
  <2> QED BY <1>1, <2>1, <2>3, GoElsewhere DEF KindHolds, Reads
<1>10. CASE ReadAssigned
  <2> DEFINE r == [req EXCEPT !.at = "threads", !.assigned = assigned]
  <2>1. Reads(r, req, "threads") BY <1>2, <1>3, NextRead DEF Stages
  <2>3. req.at = "assigned" /\ Go(r) BY <1>10 DEF ReadAssigned
  <2> HIDE DEF r
  <2> QED BY <1>1, <2>1, <2>3, GoElsewhere DEF KindHolds, Reads
<1>11. CASE ReadThreads
  <2> DEFINE info == {[thread |-> t, projects |-> ProjectsOfThread(req.assigned, t),
           with |-> (TakePart(stored, t) \cap req.known) \ {Owner}, old |-> Past(stored, t)] :
             t \in {u \in req.eligible : (\E m \in stored : m.thread = u)
                                         /\ ProjectsOfThread(req.assigned, u) # {}}}
             r == [req EXCEPT !.at = "mail", !.info = info]
  <2>1. info \subseteq Info BY <1>1, InfoType
  <2>2. req.at = "threads" /\ Go(r) BY <1>11 DEF ReadThreads
  <2> HIDE DEF info
  <2>3. Reads(r, req, "mail") BY <1>2, <2>1, NextRead DEF Stages
  <2> HIDE DEF r
  <2> QED BY <1>1, <2>2, <2>3, GoElsewhere DEF KindHolds, Reads
<1>12. CASE ReadMail
  <2> DEFINE mail == {m \in stored : Safe(m) /\ m.thread \in req.eligible}
             r == [req EXCEPT !.at = "derive", !.mail = mail]
  <2>1. mail \subseteq Universe BY <1>3
  <2>2. req.at = "mail" /\ Go(r) BY <1>12 DEF ReadMail
  <2>3. \A m \in mail : Safe(m) /\ m \in extant BY <1>1, <2>2 DEF Extant
  <2> HIDE DEF mail
  <2>4. Reads(r, req, "derive") BY <1>2, <2>1, NextRead DEF Stages
  <2>5. r.mail = mail BY <1>2 DEF Request
  <2> HIDE DEF r
  <2> QED BY <1>1, <2>2, <2>3, <2>4, <2>5, GoElsewhere DEF KindHolds, Reads
<1> QED BY <1>4, <1>5, <1>6, <1>7, <1>8, <1>9, <1>10, <1>11, <1>12

-----------------------------------------------------------------------------
\* The edges a map is built from are edges between nodes; a map answers with some of them.
LEMMA EdgesAreEdges ==
  ASSUME MapsTypeOK
  PROVE  /\ Direct(req) \subseteq Edge /\ Copresence(req) \subseteq Edge /\ Relevant(req) \subseteq People
         /\ \A ps \in SUBSET People : Affiliated(req, ps) \subseteq Edge /\ Bridges(req, ps) \subseteq Edge
<1>1. /\ req.people \subseteq People /\ req.projects \subseteq Projects /\ req.members \subseteq Projects \X Contacts
      /\ req.edges \subseteq Contacts /\ req.info \subseteq Info /\ req.mail \subseteq Universe
  BY DEF MapsTypeOK, Request
<1>2. \A p : HeadersWith(req, p) \subseteq Headers BY <1>1, Parts DEF HeadersWith
<1>3. \A p : ProjectsOf(req, p) \subseteq Projects BY <1>1 DEF ProjectsOf
<1>4. \A i \in req.info : i.thread \in Threads /\ i.projects \subseteq Projects /\ i.with \subseteq Contacts
  BY <1>1 DEF Info
<1>5. Direct(req) \subseteq Edge
  <2> SUFFICES ASSUME NEW p \in (req.edges \cap req.people) \ {Owner}
               PROVE  Rel("direct_exchange", {Owner, p}, HeadersWith(req, p), {}, {}) \in Edge
    BY DEF Direct
  <2>1. {Owner, p} \subseteq Nodes BY <1>1, Parts
  <2> QED BY <1>2, <2>1 DEF Rel, Edge, Types
<1>6. Together(req) \subseteq Edge
  <2> SUFFICES ASSUME NEW pair \in Pairs
               PROVE  Rel("thread_copresence", pair, {}, {i.thread : i \in {j \in req.info : pair \subseteq j.with}},
                          UNION {i.projects : i \in {j \in req.info : pair \subseteq j.with}}) \in Edge
    BY DEF Together
  <2>1. pair \subseteq Nodes BY Parts DEF Pairs, kSubset
  <2>2. {i.thread : i \in {j \in req.info : pair \subseteq j.with}} \subseteq Threads BY <1>4
  <2>3. UNION {i.projects : i \in {j \in req.info : pair \subseteq j.with}} \subseteq Projects BY <1>4
  <2> QED BY <2>1, <2>2, <2>3 DEF Rel, Edge, Types
<1>7. Colleagues(req) \subseteq Edge
  <2> SUFFICES ASSUME NEW pair \in Pairs
               PROVE  Rel("project_copresence", pair, {}, {}, Shared(req, pair)) \in Edge
    BY DEF Colleagues
  <2>1. pair \subseteq Nodes BY Parts DEF Pairs, kSubset
  <2>2. Shared(req, pair) \subseteq Projects BY DEF Shared
  <2> QED BY <2>1, <2>2 DEF Rel, Edge, Types
<1>8. Relevant(req) \subseteq People
  <2>1. UNION {i.with : i \in req.info} \subseteq Contacts BY <1>4
  <2>2. {m[2] : m \in req.members} \subseteq Contacts BY <1>1
  <2> QED BY <1>1, <2>1, <2>2, Parts DEF Relevant
<1>9. ASSUME NEW ps \in SUBSET People PROVE Affiliated(req, ps) \subseteq Edge
  <2> SUFFICES ASSUME NEW p \in (ps \cap req.people) \ {Owner}, Domain[p] # NoNode
               PROVE  Rel("org_affiliation", {p, Domain[p]}, {}, {}, {}) \in Edge
    BY DEF Affiliated
  <2>1. p \in Contacts BY Parts
  <2>2. Domain[p] \in Domains BY <2>1 DEF Domains
  <2>3. {p, Domain[p]} \subseteq Nodes BY <2>1, <2>2, Parts
  <2> QED BY <2>3 DEF Rel, Edge, Types
<1>10. ASSUME NEW ps \in SUBSET People PROVE Bridges(req, ps) \subseteq Edge
  <2> SUFFICES ASSUME NEW b \in (ps \cap req.people) \X req.projects
               PROVE  Rel("bridge", {b[1], b[2]}, {}, {}, ProjectsOf(req, b[1])) \in Edge
    BY DEF Bridges
  <2>1. {b[1], b[2]} \subseteq Nodes BY <1>1, Parts
  <2> QED BY <1>3, <2>1 DEF Rel, Edge, Types
<1> QED BY <1>5, <1>6, <1>7, <1>8, <1>9, <1>10 DEF Copresence

\* What _finalize answers with: edges of those it was given, nodes of those that were built, and
\* unless it is left out by the cap, both ends of every edge that has both among the built.
Answers(built, es) ==
  \E ns \in SUBSET built, ks \in SUBSET es :
    /\ Respond(200, ns, ks, {})
    /\ (\A e \in es : e.ends \subseteq built) => EndsOf(ks) \subseteq ns

LEMMA FinalizeAnswers ==
  ASSUME NEW built, NEW es, NEW root, Finalize(req, built, es, root)
  PROVE  Answers(built, es)
<1> DEFINE kept == Passing(req, es)  nodes == built \cap (EndsOf(kept) \cup {root})
<1>1. kept \subseteq es /\ nodes \subseteq built BY DEF Passing
<1>2. (\A e \in es : e.ends \subseteq built) => EndsOf(kept) \subseteq nodes
  <2> SUFFICES ASSUME \A e \in es : e.ends \subseteq built, NEW x \in EndsOf(kept) PROVE x \in built
    OBVIOUS
  <2>1. PICK e \in kept : x \in e.ends BY DEF EndsOf
  <2> QED BY <1>1, <2>1
<1>3. IF req.mode = "graph" THEN FinalizeGraph(nodes, kept) ELSE Respond(200, nodes, kept, {})
  BY DEF Finalize
<1> HIDE DEF kept, nodes
<1>4. CASE req.mode = "graph"
  <2>1. PICK ns \in Capped(nodes) : \E ks \in AtMost(MaxEdges, {e \in kept : e.ends \subseteq ns}) : Respond(200, ns, ks, {})
    BY <1>3, <1>4 DEF FinalizeGraph
  <2>2. PICK ks \in AtMost(MaxEdges, {e \in kept : e.ends \subseteq ns}) : Respond(200, ns, ks, {})
    BY <2>1
  <2>3. \A n, S : \A s \in AtMost(n, S) : s \subseteq S BY DEF AtMost, kSubset
  <2>4. ns \subseteq nodes BY <2>3 DEF Capped
  <2>5. ks \subseteq {e \in kept : e.ends \subseteq ns} BY <2>3
  <2>6. EndsOf(ks) \subseteq ns BY <2>5 DEF EndsOf
  <2> QED BY <1>1, <2>2, <2>4, <2>5, <2>6 DEF Answers
<1>5. CASE req.mode # "graph" BY <1>1, <1>2, <1>3, <1>5 DEF Answers
<1> QED BY <1>4, <1>5

\* Only the direct relationships are of their type.
LEMMA OthersAreNotDirect ==
  /\ \A e \in Copresence(req) : e.type # "direct_exchange"
  /\ \A ps : \A e \in Affiliated(req, ps) \cup Bridges(req, ps) : e.type # "direct_exchange"
<1>1. \A e \in Copresence(req) : e.type # "direct_exchange" BY DEF Copresence, Together, Colleagues, Rel
<1>2. \A ps : \A e \in Affiliated(req, ps) \cup Bridges(req, ps) : e.type # "direct_exchange"
  BY DEF Affiliated, Bridges, Rel
<1> QED BY <1>1, <1>2

\* What a map is derived from: edges, of which those that are direct relationships are among
\* Direct, and except for a project's both ends of each are built.
Derived(built, es) ==
  /\ built \subseteq Nodes /\ es \subseteq Edge
  /\ \A e \in es : e.type = "direct_exchange" => e \in Direct(req)
  /\ req.mode # "project" => \A e \in es : e.ends \subseteq built
  /\ Answers(built, es)

LEMMA EndsAreNodes == ASSUME NEW es \in SUBSET Edge PROVE EndsOf(es) \subseteq Nodes
BY DEF EndsOf, Edge

LEMMA ProjectTreeDerives ==
  ASSUME MapsTypeOK, req.mode = "project", NEW q \in Projects, ProjectTree(req, q)
  PROVE  \E built, es : Derived(built, es)
<1> DEFINE team == {m[2] : m \in {n \in req.members : n[1] = q}}
           branches == {Rel("project_copresence", {q, p}, {}, {}, {q}) : p \in team \cap req.people}
           links == {e \in Copresence(req) : e.ends \subseteq team}
           orgs == Wanted(req, Affiliated(req, team))
           built == {q} \cup (team \cap req.people) \cup EndsOf(orgs)
           es == Wanted(req, branches \cup links) \cup orgs
<1>1. req.members \subseteq Projects \X Contacts BY DEF MapsTypeOK, Request
<1>2. team \subseteq People BY <1>1, Parts
<1>3. Finalize(req, built, es, q) BY DEF ProjectTree
<1>4. branches \subseteq Edge /\ \A e \in branches : e.type # "direct_exchange"
  <2>1. \A p \in team : {q, p} \subseteq Nodes BY <1>2, Parts
  <2> QED BY <2>1 DEF Rel, Edge, Types
<1>5. links \subseteq Copresence(req) OBVIOUS
<1>6. orgs \subseteq Affiliated(req, team) BY DEF Wanted
<1> HIDE DEF branches, links, team
<1>7. orgs \subseteq Edge BY <1>2, <1>6, EdgesAreEdges
<1> HIDE DEF orgs
<1>8. es \subseteq branches \cup Copresence(req) \cup orgs BY <1>5 DEF Wanted
<1>9. es \subseteq Edge BY <1>4, <1>7, <1>8, EdgesAreEdges
<1>10. \A e \in es : e.type = "direct_exchange" => e \in Direct(req)
  BY <1>4, <1>6, <1>8, OthersAreNotDirect
<1>11. built \subseteq Nodes BY <1>2, <1>7, EndsAreNodes, Parts
<1> HIDE DEF built, es
<1>12. Answers(built, es) BY <1>3, FinalizeAnswers
<1> QED BY <1>9, <1>10, <1>11, <1>12 DEF Derived

LEMMA DeriveDerives == ASSUME MapsTypeOK, Derive PROVE \E built, es : Derived(built, es)
<1>1. req.at = "derive" /\ req.mode \in {"graph", "owner", "org", "project"} /\ req.root \in Nodes \cup {NoNode}
  BY DEF Derive, MapsTypeOK, Request
<1>2. CASE req.mode = "graph"
  <2> DEFINE known == req.people \cup {Owner}
             links == Wanted(req, Direct(req) \cup Copresence(req))
             whole == {e \in links : e.ends \subseteq known}
             es == whole \cup Wanted(req, Affiliated(req, Relevant(req)) \cup Bridges(req, Relevant(req)))
  <2>1. PICK alone \in SUBSET (EndsOf(links \ whole) \cap known) :
          Finalize(req, EndsOf(es) \cup alone, es, req.root)
    BY <1>2 DEF Derive, DeriveGraph
  <2>2. es \subseteq Direct(req) \cup Copresence(req) \cup Affiliated(req, Relevant(req)) \cup Bridges(req, Relevant(req))
    BY DEF Wanted
  <2> DEFINE built == EndsOf(es) \cup alone
  <2>6. alone \subseteq Nodes BY Parts DEF MapsTypeOK, Request
  <2>7. Finalize(req, built, es, req.root) BY <2>1
  <2> HIDE DEF es
  <2>3. es \subseteq Edge BY <2>2, EdgesAreEdges
  <2>4. \A e \in es : e.type = "direct_exchange" => e \in Direct(req) BY <2>2, OthersAreNotDirect
  <2>5. \A e \in es : e.ends \subseteq built BY DEF EndsOf
  <2>8. built \subseteq Nodes BY <2>3, <2>6, EndsAreNodes
  <2> HIDE DEF built
  <2> QED BY <2>3, <2>4, <2>5, <2>7, <2>8, FinalizeAnswers DEF Derived
<1>3. CASE req.mode = "owner"
  <2> DEFINE ds == Wanted(req, Direct(req))
             nodes == {Owner} \cup EndsOf(ds)
             links == {e \in Wanted(req, Copresence(req)) : e.ends \subseteq nodes \ {Owner}}
  <2>1. Finalize(req, nodes, ds \cup links, Owner) BY <1>3 DEF Derive, DeriveOwner
  <2>2. ds \subseteq Direct(req) /\ links \subseteq Copresence(req) BY DEF Wanted
  <2>3. \A e \in links : e.ends \subseteq nodes OBVIOUS
  <2>4. \A e \in ds : e.ends \subseteq nodes BY DEF EndsOf
  <2> HIDE DEF ds, links
  <2>5. ds \cup links \subseteq Edge BY <2>2, EdgesAreEdges
  <2>6. nodes \subseteq Nodes BY <2>5, EndsAreNodes, Parts
  <2>7. \A e \in ds \cup links : e.type = "direct_exchange" => e \in Direct(req)
    BY <2>2, OthersAreNotDirect
  <2> HIDE DEF nodes
  <2>8. Answers(nodes, ds \cup links) BY <2>1, FinalizeAnswers
  <2>9. Derived(nodes, ds \cup links) BY <2>3, <2>4, <2>5, <2>6, <2>7, <2>8 DEF Derived
  <2> QED BY <2>9
<1>4. CASE req.mode = "org"
  <2> DEFINE as == Affiliated(req, Relevant(req))
             es == Wanted(req, as)
  <2>1. Finalize(req, EndsOf(as), es, req.root) BY <1>4 DEF Derive, DeriveOrg
  <2>2. es \subseteq as BY DEF Wanted
  <2>3. as \subseteq Edge BY EdgesAreEdges
  <2>4. \A e \in as : e.type # "direct_exchange" BY OthersAreNotDirect
  <2>5. \A e \in as : e.ends \subseteq EndsOf(as) BY DEF EndsOf
  <2> HIDE DEF as, es
  <2>6. Answers(EndsOf(as), es) BY <2>1, FinalizeAnswers
  <2>7. Derived(EndsOf(as), es) BY <2>2, <2>3, <2>4, <2>5, <2>6, EndsAreNodes DEF Derived
  <2> QED BY <2>7
<1>5. CASE req.mode = "project"
  <2>1. DeriveProject(req) BY <1>5 DEF Derive
  <2>2. CASE Finalize(req, {}, {}, NoNode)
    <3>1. Answers({}, {}) BY <2>2, FinalizeAnswers
    <3>2. Derived({}, {}) BY <1>5, <3>1 DEF Derived
    <3> QED BY <3>2
  <2>3. ASSUME NEW q \in Chosen(req), ProjectTree(req, q) PROVE \E built, es : Derived(built, es)
    <3>1. q \in Projects BY DEF Chosen, MapsTypeOK, Request
    <3> QED BY <1>5, <2>3, <3>1, ProjectTreeDerives
  <2> QED BY <2>1, <2>2, <2>3 DEF DeriveProject
<1> QED BY <1>1, <1>2, <1>3, <1>4, <1>5

LEMMA DeriveHolds == ASSUME MapInv, Derive PROVE MapInv'
<1>1. MapsTypeOK /\ KindHolds BY DEF MapInv
<1>2. PICK built, es : Derived(built, es) BY <1>1, DeriveDerives
<1>3. PICK ns \in SUBSET built, ks \in SUBSET es : Respond(200, ns, ks, {}) BY <1>2 DEF Derived, Answers
<1>4. ns \in SUBSET Nodes /\ ks \in SUBSET Edge BY <1>2, <1>3 DEF Derived
<1>5. req.kind # "list" BY <1>1 DEF KindHolds, Derive
<1> QED BY <1>3, <1>4, <1>5, RespondHolds

\* A direct relationship that was derived is backed by the mail that was read.
LEMMA DirectRests ==
  ASSUME MapsTypeOK, MailHeld, req.at = "derive", NEW e \in Direct(req)
  PROVE  /\ e.msgs # {}
         /\ \A h \in e.msgs : \E m \in extant :
              m.header = h /\ Safe(m) /\ e.ends \cap Parties(m) = e.ends
<1>1. PICK p \in (req.edges \cap req.people) \ {Owner} :
        /\ HeadersWith(req, p) # {}
        /\ e = Rel("direct_exchange", {Owner, p}, HeadersWith(req, p), {}, {})
  BY DEF Direct
<1>2. e.msgs = HeadersWith(req, p) /\ e.ends = {Owner, p} BY <1>1 DEF Rel
<1>3. ASSUME NEW h \in e.msgs
      PROVE  \E m \in extant : m.header = h /\ Safe(m) /\ e.ends \cap Parties(m) = e.ends
  <2>1. PICK m \in req.mail : m.header = h /\ p \in With(m) BY <1>2 DEF HeadersWith
  <2>2. Safe(m) /\ m \in extant BY DEF MailHeld
  <2>3. Owner \in Parties(m) /\ p \in Parties(m) BY <2>1 DEF With, Parties
  <2> QED BY <1>2, <2>1, <2>2, <2>3
<1> QED BY <1>1, <1>2, <1>3

LEMMA ShowMapHolds == ASSUME MapInv, ShowMap PROVE MapInv'
BY AskMapHolds, ReadsHold, DeriveHolds DEF ShowMap

-----------------------------------------------------------------------------
LEMMA Asks ==
  ASSUME NEW at \in Stages, NEW kind \in Kinds, NEW root \in Nodes \cup {NoNode}
  PROVE  /\ Asked(at, kind, root) \in Request
         /\ Asked(at, kind, root).at = at /\ Asked(at, kind, root).kind = kind
         /\ Asked(at, kind, root).states = {} /\ Asked(at, kind, root).root = root
<1>1. NoRequest \in Request /\ NoRequest.states = {} BY MapConstants DEF NoRequest, Request, Kinds, Stages
<1> DEFINE p == [NoRequest EXCEPT !.at = at]
           q == [p EXCEPT !.kind = kind]
<1>2. Asked(at, kind, root) = [q EXCEPT !.root = root] BY DEF Asked
<1>3. p \in Request /\ p.at = at /\ p.states = {} BY <1>1 DEF Request
<1> HIDE DEF p
<1>4. q \in Request /\ q.at = at /\ q.kind = kind /\ q.states = {} BY <1>3 DEF Request
<1> HIDE DEF q
<1>5. /\ [q EXCEPT !.root = root] \in Request /\ [q EXCEPT !.root = root].root = root
      /\ [q EXCEPT !.root = root].at = q.at /\ [q EXCEPT !.root = root].kind = q.kind
      /\ [q EXCEPT !.root = root].states = q.states
  BY <1>4 DEF Request
<1> QED BY <1>2, <1>4, <1>5

LEMMA ShowPeopleHolds == ASSUME MapInv, ShowPeople PROVE MapInv'
<1>1. MapsTypeOK /\ KindHolds BY DEF MapInv
<1>2. req \in Request /\ stored \subseteq Universe /\ people \subseteq People /\ edges \subseteq Contacts
  BY <1>1 DEF MapsTypeOK
<1>3. CASE AskNetwork
  <2>1. "owner" \in Stages /\ "network" \in Kinds BY DEF Stages, Kinds
  <2> QED BY <1>3, <2>1, Asks, BeginHolds DEF AskNetwork
<1>4. CASE FindOwner
  <2> DEFINE r == [req EXCEPT !.at = "join"]
  <2>1. Reads(r, req, "join") BY <1>2, NextStage DEF Stages
  <2>2. req.at = "owner" /\ (Go(r) \/ NotFound) BY <1>4 DEF FindOwner
  <2> HIDE DEF r
  <2> QED BY <1>1, <2>1, <2>2, NotFoundHolds, GoElsewhere DEF KindHolds, Reads
<1>5. CASE ShowNetwork
  <2>1. PICK rs \in {Roles, {"vendor"}} : Respond(200, {p \in edges \cap people : roles[p] \in rs}, {}, {})
    BY <1>5 DEF ShowNetwork
  <2>2. {p \in edges \cap people : roles[p] \in rs} \in SUBSET Nodes BY <1>2, Parts
  <2> QED BY <2>1, <2>2, RespondHolds
<1>6. CASE AskContact
  <2>1. PICK p \in Contacts : Begin(Asked("contact", "contact", p)) BY <1>6 DEF AskContact
  <2>2. "contact" \in Stages /\ "contact" \in Kinds /\ p \in Nodes BY Parts DEF Stages, Kinds
  <2> QED BY <2>1, <2>2, Asks, BeginHolds
<1>7. CASE FindContact
  <2> DEFINE r == [req EXCEPT !.at = "edge"]
  <2>1. Reads(r, req, "edge") BY <1>2, NextStage DEF Stages
  <2>2. req.at = "contact" /\ (Go(r) \/ NotFound) BY <1>7 DEF FindContact
  <2> HIDE DEF r
  <2> QED BY <1>1, <2>1, <2>2, NotFoundHolds, GoElsewhere DEF KindHolds, Reads
<1>8. CASE FindEdge
  <2> DEFINE r == [req EXCEPT !.at = "emails"]
  <2>1. Reads(r, req, "emails") BY <1>2, NextStage DEF Stages
  <2>2. req.at = "edge" /\ (Go(r) \/ NotFound) BY <1>8 DEF FindEdge
  <2> HIDE DEF r
  <2> QED BY <1>1, <2>1, <2>2, NotFoundHolds, GoElsewhere DEF KindHolds, Reads
<1>9. CASE ReadEmails
  <2> DEFINE r == [req EXCEPT !.at = "recent", !.known = people \cap {req.root}]
  <2>1. people \cap {req.root} \in SUBSET People BY <1>2
  <2>2. Reads(r, req, "recent") BY <1>2, <2>1, NextRead DEF Stages
  <2>3. req.at = "emails" /\ Go(r) BY <1>9 DEF ReadEmails
  <2> HIDE DEF r
  <2> QED BY <1>1, <2>2, <2>3, GoElsewhere DEF KindHolds, Reads
<1>10. CASE ShowContact
  <2> DEFINE shared == {t \in Threads : {Owner, req.root} \subseteq TakePart(stored, t)}
  <2>1. PICK ts \in AtMost(MaxShared, shared) :
          Respond(200, (UNION {TakePart(stored, t) : t \in ts}) \ {Owner, req.root}, {}, {})
    BY <1>10 DEF ShowContact
  <2> DEFINE seen == (UNION {TakePart(stored, t) : t \in ts}) \ {Owner, req.root}
  <2>2. \A t : TakePart(stored, t) \subseteq Nodes BY <1>2, RowTypes, Parts
  <2>3. seen \in SUBSET Nodes BY <2>2
  <2>4. req.kind # "list" BY <1>1, <1>10 DEF KindHolds, ShowContact
  <2>5. Respond(200, seen, {}, {}) BY <2>1
  <2> HIDE DEF seen
  <2> QED BY <2>3, <2>4, <2>5, RespondHolds
<1> QED BY <1>3, <1>4, <1>5, <1>6, <1>7, <1>8, <1>9, <1>10 DEF ShowPeople

-----------------------------------------------------------------------------
LEMMA LiveThreads == \A ts : ts \subseteq Threads => Live(ts) \subseteq Threads
BY DEF Live

LEMMA ReadsTyped ==
  ASSUME MapsTypeOK
  PROVE  /\ \A q : ThreadsOf(assigned, q) \in SUBSET Threads
         /\ Live(req.eligible) \in SUBSET Threads
         /\ \A os \in SUBSET Outcome : Fresh(os) \in SUBSET Projects
         /\ \A t : Past(stored, t) \in BOOLEAN
<1>1. assigned \subseteq Threads \X Projects /\ req.eligible \subseteq Threads BY DEF MapsTypeOK, Request
<1>2. \A q : ThreadsOf(assigned, q) \in SUBSET Threads BY <1>1 DEF ThreadsOf
<1>3. \A os \in SUBSET Outcome : Fresh(os) \in SUBSET Projects BY DEF Fresh, Outcome
<1> QED BY <1>1, <1>2, <1>3, LiveThreads DEF Past

\* The list: each statement reads what is current, and each state is computed from such.
LEMMA ShowsList ==
  ASSUME MapInv, AskList \/ ReadList \/ ReadOutcomes \/ ReadStamps \/ ReadAssigns \/ ReadEnds \/ ShowList
  PROVE  MapInv'
<1>1. MapsTypeOK /\ KindHolds /\ ListReads /\ ProjectReads BY DEF MapInv
<1>2. /\ req \in Request /\ projects \subseteq Projects /\ outcomes \in SUBSET Outcome
      /\ req.outcomes \in SUBSET Outcome /\ req.projects \subseteq Projects
  BY <1>1 DEF MapsTypeOK, Request
<1>3. CASE AskList
  <2>1. "list" \in Stages /\ "list" \in Kinds BY DEF Stages, Kinds
  <2> QED BY <1>3, <2>1, Asks, BeginHolds DEF AskList
<1>4. CASE ReadList
  <2> DEFINE r == [req EXCEPT !.at = "outcomes", !.projects = projects]
  <2>1. Reads(r, req, "outcomes") /\ r.states = req.states BY <1>2, NextRead DEF Stages, Request
  <2>2. req.at = "list" /\ Go(r) BY <1>4 DEF ReadList
  <2>3. req.kind # "project" BY <1>1, <2>2 DEF KindHolds
  <2> HIDE DEF r
  <2>4. /\ MapsTypeOK' /\ Extant' /\ MailHeld' /\ ListingCurrent' /\ Begun' /\ req' = r
        /\ \A q : StateNow(q)' = StateNow(q) /\ writes' = writes
    BY <2>1, <2>2, GoHolds DEF Reads
  <2>5. KindHolds' /\ ListReads' /\ ProjectReads'
    BY <1>1, <2>1, <2>3, <2>4 DEF KindHolds, ListReads, ProjectReads, Reads
  <2> QED BY <2>4, <2>5 DEF MapInv
<1>5. CASE ReadOutcomes
  <2> DEFINE r == [req EXCEPT !.at = "stamps", !.outcomes = outcomes]
  <2>1. /\ Reads(r, req, "stamps") /\ r.outcomes = outcomes
        /\ r.states = req.states /\ r.info = req.info /\ r.root = req.root
    BY <1>2, NextRead DEF Stages, Request
  <2>2. req.at = "outcomes" /\ Go(r) BY <1>5 DEF ReadOutcomes
  <2> HIDE DEF r
  <2>3. /\ MapsTypeOK' /\ Extant' /\ MailHeld' /\ ListingCurrent' /\ Begun' /\ req' = r
        /\ \A q : StateNow(q)' = StateNow(q)
        /\ UNCHANGED <<stored, assigned, outcomes, writes>>
    BY <2>1, <2>2, GoHolds DEF Reads
  <2>4. KindHolds' BY <1>1, <2>1, <2>3 DEF KindHolds, Reads
  <2>5. ListReads' BY <1>1, <2>1, <2>3 DEF ListReads, Reads
  <2>6. \A q : Live(ThreadsOf(assigned, q))' = Live(ThreadsOf(assigned, q)) BY <2>3 DEF Live, ThreadsOf
  <2>7. ProjectReads' BY <1>1, <2>1, <2>2, <2>3, <2>6 DEF ProjectReads, Reads
  <2> QED BY <2>3, <2>4, <2>5, <2>7 DEF MapInv
<1>6. CASE ReadStamps
  <2> DEFINE recent == Fresh(req.outcomes)
             r == [req EXCEPT !.at = "assigns", !.recent = recent]
  <2>1. recent \in SUBSET Projects BY <1>1, <1>2, ReadsTyped
  <2>2. req.at = "stamps" /\ req.kind = "list" /\ Go(r) BY <1>6 DEF ReadStamps
  <2>3. req.began = writes => recent = Fresh(outcomes) BY <1>1, <2>2 DEF ListReads
  <2> HIDE DEF recent
  <2>4. Reads(r, req, "assigns") /\ r.recent = recent /\ r.states = req.states
    BY <1>2, <2>1, NextRead DEF Stages, Request
  <2> HIDE DEF r
  <2>5. /\ MapsTypeOK' /\ Extant' /\ MailHeld' /\ ListingCurrent' /\ Begun' /\ req' = r
        /\ \A q : StateNow(q)' = StateNow(q)
        /\ UNCHANGED <<stored, outcomes, writes>>
    BY <2>2, <2>4, GoHolds DEF Reads
  <2>6. Fresh(outcomes)' = Fresh(outcomes) BY <2>5 DEF Fresh
  <2>7. KindHolds' /\ ProjectReads' BY <2>2, <2>4, <2>5 DEF KindHolds, ProjectReads, Reads
  <2>8. ListReads' BY <1>1, <2>2, <2>3, <2>4, <2>5, <2>6 DEF ListReads, Reads
  <2> QED BY <2>5, <2>7, <2>8 DEF MapInv
<1>7. CASE ReadAssigns
  <2>1. PICK q \in req.projects \ Listed(req) :
          Go([req EXCEPT !.at = "ends", !.root = q, !.eligible = ThreadsOf(assigned, q)])
    BY <1>7 DEF ReadAssigns
  <2>2. req.at = "assigns" /\ req.kind = "list" BY <1>7 DEF ReadAssigns
  <2> DEFINE ts == ThreadsOf(assigned, q)
             r == [req EXCEPT !.at = "ends", !.root = q, !.eligible = ts]
             p == [req EXCEPT !.at = "ends", !.root = q]
  <2>3. ts \in SUBSET Threads BY <1>1, ReadsTyped
  <2>4. Go(r) BY <2>1
  <2> HIDE DEF ts
  <2>5. r = [p EXCEPT !.eligible = ts] OBVIOUS
  <2>6. q \in Nodes BY <1>2, Parts
  <2>7. Reads(p, req, "ends") /\ p.root = q /\ p.recent = req.recent /\ p.states = req.states
    BY <1>2, <2>6, NextRead DEF Stages, Request
  <2> HIDE DEF p, r
  <2>8. /\ Reads(r, req, "ends") /\ r.root = q /\ r.recent = req.recent /\ r.states = req.states
        /\ r.eligible = ts
    BY <2>3, <2>5, <2>7 DEF Reads, Request
  <2>9. /\ MapsTypeOK' /\ Extant' /\ MailHeld' /\ ListingCurrent' /\ Begun' /\ req' = r
        /\ \A x : StateNow(x)' = StateNow(x)
        /\ UNCHANGED <<stored, assigned, outcomes, writes>>
    BY <2>2, <2>4, <2>8, GoHolds DEF Reads
  <2>10. Fresh(outcomes)' = Fresh(outcomes) /\ ThreadsOf(assigned, q)' = ts
    BY <2>9 DEF Fresh, ThreadsOf, ts
  <2>11. KindHolds' /\ ProjectReads' BY <1>2, <2>2, <2>8, <2>9 DEF KindHolds, ProjectReads, Reads
  <2>12. ThreadsOf(assigned, req.root)' = ts BY <2>8, <2>9 DEF ThreadsOf, ts
  <2>13. ListReads' BY <1>1, <2>2, <2>8, <2>9, <2>10, <2>12 DEF ListReads, Reads
  <2> QED BY <2>9, <2>11, <2>13 DEF MapInv
<1>8. CASE ReadEnds
  <2>1. req.at = "ends" /\ req.kind = "list" BY <1>8 DEF ReadEnds
  <2> DEFINE now == StateOf(\A t \in Live(req.eligible) : Past(stored, t), req.root \in req.recent)
             states == req.states \cup {<<req.root, now>>}
             r == [req EXCEPT !.at = "assigns", !.states = states]
  <2>2. Go([req EXCEPT !.at = "assigns", !.states = @ \cup {<<req.root, now>>}]) BY <1>8 DEF ReadEnds
  <2>3. Go(r) BY <1>2, <2>2 DEF Request
  <2>4. now \in States BY DEF StateOf, States
  <2>5. req.root \in Projects BY <1>1, <2>1 DEF KindHolds
  <2>7. req.began = writes => now = StateNow(req.root) BY <1>1, <2>1 DEF ListReads, StateNow
  <2> HIDE DEF now
  <2>6. states \in SUBSET (Projects \X States) BY <1>2, <2>4, <2>5 DEF Request
  <2>8. req.began = writes => \A s \in states : s[2] = StateNow(s[1]) BY <1>1, <2>1, <2>7 DEF ListReads
  <2> HIDE DEF states
  <2>9. Reads(r, req, "assigns") /\ r.recent = req.recent /\ r.states = states
    BY <1>2, <2>6, NextRead DEF Stages, Request
  <2> HIDE DEF r
  <2>10. /\ MapsTypeOK' /\ Extant' /\ MailHeld' /\ ListingCurrent' /\ Begun' /\ req' = r
         /\ \A q : StateNow(q)' = StateNow(q)
         /\ UNCHANGED <<stored, outcomes, writes>>
    BY <2>1, <2>3, <2>9, GoHolds DEF Reads
  <2>11. Fresh(outcomes)' = Fresh(outcomes) BY <2>10 DEF Fresh
  <2>12. KindHolds' /\ ProjectReads' BY <2>1, <2>9, <2>10 DEF KindHolds, ProjectReads, Reads
  <2>13. ListReads' BY <1>1, <2>1, <2>8, <2>9, <2>10, <2>11 DEF ListReads, Reads
  <2> QED BY <2>10, <2>12, <2>13 DEF MapInv
<1>9. CASE ShowList
  <2>1. /\ req.at = "assigns" /\ req.kind = "list" /\ Respond(200, req.projects, {}, req.states)
    BY <1>9 DEF ShowList
  <2>2. req.projects \in SUBSET Nodes /\ req.states \in SUBSET (Projects \X States)
    BY <1>2, Parts DEF Request
  <2>3. req.began = writes => \A s \in req.states : s[2] = StateNow(s[1]) BY <1>1, <2>1 DEF ListReads
  <2> QED BY <2>1, <2>2, <2>3, RespondHolds
<1> QED BY <1>3, <1>4, <1>5, <1>6, <1>7, <1>8, <1>9

\* One project: the same, from what the list's statements have in common with its own.
LEMMA ShowsProject ==
  ASSUME MapInv, AskProject \/ FindProject \/ ReadTeam \/ ReadWeights \/ ReadItsThreads \/ ReadRecent \/ ShowProject
  PROVE  MapInv'
<1>1. MapsTypeOK /\ KindHolds /\ ListReads /\ ProjectReads BY DEF MapInv
<1>2. /\ req \in Request /\ members \subseteq Projects \X Contacts /\ edges \in SUBSET Contacts
      /\ req.outcomes \in SUBSET Outcome /\ req.members \subseteq Projects \X Contacts
  BY <1>1 DEF MapsTypeOK, Request
<1>3. CASE AskProject
  <2>1. PICK q \in Projects : Begin(Asked("project", "project", q)) BY <1>3 DEF AskProject
  <2>2. "project" \in Stages /\ "project" \in Kinds /\ q \in Nodes BY Parts DEF Stages, Kinds
  <2> QED BY <2>1, <2>2, Asks, BeginHolds
<1>4. CASE FindProject
  <2> DEFINE r == [req EXCEPT !.at = "team"]
  <2>1. req.at = "project" /\ (Go(r) \/ NotFound) BY <1>4 DEF FindProject
  <2>2. Reads(r, req, "team") /\ r.root = req.root BY <1>2, NextStage DEF Stages, Request
  <2> HIDE DEF r
  <2>3. CASE Go(r)
    <3>1. MapsTypeOK' /\ Extant' /\ MailHeld' /\ ListingCurrent' /\ Begun' /\ req' = r
      BY <2>1, <2>2, <2>3, GoHolds DEF Reads
    <3>2. KindHolds' /\ ListReads' /\ ProjectReads'
      BY <1>1, <2>1, <2>2, <3>1 DEF KindHolds, ListReads, ProjectReads, Reads
    <3> QED BY <3>1, <3>2 DEF MapInv
  <2> QED BY <2>1, <2>3, NotFoundHolds
<1>5. CASE ReadTeam
  <2> DEFINE team == {m \in members : m[1] = req.root}
             r == [req EXCEPT !.at = "weights", !.members = team]
  <2>1. req.at = "team" /\ Go(r) BY <1>5 DEF ReadTeam
  <2>2. team \in SUBSET (Projects \X Contacts) BY <1>2
  <2> HIDE DEF team
  <2>3. Reads(r, req, "weights") /\ r.root = req.root BY <1>2, <2>2, NextRead DEF Stages, Request
  <2> HIDE DEF r
  <2>4. MapsTypeOK' /\ Extant' /\ MailHeld' /\ ListingCurrent' /\ Begun' /\ req' = r
    BY <2>1, <2>3, GoHolds DEF Reads
  <2>5. KindHolds' /\ ListReads' /\ ProjectReads'
    BY <1>1, <2>1, <2>3, <2>4 DEF KindHolds, ListReads, ProjectReads, Reads
  <2> QED BY <2>4, <2>5 DEF MapInv
<1>6. CASE ReadWeights
  <2> DEFINE r == [req EXCEPT !.at = "assigns", !.edges = edges]
  <2>1. req.at = "weights" /\ Go(r) BY <1>6 DEF ReadWeights
  <2>2. Reads(r, req, "assigns") /\ r.root = req.root BY <1>2, NextRead DEF Stages, Request
  <2> HIDE DEF r
  <2>3. MapsTypeOK' /\ Extant' /\ MailHeld' /\ ListingCurrent' /\ Begun' /\ req' = r
    BY <2>1, <2>2, GoHolds DEF Reads
  <2>4. req.kind # "list" BY <1>1, <2>1 DEF KindHolds
  <2>5. KindHolds' /\ ListReads' /\ ProjectReads'
    BY <1>1, <2>2, <2>3, <2>4 DEF KindHolds, ListReads, ProjectReads, Reads
  <2> QED BY <2>3, <2>5 DEF MapInv
<1>7. CASE ReadItsThreads
  <2> DEFINE ts == ThreadsOf(assigned, req.root)
             r == [req EXCEPT !.at = "ends", !.eligible = ts]
  <2>1. req.at = "assigns" /\ req.kind = "project" /\ Go(r) BY <1>7 DEF ReadItsThreads
  <2>2. ts \in SUBSET Threads BY <1>1, ReadsTyped
  <2>3. Reads(r, req, "ends") /\ r.root = req.root /\ r.eligible = ts
    BY <1>2, <2>2, NextRead DEF Stages, Request
  <2> HIDE DEF r
  <2>4. /\ MapsTypeOK' /\ Extant' /\ MailHeld' /\ ListingCurrent' /\ Begun' /\ req' = r
        /\ UNCHANGED <<stored, assigned, writes>>
    BY <2>1, <2>3, GoHolds DEF Reads
  <2>5. ThreadsOf(assigned, req.root)' = ts BY <2>3, <2>4 DEF ThreadsOf
  <2> HIDE DEF ts
  <2>6. KindHolds' /\ ListReads' /\ ProjectReads'
    BY <1>1, <2>1, <2>3, <2>4, <2>5 DEF KindHolds, ListReads, ProjectReads, Reads
  <2> QED BY <2>4, <2>6 DEF MapInv
<1>8. CASE ReadRecent
  <2> DEFINE live == Live(req.eligible)
             info == {[thread |-> t, projects |-> {req.root}, with |-> {}, old |-> Past(stored, t)] : t \in live}
             p == [req EXCEPT !.at = "outcomes", !.eligible = live]
             r == [req EXCEPT !.at = "outcomes", !.eligible = live, !.info = info]
  <2>1. req.at = "ends" /\ req.kind = "project" BY <1>8 DEF ReadRecent
  <2>2. Go(r) BY <1>8 DEF ReadRecent
  <2>3. live \in SUBSET Threads /\ \A t : Past(stored, t) \in BOOLEAN BY <1>1, ReadsTyped
  <2>4. req.root \in Projects BY <1>1, <2>1 DEF KindHolds
  <2>6. req.began = writes => live = Live(ThreadsOf(assigned, req.root)) BY <1>1, <2>1 DEF ProjectReads
  <2> HIDE DEF live
  <2>5. (\A i \in info : i.old) <=> \A t \in live : Past(stored, t)
    <3> DEFINE of(t) == [thread |-> t, projects |-> {req.root}, with |-> {}, old |-> Past(stored, t)]
    <3>1. \A t : of(t).old = Past(stored, t) OBVIOUS
    <3>2. info = {of(t) : t \in live} OBVIOUS
    <3> HIDE DEF info, of
    <3> QED BY <3>1, <3>2
  <2>7. info \in SUBSET Info BY <2>3, <2>4 DEF Info
  <2> HIDE DEF info
  <2>8. r = [p EXCEPT !.info = info] OBVIOUS
  <2>9. Reads(p, req, "outcomes") /\ p.root = req.root BY <1>2, <2>3, NextRead DEF Stages, Request
  <2> HIDE DEF p, r
  <2>10. Reads(r, req, "outcomes") /\ r.root = req.root /\ r.info = info
    BY <2>7, <2>8, <2>9 DEF Reads, Request
  <2>11. /\ MapsTypeOK' /\ Extant' /\ MailHeld' /\ ListingCurrent' /\ Begun' /\ req' = r
         /\ UNCHANGED <<stored, assigned, writes>>
    BY <2>1, <2>2, <2>10, GoHolds DEF Reads
  <2>12. /\ Live(ThreadsOf(assigned, req.root))' = Live(ThreadsOf(assigned, req.root))
         /\ \A t : Past(stored, t)' = Past(stored, t)
    BY <2>10, <2>11 DEF Live, ThreadsOf, Past
  <2>13. KindHolds' /\ ListReads' BY <2>1, <2>4, <2>10, <2>11 DEF KindHolds, ListReads, Reads
  <2>14. ProjectReads' BY <2>1, <2>5, <2>6, <2>10, <2>11, <2>12 DEF ProjectReads, Reads
  <2> QED BY <2>11, <2>13, <2>14 DEF MapInv
<1>9. CASE ShowProject
  <2> DEFINE now == StateOf(\A i \in req.info : i.old, req.root \in Fresh(req.outcomes))
  <2>1. /\ req.at = "stamps" /\ req.kind = "project"
        /\ Respond(200, {m[2] : m \in req.members}, {}, {<<req.root, now>>})
    BY <1>9 DEF ShowProject
  <2>2. now \in States BY DEF StateOf, States
  <2> HIDE DEF now
  <2>3. req.root \in Projects BY <1>1, <2>1 DEF KindHolds
  <2>4. {m[2] : m \in req.members} \in SUBSET Nodes BY <1>2, Parts
  <2>5. {<<req.root, now>>} \in SUBSET (Projects \X States) BY <2>2, <2>3
  <2> QED BY <2>1, <2>4, <2>5, RespondHolds
<1> QED BY <1>3, <1>4, <1>5, <1>6, <1>7, <1>8, <1>9

LEMMA ShowProjectsHolds == ASSUME MapInv, ShowProjects PROVE MapInv'
BY ShowsList, ShowsProject DEF ShowProjects

LEMMA StutterHolds == ASSUME MapInv, UNCHANGED mapsVars PROVE MapInv'
<1>1. UNCHANGED <<stored, people, roles, edges, projects, assigned, members, outcomes, req, answer,
                  listing, extant, writes>>
  BY DEF mapsVars, db
<1>2. /\ \A q : StateNow(q)' = StateNow(q) /\ Fresh(outcomes)' = Fresh(outcomes)
      /\ \A q : ThreadsOf(assigned, q)' = ThreadsOf(assigned, q)
      /\ \A ts : Live(ts)' = Live(ts) /\ \A t : Past(stored, t)' = Past(stored, t)
  BY <1>1 DEF StateNow, Live, Past, Fresh, ThreadsOf
<1>3. MapsTypeOK' /\ Extant' /\ MailHeld' /\ KindHolds' /\ Begun'
  BY <1>1 DEF MapInv, MapsTypeOK, Extant, MailHeld, KindHolds, Begun
<1>4. ListingCurrent' BY <1>1, <1>2 DEF MapInv, ListingCurrent
<1>5. ListReads' BY <1>1, <1>2 DEF MapInv, ListReads
<1>6. ProjectReads' BY <1>1 DEF MapInv, ProjectReads, Live, ThreadsOf, Past
<1> QED BY <1>3, <1>4, <1>5, <1>6 DEF MapInv

LEMMA MapInvHolds == MapsSpec => []MapInv
<1>1. MapsInit => MapInv BY MapInitHolds
<1>2. MapInv /\ [MapsNext]_mapsVars => MapInv'
  BY JobsHold, ShowMapHolds, ShowPeopleHolds, ShowProjectsHolds, StutterHolds DEF MapsNext
<1> QED BY <1>1, <1>2, PTL DEF MapsSpec

\* A view's rows, request and answer have their types, whatever jobs commit meanwhile: in particular
\* each assignment and each member is of a project there is, each member a person there is
\* (network_map.py, project_view.py, derive.py, and the snapshot's replacement).
THEOREM MapTypesHold == MapsSpec => []MapsTypeOK
<1>1. MapInv => MapsTypeOK BY DEF MapInv
<1> QED BY <1>1, MapInvHolds, PTL

LEMMA OnlyAnswersEnd == ASSUME [MapsNext]_mapsVars, req.at = "derive", req'.at = "idle" PROVE Derive
<1>1. CASE Jobs BY <1>1 DEF Jobs, AppendMail, Replace, Enrich, Materialize, Extract, Commit
<1>2. CASE UNCHANGED mapsVars BY <1>2 DEF mapsVars
<1>3. CASE ShowPeople
  BY <1>3 DEF ShowPeople, AskNetwork, FindOwner, ShowNetwork, AskContact, FindContact, FindEdge, ReadEmails,
     ShowContact, Begin
<1>4. CASE ShowProjects
  BY <1>4 DEF ShowProjects, AskList, ReadList, ReadOutcomes, ReadStamps, ReadAssigns, ReadEnds, ShowList,
     AskProject, FindProject, ReadTeam, ReadWeights, ReadItsThreads, ReadRecent, ShowProject, Begin
<1>5. CASE ShowMap
  BY <1>5 DEF ShowMap, AskMap, ReadPeople, ReadKnown, ReadProjects, ReadMembers, ReadEdges, ReadEligible,
     ReadAssigned, ReadThreads, ReadMail, Begin
<1> QED BY <1>1, <1>2, <1>3, <1>4, <1>5 DEF MapsNext

\* Every direct relationship a map shows rests on messages that have been stored since the request
\* began, between the two, none of them noise or tagged, for any mail and any commits
\* (derive.py, _direct_exchange and the query of the safe messages).
THEOREM DirectIsBackedHolds == MapsSpec => DirectIsBacked
<1> DEFINE Backed == (req.at = "derive" /\ req'.at = "idle") =>
             \A e \in answer'.edges : e.type = "direct_exchange" =>
               /\ e.msgs # {}
               /\ \A h \in e.msgs : \E m \in extant :
                    m.header = h /\ Safe(m) /\ e.ends \cap Parties(m) = e.ends
<1>1. ASSUME MapInv, [MapsNext]_mapsVars PROVE Backed
  <2> SUFFICES ASSUME req.at = "derive", req'.at = "idle", NEW e \in answer'.edges, e.type = "direct_exchange"
               PROVE  /\ e.msgs # {}
                      /\ \A h \in e.msgs : \E m \in extant :
                           m.header = h /\ Safe(m) /\ e.ends \cap Parties(m) = e.ends
    OBVIOUS
  <2>1. MapsTypeOK /\ MailHeld /\ Derive BY <1>1, OnlyAnswersEnd DEF MapInv
  <2>2. PICK built, es : Derived(built, es) BY <2>1, DeriveDerives
  <2>3. PICK ns \in SUBSET built, ks \in SUBSET es : Respond(200, ns, ks, {}) BY <2>2 DEF Derived, Answers
  <2>4. answer'.edges = ks BY <2>3 DEF Respond
  <2>5. e \in Direct(req) BY <2>2, <2>3, <2>4 DEF Derived
  <2> QED BY <2>1, <2>5, DirectRests
<1> QED BY <1>1, MapInvHolds, PTL DEF MapsSpec, DirectIsBacked

\* The list that was answered and the project that is, when no job has committed in between.
LEMMA OnlyOneShows ==
  ASSUME [MapsNext]_mapsVars, req.kind = "project", req.at = "stamps", req'.at = "idle" PROVE ShowProject
<1>1. CASE Jobs BY <1>1 DEF Jobs, AppendMail, Replace, Enrich, Materialize, Extract, Commit
<1>2. CASE UNCHANGED mapsVars BY <1>2 DEF mapsVars
<1>3. CASE ShowPeople
  BY <1>3 DEF ShowPeople, AskNetwork, FindOwner, ShowNetwork, AskContact, FindContact, FindEdge, ReadEmails,
     ShowContact, Begin
<1>4. CASE ShowProjects
  BY <1>4 DEF ShowProjects, AskList, ReadList, ReadOutcomes, ReadStamps, ReadAssigns, ReadEnds, ShowList,
     AskProject, FindProject, ReadTeam, ReadWeights, ReadItsThreads, ReadRecent, Begin
<1>5. CASE ShowMap
  BY <1>5 DEF ShowMap, AskMap, ReadPeople, ReadKnown, ReadProjects, ReadMembers, ReadEdges, ReadEligible,
     ReadAssigned, ReadThreads, ReadMail, Derive, Begin
<1> QED BY <1>1, <1>2, <1>3, <1>4, <1>5 DEF MapsNext

LEMMA ListedIsShown ==
  ASSUME MapInv, ShowProject, NEW s \in listing, s[1] = req.root
  PROVE  s \in answer'.states
<1> DEFINE now == StateOf(\A i \in req.info : i.old, req.root \in Fresh(req.outcomes))
<1>1. req.at = "stamps" /\ req.kind = "project" BY DEF ShowProject
<1>2. answer'.states = {<<req.root, now>>} BY DEF ShowProject, Respond
<1>3. s[2] = StateNow(req.root) /\ req.began = writes BY <1>1 DEF MapInv, ListingCurrent
<1>4. /\ (\A i \in req.info : i.old) <=> \A t \in Live(ThreadsOf(assigned, req.root)) : Past(stored, t)
      /\ req.outcomes = outcomes
  BY <1>1, <1>3 DEF MapInv, ProjectReads
<1>5. now = StateNow(req.root) BY <1>4 DEF StateNow, StateOf
<1>6. s \in Projects \X States BY DEF MapInv, MapsTypeOK
<1>7. s = <<s[1], s[2]>> BY <1>6
<1> QED BY <1>2, <1>3, <1>5, <1>7

\* A map shows both ends of each edge it shows, for any caps and filters; and a project is opened in
\* the state the list gave it, if no job has committed in between (derive.py, _finalize;
\* project_view.py, _recent_outcome_project_ids and _activity_for_project).
THEOREM ViewsAgreeHolds == MapsSpec => ViewsAgree
<1> DEFINE BothEnds == (req.at = "derive" /\ req'.at = "idle" /\ req.mode # "project")
             => EndsOf(answer'.edges) \subseteq answer'.nodes
           AsListed == (req.kind = "project" /\ req.at = "stamps" /\ req'.at = "idle") =>
             \A s \in listing : s[1] = req.root => s \in answer'.states
<1>1. ASSUME MapInv, [MapsNext]_mapsVars PROVE BothEnds
  <2> SUFFICES ASSUME req.at = "derive", req'.at = "idle", req.mode # "project"
               PROVE  EndsOf(answer'.edges) \subseteq answer'.nodes
    OBVIOUS
  <2>1. MapsTypeOK /\ Derive BY <1>1, OnlyAnswersEnd DEF MapInv
  <2>2. PICK built, es : Derived(built, es) BY <2>1, DeriveDerives
  <2>3. PICK ns \in SUBSET built, ks \in SUBSET es : Respond(200, ns, ks, {}) /\ EndsOf(ks) \subseteq ns
    BY <2>2 DEF Derived, Answers
  <2>4. answer'.edges = ks /\ answer'.nodes = ns BY <2>3 DEF Respond
  <2> QED BY <2>3, <2>4
<1>2. ASSUME MapInv, [MapsNext]_mapsVars PROVE AsListed
  BY <1>2, OnlyOneShows, ListedIsShown
<1> QED BY <1>1, <1>2, MapInvHolds, PTL DEF MapsSpec, ViewsAgree, MapIsClosed, ListingHolds
=============================================================================
