-------------------------- MODULE BlockEditor_proofs --------------------------
(***************************************************************************)
(* Proofs about the block editor and the saving of its document, for any   *)
(* number of blocks, any initial documents and any number of edits: the    *)
(* blocks stay a tree, and the list of changes of a save is accepted and   *)
(* leaves the nesting and the content of the editor in the daemon, after   *)
(* one edit in the editor's order.                                         *)
(*                                                                         *)
(* The argument has three parts.  What Below lists (parents before         *)
(* children, left before right) shows that the trees of the model are the  *)
(* lists without circles; every command is one of few changes of such      *)
(* lists (LeafAdded, HandedOver, MovedUnder, LiftedOut, Dissolved,         *)
(* TakenOut); and a save is a loop over the order of Below in which the    *)
(* blocks that are done keep their place, and their order when the blocks  *)
(* that are not moved were in order (Progress).                            *)
(***************************************************************************)
EXTENDS BlockEditor, SequenceTheorems, FiniteSetTheorems, TLAPS

\* A set of natural numbers that is not empty has a least element.
LEMMA LeastOf ==
    ASSUME NEW T \in SUBSET Nat, T # {}
    PROVE  \E x \in T : \A y \in T : x <= y
  <1>1. PICK x \in T : \A y \in T : ~ (<<y, x>> \in OpToRel(<, Nat))
    BY WFMin, NatLessThanWellFounded
  <1>2. \A y \in T : ~ (y < x)
    BY <1>1 DEF OpToRel
  <1> QED
    BY <1>2

\* The first round at which something goes wrong is the first of all, or
\* the round before it went well: induction over the rounds of a loop.
LEMMA LeastIndex ==
    ASSUME NEW n \in Nat, NEW B \in SUBSET (0..n), B # {}
    PROVE  \E k \in B : k = 0 \/ (k \in 1..n /\ k - 1 \in 0..n /\ k - 1 \notin B)
  <1>1. B \in SUBSET Nat
    OBVIOUS
  <1>2. PICK k \in B : \A y \in B : k <= y
    BY <1>1, LeastOf
  <1>3. k \in 0..n /\ (k # 0 => k \in 1..n /\ k - 1 \in 0..n)
    OBVIOUS
  <1> QED
    BY <1>2, <1>3

\* The function f has the states of a loop in S, from round to round.
IsLoop(f, S, x, G, n) ==
    f \in [0..n -> S] /\ f[0] = x /\ \A k \in 1..n : f[k] = G[k][f[k - 1]]

\* A loop of n rounds on the states S, as a function of the round.
LEMMA LoopExists ==
    ASSUME NEW n \in Nat, NEW S, NEW x \in S, NEW G \in [1..n -> [S -> S]]
    PROVE  \E f : IsLoop(f, S, x, G, n)
  <1> DEFINE B == {m \in 0..n : ~ \E f : IsLoop(f, S, x, G, m)}
  <1>0. n \in 0..n
    OBVIOUS
  <1> SUFFICES ASSUME B # {} PROVE FALSE
    BY <1>0
  <1>1. PICK m \in B : m = 0 \/ (m \in 1..n /\ m - 1 \in 0..n /\ m - 1 \notin B)
    BY LeastIndex
  <1>2. CASE m = 0
    <2>1. IsLoop([k \in 0..0 |-> x], S, x, G, 0)
      BY DEF IsLoop
    <2> QED
      BY <1>1, <1>2, <2>1
  <1>3. CASE m # 0
    <2>1. m \in 1..n /\ m - 1 \in 0..n
      BY <1>1, <1>3
    <2>2. PICK f : IsLoop(f, S, x, G, m - 1)
      BY <1>1, <1>3
    <2>3. f \in [0..(m - 1) -> S] /\ f[0] = x /\ \A k \in 1..(m - 1) : f[k] = G[k][f[k - 1]]
      BY <2>2 DEF IsLoop
    <2> DEFINE g == [k \in 0..m |-> IF k = m THEN G[m][f[m - 1]] ELSE f[k]]
    <2>4. f[m - 1] \in S /\ G[m][f[m - 1]] \in S
      BY <2>1, <2>3
    <2>5. g \in [0..m -> S] /\ g[0] = x
      BY <2>1, <2>3, <2>4
    <2>6. ASSUME NEW k \in 1..m PROVE g[k] = G[k][g[k - 1]]
      <3>1. k - 1 \in 0..m /\ k \in 0..m /\ k - 1 # m
        BY <2>1
      <3>2. g[k - 1] = f[k - 1]
        BY <3>1
      <3>3. CASE k = m
        BY <3>1, <3>2, <3>3
      <3>4. CASE k # m
        <4>1. k \in 1..(m - 1)
          BY <3>4, <2>1
        <4> QED
          BY <3>1, <3>2, <3>4, <4>1, <2>3
      <3> QED
        BY <3>3, <3>4
    <2>7. IsLoop(g, S, x, G, m)
      BY <2>5, <2>6 DEF IsLoop
    <2> QED
      BY <1>1, <2>7
  <1> QED
    BY <1>2, <1>3

-----------------------------------------------------------------------------
\* b is a, and then r.
IsConcat(b, a, r) ==
    /\ Len(b) = Len(a) + Len(r)
    /\ \A j \in 1..Len(a) : b[j] = a[j]
    /\ \A j \in 1..Len(r) : b[Len(a) + j] = r[j]

\* The elements of a concatenation.
LEMMA ConcatFacts ==
    ASSUME NEW S, NEW a \in Seq(S), NEW r \in Seq(S), NEW b, b = a \o r
    PROVE  b \in Seq(S) /\ IsConcat(b, a, r)
  <1>1. b \in Seq(S) /\ Len(b) = Len(a) + Len(r) /\ Len(a) \in Nat /\ Len(r) \in Nat
    BY ConcatProperties
  <1>2. \A i \in 1..Len(a) + Len(r) : b[i] = IF i <= Len(a) THEN a[i] ELSE r[i - Len(a)]
    BY ConcatProperties
  <1>3. \A j \in 1..Len(a) : b[j] = a[j]
    BY <1>1, <1>2
  <1>4. ASSUME NEW j \in 1..Len(r) PROVE b[Len(a) + j] = r[j]
    <2>1. Len(a) + j \in 1..Len(a) + Len(r) /\ ~(Len(a) + j <= Len(a)) /\ (Len(a) + j) - Len(a) = j
      BY <1>1
    <2> QED
      BY <1>2, <2>1
  <1> QED
    BY <1>1, <1>3, <1>4 DEF IsConcat

\* Two lists of one element.
LEMMA TwoInARow == ASSUME NEW x, NEW y PROVE <<x>> \o <<y>> = <<x, y>>
  <1> DEFINE S == {x, y}
             a == <<x>>
             r == <<y>>
             b == a \o r
  <1>1. a \in Seq(S) /\ r \in Seq(S) /\ Len(a) = 1 /\ Len(r) = 1 /\ a[1] = x /\ r[1] = y
    OBVIOUS
  <1>2. b \in Seq(S) /\ IsConcat(b, a, r)
    <2>1. b = a \o r
      OBVIOUS
    <2> HIDE DEF S, a, r, b
    <2> QED
      BY <1>1, <2>1, ConcatFacts
  <1> HIDE DEF a, r, b
  <1>3. Len(b) = 2 /\ b[1] = x /\ b[2] = y
    BY <1>1, <1>2 DEF IsConcat
  <1>4. b = <<x, y>>
    BY <1>2, <1>3
  <1> QED
    BY <1>4 DEF a, r, b

\* In q the elements of r stand where t had m others, from the i-th on.
IsReplaced(q, i, r, m, t) ==
    /\ Len(q) = Len(t) - m + Len(r)
    /\ \A j \in 1..(i - 1) : q[j] = t[j]
    /\ \A j \in 1..Len(r) : q[i - 1 + j] = r[j]
    /\ \A j \in (i + m)..Len(t) : q[j - m + Len(r)] = t[j]

\* The elements of ReplaceSubSeqAt.
LEMMA ReplaceFacts ==
    ASSUME NEW S, NEW t \in Seq(S), NEW r \in Seq(S), NEW s, NEW m \in Nat, Len(s) = m,
           NEW i \in Nat \ {0}, i + m <= Len(t) + 1,
           NEW q, q = ReplaceSubSeqAt(i, r, s, t)
    PROVE  q \in Seq(S) /\ IsReplaced(q, i, r, m, t)
  <1> DEFINE a == SubSeq(t, 1, i - 1)
             z == SubSeq(t, i + m, Len(t))
  <1>0. Len(t) \in Nat /\ Len(r) \in Nat
    OBVIOUS
  <1>1. a \in Seq(S) /\ Len(a) = i - 1 /\ \A j \in 1..(i - 1) : a[j] = t[j]
    BY <1>0
  <1>2. z \in Seq(S) /\ Len(z) = Len(t) + 1 - i - m
    BY <1>0
  <1>3. \A j \in 1..(Len(t) + 1 - i - m) : z[j] = t[i + m + j - 1]
    BY <1>0
  <1>4. q = (a \o r) \o z
    BY DEF ReplaceSubSeqAt
  <1> HIDE DEF a, z
  <1> DEFINE b == a \o r
  <1>5. b \in Seq(S) /\ Len(b) = i - 1 + Len(r) /\ (\A j \in 1..(i - 1) : b[j] = a[j])
        /\ (\A j \in 1..Len(r) : b[i - 1 + j] = r[j])
    <2>1. b \in Seq(S) /\ Len(b) = Len(a) + Len(r) /\ (\A j \in 1..Len(a) : b[j] = a[j])
          /\ (\A j \in 1..Len(r) : b[Len(a) + j] = r[j])
      <3>1. b = a \o r
        OBVIOUS
      <3> HIDE DEF b
      <3>2. b \in Seq(S) /\ IsConcat(b, a, r)
        BY <1>1, <3>1, ConcatFacts
      <3> QED
        BY <3>2 DEF IsConcat
    <2> QED
      BY <2>1, <1>1, <1>0
  <1>6. q = b \o z
    BY <1>4
  <1> HIDE DEF b
  <1>7. q \in Seq(S) /\ Len(q) = Len(b) + Len(z) /\ (\A j \in 1..Len(b) : q[j] = b[j])
        /\ (\A j \in 1..Len(z) : q[Len(b) + j] = z[j])
    <2>1. q \in Seq(S) /\ IsConcat(q, b, z)
      BY <1>6, <1>5, <1>2, ConcatFacts
    <2> QED
      BY <2>1 DEF IsConcat
  <1>8. Len(q) = Len(t) - m + Len(r)
    BY <1>7, <1>5, <1>2, <1>0
  <1>9. \A j \in 1..(i - 1) : q[j] = t[j]
    BY <1>7, <1>5, <1>1, <1>0
  <1>10. \A j \in 1..Len(r) : q[i - 1 + j] = r[j]
    <2> TAKE j \in 1..Len(r)
    <2>1. i - 1 + j \in 1..Len(b)
      BY <1>5, <1>0
    <2> QED
      BY <2>1, <1>7, <1>5
  <1>11. ASSUME NEW j \in (i + m)..Len(t) PROVE q[j - m + Len(r)] = t[j]
    <2> DEFINE x == j - i - m + 1
    <2>1. x \in 1..(Len(t) + 1 - i - m) /\ Len(b) + x = j - m + Len(r) /\ i + m + x - 1 = j
      BY <1>5, <1>0
    <2> HIDE DEF x
    <2>2. q[Len(b) + x] = z[x]
      BY <1>7, <1>2, <2>1
    <2>3. z[x] = t[i + m + x - 1]
      BY <1>3, <2>1
    <2> QED
      BY <2>1, <2>2, <2>3
  <1> QED
    BY <1>7, <1>8, <1>9, <1>10, <1>11 DEF IsReplaced

\* The m elements of t from the i-th on.
IsStretch(old, t, i, m) == old = {t[j] : j \in i..(i + m - 1)}

\* Nothing is lost, and what was there once is there once.
LEMMA ReplaceSets ==
    ASSUME NEW S, NEW t \in Seq(S), NEW r \in Seq(S), NEW s, NEW m \in Nat, Len(s) = m,
           NEW i \in Nat \ {0}, i + m <= Len(t) + 1,
           NEW q, q = ReplaceSubSeqAt(i, r, s, t),
           NEW old, IsStretch(old, t, i, m),
           IsInjective(t), IsInjective(r), ToSet(r) \cap (ToSet(t) \ old) = {}
    PROVE  q \in Seq(S) /\ IsInjective(q) /\ ToSet(q) = ToSet(r) \cup (ToSet(t) \ old)
  <1>0. Len(t) \in Nat /\ Len(r) \in Nat /\ DOMAIN t = 1..Len(t) /\ DOMAIN r = 1..Len(r)
    OBVIOUS
  <1>1. /\ q \in Seq(S) /\ Len(q) = Len(t) - m + Len(r)
        /\ \A j \in 1..(i - 1) : q[j] = t[j]
        /\ \A j \in 1..Len(r) : q[i - 1 + j] = r[j]
        /\ \A j \in (i + m)..Len(t) : q[j - m + Len(r)] = t[j]
    <2>1. q \in Seq(S) /\ IsReplaced(q, i, r, m, t)
      BY ReplaceFacts
    <2> QED
      BY <2>1 DEF IsReplaced
  <1>2. DOMAIN q = 1..(Len(t) - m + Len(r))
    BY <1>1
  <1>3. ASSUME NEW j \in 1..Len(t) PROVE t[j] \in old <=> j \in i..(i + m - 1)
    <2>1. \A k \in i..(i + m - 1) : k \in 1..Len(t)
      BY <1>0
    <2>2. \A k \in 1..Len(t) : t[k] = t[j] => k = j
      BY <1>0 DEF IsInjective
    <2> QED
      BY <2>1, <2>2 DEF IsStretch
  \* Where the elements of q come from.
  <1>4. ASSUME NEW k \in DOMAIN q
        PROVE  \/ k \in 1..(i - 1) /\ q[k] = t[k]
               \/ k - i + 1 \in 1..Len(r) /\ q[k] = r[k - i + 1]
               \/ k + m - Len(r) \in (i + m)..Len(t) /\ q[k] = t[k + m - Len(r)]
    <2>1. CASE k < i
      BY <1>0, <1>1, <1>2, <2>1
    <2>2. CASE k >= i /\ k < i + Len(r)
      <3>1. k - i + 1 \in 1..Len(r) /\ i - 1 + (k - i + 1) = k
        BY <1>0, <1>2, <2>2
      <3> QED
        BY <3>1, <1>1
    <2>3. CASE k >= i + Len(r)
      <3>1. k + m - Len(r) \in (i + m)..Len(t) /\ (k + m - Len(r)) - m + Len(r) = k
        BY <1>0, <1>2, <2>3
      <3> QED
        BY <3>1, <1>1
    <2> QED
      BY <1>0, <1>2, <2>1, <2>2, <2>3
  <1>5. \A j \in (i + m)..Len(t) : j \in 1..Len(t) /\ t[j] \in ToSet(t) \ old
    BY <1>0, <1>3 DEF ToSet
  <1>6. \A j \in 1..(i - 1) : j \in 1..Len(t) /\ t[j] \in ToSet(t) \ old
    BY <1>0, <1>3 DEF ToSet
  <1>7. \A j \in 1..Len(r) : r[j] \in ToSet(r) /\ r[j] \notin ToSet(t) \ old
    BY <1>0 DEF ToSet
  <1>8. ASSUME NEW x \in DOMAIN q, NEW y \in DOMAIN q, q[x] = q[y]
        PROVE  x = y
    <2>0. x \in Int /\ y \in Int
      BY <1>2
    <2>1. CASE x - i + 1 \in 1..Len(r) /\ q[x] = r[x - i + 1]
      <3>1. y - i + 1 \in 1..Len(r) /\ q[y] = r[y - i + 1]
        BY <1>4, <1>5, <1>6, <1>7, <1>8, <2>1
      <3>2. x - i + 1 = y - i + 1
        BY <2>1, <3>1, <1>8, <1>0 DEF IsInjective
      <3> QED
        BY <3>2, <2>0
    <2>2. CASE x \in 1..(i - 1) /\ q[x] = t[x]
      <3>1. q[y] \in ToSet(t) \ old
        BY <2>2, <1>6, <1>8
      <3>2. \/ y \in 1..(i - 1) /\ q[y] = t[y]
            \/ y + m - Len(r) \in (i + m)..Len(t) /\ q[y] = t[y + m - Len(r)]
        BY <1>4, <1>7, <3>1
      <3>3. CASE y \in 1..(i - 1) /\ q[y] = t[y]
        BY <2>2, <3>3, <1>6, <1>8, <1>0 DEF IsInjective
      <3>4. CASE y + m - Len(r) \in (i + m)..Len(t) /\ q[y] = t[y + m - Len(r)]
        <4>1. x = y + m - Len(r)
          BY <2>2, <3>4, <1>5, <1>6, <1>8, <1>0 DEF IsInjective
        <4> QED
          BY <4>1, <2>2, <3>4
      <3> QED
        BY <3>2, <3>3, <3>4
    <2>3. CASE x + m - Len(r) \in (i + m)..Len(t) /\ q[x] = t[x + m - Len(r)]
      <3>1. q[y] \in ToSet(t) \ old
        BY <2>3, <1>5, <1>8
      <3>2. \/ y \in 1..(i - 1) /\ q[y] = t[y]
            \/ y + m - Len(r) \in (i + m)..Len(t) /\ q[y] = t[y + m - Len(r)]
        BY <1>4, <1>7, <3>1
      <3>3. CASE y \in 1..(i - 1) /\ q[y] = t[y]
        <4>1. x + m - Len(r) = y
          BY <2>3, <3>3, <1>5, <1>6, <1>8, <1>0 DEF IsInjective
        <4> QED
          BY <4>1, <2>3, <3>3
      <3>4. CASE y + m - Len(r) \in (i + m)..Len(t) /\ q[y] = t[y + m - Len(r)]
        <4>1. x + m - Len(r) = y + m - Len(r)
          BY <2>3, <3>4, <1>5, <1>8, <1>0 DEF IsInjective
        <4> QED
          BY <4>1, <2>0, <1>0
      <3> QED
        BY <3>2, <3>3, <3>4
    <2> QED
      BY <1>4, <2>1, <2>2, <2>3
  <1>9. ToSet(q) \subseteq ToSet(r) \cup (ToSet(t) \ old)
    <2> SUFFICES ASSUME NEW k \in DOMAIN q PROVE q[k] \in ToSet(r) \cup (ToSet(t) \ old)
      BY DEF ToSet
    <2> QED
      BY <1>4, <1>5, <1>6, <1>7
  <1>10. ToSet(r) \subseteq ToSet(q)
    <2> SUFFICES ASSUME NEW j \in 1..Len(r) PROVE r[j] \in ToSet(q)
      BY <1>0 DEF ToSet
    <2>1. i - 1 + j \in DOMAIN q
      BY <1>0, <1>2
    <2> QED
      BY <1>1, <2>1 DEF ToSet
  <1>11. ToSet(t) \ old \subseteq ToSet(q)
    <2> SUFFICES ASSUME NEW j \in 1..Len(t), t[j] \notin old PROVE t[j] \in ToSet(q)
      BY <1>0 DEF ToSet
    <2>1. j \in 1..(i - 1) \/ j \in (i + m)..Len(t)
      BY <1>0, <1>3
    <2>2. CASE j \in 1..(i - 1)
      <3>1. j \in DOMAIN q
        BY <1>0, <1>2, <2>2
      <3> QED
        BY <1>1, <2>2, <3>1 DEF ToSet
    <2>3. CASE j \in (i + m)..Len(t)
      <3>1. j - m + Len(r) \in DOMAIN q
        BY <1>0, <1>2, <2>3
      <3> QED
        BY <1>1, <2>3, <3>1 DEF ToSet
    <2> QED
      BY <2>1, <2>2, <2>3
  <1>12. IsInjective(q)
    BY <1>8 DEF IsInjective
  <1> QED
    BY <1>1, <1>9, <1>10, <1>11, <1>12

-----------------------------------------------------------------------------
\* Lists of children in which every block has at most one place.
Apart(K) ==
    /\ K \in [Nodes -> Seq(Ids)]
    /\ \A p \in Nodes : IsInjective(K[p])
    /\ \A p, q \in Nodes : p # q => ToSet(K[p]) \cap ToSet(K[q]) = {}

\* One element in front of a list that does not have it.
LEMMA OneInFront ==
    ASSUME NEW h \in Ids, NEW s \in Seq(Ids), IsInjective(s), h \notin ToSet(s),
           NEW r, r = <<h>> \o s
    PROVE  /\ r \in Seq(Ids) /\ IsInjective(r) /\ ToSet(r) = {h} \cup ToSet(s)
           /\ IsConcat(r, <<h>>, s)
  <1>0. <<h>> \in Seq(Ids) /\ Len(<<h>>) = 1 /\ <<h>>[1] = h /\ Len(s) \in Nat /\ DOMAIN s = 1..Len(s)
    OBVIOUS
  <1>1. r \in Seq(Ids) /\ IsConcat(r, <<h>>, s)
    BY <1>0, ConcatFacts
  <1>2. Len(r) = Len(s) + 1 /\ r[1] = h /\ \A j \in 1..Len(s) : r[1 + j] = s[j]
    BY <1>0, <1>1 DEF IsConcat
  <1>3. DOMAIN r = 1..(Len(s) + 1)
    BY <1>1, <1>2
  <1>4. \A i \in DOMAIN r : i = 1 \/ (i - 1 \in 1..Len(s) /\ 1 + (i - 1) = i /\ i - 1 \in DOMAIN s)
    BY <1>3, <1>0
  <1>5. \A i \in DOMAIN r : (i = 1 /\ r[i] = h) \/ (i # 1 /\ i - 1 \in DOMAIN s /\ r[i] = s[i - 1])
    BY <1>2, <1>4
  <1>6. IsInjective(r)
    <2> SUFFICES ASSUME NEW x \in DOMAIN r, NEW y \in DOMAIN r, r[x] = r[y] PROVE x = y
      BY DEF IsInjective
    <2>1. x \in Int /\ y \in Int
      BY <1>3, <1>0
    <2>2. CASE x # 1 /\ y # 1
      <3>1. x - 1 \in DOMAIN s /\ y - 1 \in DOMAIN s /\ s[x - 1] = s[y - 1]
        BY <1>5, <2>2
      <3>2. x - 1 = y - 1
        BY <3>1 DEF IsInjective
      <3> QED
        BY <3>2, <2>1
    <2>3. CASE x = 1 \/ y = 1
      BY <1>5, <2>3 DEF ToSet
    <2> QED
      BY <2>2, <2>3
  <1>7. ToSet(r) = {h} \cup ToSet(s)
    <2>1. ToSet(r) \subseteq {h} \cup ToSet(s)
      BY <1>5 DEF ToSet
    <2>2. h \in ToSet(r)
      BY <1>2, <1>3, <1>0 DEF ToSet
    <2>3. ASSUME NEW j \in 1..Len(s) PROVE s[j] \in ToSet(r)
      <3>1. 1 + j \in DOMAIN r
        BY <1>3, <1>0
      <3> QED
        BY <1>2, <3>1 DEF ToSet
    <2> QED
      BY <2>1, <2>2, <2>3, <1>0 DEF ToSet
  <1> QED
    BY <1>1, <1>2, <1>6, <1>7

\* In e the children s stand behind the k-th block of c.
IsOpened(e, c, k, s) ==
    /\ Len(e) = Len(c) + Len(s)
    /\ \A j \in 1..k : e[j] = c[j]
    /\ \A j \in 1..Len(s) : e[k + j] = s[j]
    /\ \A j \in (k + 1)..Len(c) : e[j + Len(s)] = c[j]

IsOpenList(e, c, k, s) ==
    /\ e \in Seq(Ids) /\ IsInjective(e) /\ ToSet(e) = ToSet(c) \cup ToSet(s)
    /\ IsOpened(e, c, k, s)

\* WithChildren puts the children of the k-th block behind it.
LEMMA Opened ==
    ASSUME NEW K \in [Nodes -> Seq(Ids)], NEW c \in Seq(Ids), NEW k \in 1..Len(c),
           NEW s, s = K[c[k]],
           IsInjective(c), IsInjective(s), ToSet(s) \cap ToSet(c) = {}
    PROVE  IsOpenList(WithChildren(K, c, k), c, k, s)
  <1> DEFINE h == c[k]
             e == WithChildren(K, c, k)
  <1>0. Len(c) \in Nat /\ DOMAIN c = 1..Len(c) /\ k \in Nat \ {0} /\ h \in Ids /\ h \in ToSet(c)
    BY DEF ToSet
  <1>1. s \in Seq(Ids) /\ Len(s) \in Nat /\ h \notin ToSet(s)
    BY <1>0 DEF Nodes
  <1> DEFINE r == <<h>> \o s
  <1>2. /\ r \in Seq(Ids) /\ IsInjective(r) /\ ToSet(r) = {h} \cup ToSet(s)
        /\ Len(r) = Len(s) + 1 /\ r[1] = h /\ \A j \in 1..Len(s) : r[1 + j] = s[j]
    <2>1. r = <<h>> \o s
      OBVIOUS
    <2> HIDE DEF r
    <2>2. /\ r \in Seq(Ids) /\ IsInjective(r) /\ ToSet(r) = {h} \cup ToSet(s)
          /\ IsConcat(r, <<h>>, s)
      BY <1>0, <1>1, <2>1, OneInFront
    <2>3. Len(<<h>>) = 1 /\ <<h>>[1] = h
      OBVIOUS
    <2> QED
      BY <1>1, <2>2, <2>3 DEF IsConcat
  <1>3. e = ReplaceSubSeqAt(k, r, <<h>>, c)
    BY <1>0 DEF WithChildren
  <1> HIDE DEF r, e, h
  <1>4. Len(<<h>>) = 1 /\ 1 \in Nat /\ k + 1 <= Len(c) + 1
    BY <1>0
  <1>5. e \in Seq(Ids) /\ IsReplaced(e, k, r, 1, c)
    BY <1>0, <1>2, <1>3, <1>4, ReplaceFacts
  <1> DEFINE old == {c[j] : j \in k..(k + 1 - 1)}
  <1>6. old = {h}
    BY <1>0 DEF h
  <1>7. ToSet(r) \cap (ToSet(c) \ old) = {}
    BY <1>2, <1>6
  <1> HIDE DEF old
  <1>8. IsInjective(e) /\ ToSet(e) = ToSet(r) \cup (ToSet(c) \ old)
    <2>1. IsStretch(old, c, k, 1)
      BY DEF old, IsStretch
    <2> DEFINE one == <<h>>
               m == 1
    <2>2. Len(one) = m /\ m \in Nat /\ k + m <= Len(c) + 1 /\ IsStretch(old, c, k, m)
          /\ e = ReplaceSubSeqAt(k, r, one, c)
      BY <1>3, <1>4, <2>1
    <2> HIDE DEF one, m
    <2> QED
      BY <1>0, <1>2, <1>7, <2>2, ReplaceSets
  <1>9. ToSet(e) = ToSet(c) \cup ToSet(s)
    BY <1>8, <1>6, <1>2, <1>0
  <1>10. Len(e) = Len(c) + Len(s)
    BY <1>5, <1>2, <1>1, <1>0 DEF IsReplaced
  <1>11. \A j \in 1..Len(r) : e[k - 1 + j] = r[j]
    BY <1>5 DEF IsReplaced
  <1>12. ASSUME NEW j \in 1..k PROVE e[j] = c[j]
    <2>1. CASE j = k
      <3>1. 1 \in 1..Len(r) /\ k - 1 + 1 = k
        BY <1>0, <1>1, <1>2
      <3> QED
        BY <1>11, <1>2, <3>1, <2>1 DEF h
    <2>2. CASE j # k
      <3>1. j \in 1..(k - 1)
        BY <2>2, <1>0
      <3> QED
        BY <1>5, <3>1 DEF IsReplaced
    <2> QED
      BY <2>1, <2>2
  <1>13. ASSUME NEW j \in 1..Len(s) PROVE e[k + j] = s[j]
    <2>1. 1 + j \in 1..Len(r) /\ k - 1 + (1 + j) = k + j
      BY <1>0, <1>1, <1>2
    <2> QED
      BY <1>11, <1>2, <2>1
  <1>14. ASSUME NEW j \in (k + 1)..Len(c) PROVE e[j + Len(s)] = c[j]
    <2>1. j - 1 + Len(r) = j + Len(s)
      BY <1>0, <1>1, <1>2
    <2>2. e[j - 1 + Len(r)] = c[j]
      BY <1>5 DEF IsReplaced
    <2> QED
      BY <2>1, <2>2
  <1>15. IsOpenList(e, c, k, s)
    BY <1>5, <1>8, <1>9, <1>10, <1>12, <1>13, <1>14 DEF IsOpened, IsOpenList
  <1> QED
    BY <1>15 DEF e

\* No way down from p leads back to it.
NoWayBack(K, p) ==
    \A S \in SUBSET Ids : (\A b \in S : \E q \in S \cup {p} : b \in ToSet(K[q])) => p \notin S

\* Every block comes after its parent.
ParentsFirst(K, p, k, c) ==
    \A i \in 1..Len(c) : c[i] \in ToSet(K[p]) \/ \E j \in 1..k : j < i /\ c[i] \in ToSet(K[c[j]])

\* Every block comes after its left sibling.
LeftsFirst(K, c) ==
    \A i \in 1..Len(c) : \A q \in Nodes : \A m \in 2..Len(K[q]) :
        c[i] = K[q][m] => \E j \in 1..Len(c) : j < i /\ c[j] = K[q][m - 1]

\* The list after k rounds.
Listing(K, p, k, c) ==
    /\ c \in Seq(Ids) /\ IsInjective(c)
    /\ ToSet(K[p]) \subseteq ToSet(c)
    /\ \A i \in 1..Len(c) : i <= k => ToSet(K[c[i]]) \subseteq ToSet(c)
    /\ ParentsFirst(K, p, k, c)
    /\ LeftsFirst(K, c)

\* Before the first round the list has the children of p.
LEMMA ListingStart ==
    ASSUME NEW K, Apart(K), NEW p \in Nodes
    PROVE  Listing(K, p, 0, K[p])
  <1> DEFINE c == K[p]
  <1>0. c \in Seq(Ids) /\ IsInjective(c) /\ DOMAIN c = 1..Len(c) /\ Len(c) \in Nat
    BY DEF Apart
  <1>1. ParentsFirst(K, p, 0, c)
    BY <1>0 DEF ParentsFirst, ToSet
  <1>2. LeftsFirst(K, c)
    <2> SUFFICES ASSUME NEW i \in 1..Len(c), NEW q \in Nodes, NEW m \in 2..Len(K[q]), c[i] = K[q][m]
                 PROVE  \E j \in 1..Len(c) : j < i /\ c[j] = K[q][m - 1]
      BY DEF LeftsFirst
    <2>0. K[q] \in Seq(Ids) /\ DOMAIN K[q] = 1..Len(K[q]) /\ Len(K[q]) \in Nat
      BY DEF Apart
    <2>1. m \in DOMAIN K[q]
      BY <2>0
    <2>2. c[i] \in ToSet(K[p]) /\ c[i] \in ToSet(K[q])
      BY <1>0, <2>1 DEF ToSet
    <2>3. q = p
      BY <2>2 DEF Apart
    <2>4. m = i
      BY <1>0, <2>1, <2>3 DEF IsInjective
    <2>5. m - 1 \in 1..Len(c) /\ m - 1 < i
      BY <1>0, <2>3, <2>4
    <2> QED
      BY <2>3, <2>5
  <1>3. \A i \in 1..Len(c) : ~(i <= 0)
    BY <1>0
  <1> QED
    BY <1>0, <1>1, <1>2, <1>3 DEF Listing

\* The children of the next block are not in the list yet.
LEMMA ChildrenAreNew ==
    ASSUME NEW K, Apart(K), NEW p \in Nodes, NoWayBack(K, p),
           NEW k \in Nat \ {0}, NEW c, Listing(K, p, k - 1, c), k <= Len(c)
    PROVE  ToSet(K[c[k]]) \cap ToSet(c) = {}
  <1>0. c \in Seq(Ids) /\ IsInjective(c) /\ DOMAIN c = 1..Len(c) /\ Len(c) \in Nat
    BY DEF Listing
  <1>2. ASSUME NEW i \in 1..Len(c)
        PROVE  c[i] \in ToSet(K[p]) \/ \E j \in 1..Len(c) : j < k /\ c[i] \in ToSet(K[c[j]])
    <2>1. c[i] \in ToSet(K[p]) \/ \E j \in 1..(k - 1) : j < i /\ c[i] \in ToSet(K[c[j]])
      BY DEF Listing, ParentsFirst
    <2>2. \A j \in 1..(k - 1) : j \in 1..Len(c) /\ j < k
      BY <1>0
    <2> QED
      BY <2>1, <2>2
  <1>3. p \notin ToSet(c)
    <2>1. ToSet(c) \in SUBSET Ids
      BY <1>0 DEF ToSet
    <2>2. \A b \in ToSet(c) : \E q \in ToSet(c) \cup {p} : b \in ToSet(K[q])
      BY <1>0, <1>2 DEF ToSet
    <2> QED
      BY <2>1, <2>2 DEF NoWayBack
  <1>4. k \in DOMAIN c /\ c[k] \in Nodes /\ c[k] # p
    BY <1>0, <1>3 DEF ToSet, Nodes
  <1> SUFFICES ASSUME NEW i \in 1..Len(c), c[i] \in ToSet(K[c[k]]) PROVE FALSE
    BY <1>0 DEF ToSet
  <1>5. c[i] \notin ToSet(K[p])
    BY <1>4 DEF Apart
  <1>6. PICK j \in 1..Len(c) : j < k /\ c[i] \in ToSet(K[c[j]])
    BY <1>2, <1>5
  <1>7. c[j] \in Nodes
    BY <1>0 DEF Nodes
  <1>8. c[j] = c[k]
    BY <1>4, <1>6, <1>7 DEF Apart
  <1> QED
    BY <1>0, <1>4, <1>6, <1>8 DEF IsInjective

\* Where the blocks of an opened list were, and where they go.
OpenPlaces(e, c, k, s) ==
    /\ \A i \in 1..Len(e) : \/ i \in 1..k /\ i \in 1..Len(c) /\ e[i] = c[i]
                            \/ i > k /\ i - k \in 1..Len(s) /\ e[i] = s[i - k]
                            \/ i > k /\ i - Len(s) > k /\ i - Len(s) \in 1..Len(c) /\ e[i] = c[i - Len(s)]
    /\ \A j \in 1..Len(c) : \/ j <= k /\ j \in 1..Len(e) /\ e[j] = c[j]
                            \/ j > k /\ j + Len(s) \in 1..Len(e) /\ e[j + Len(s)] = c[j]
    /\ \A j \in 1..Len(s) : k + j \in 1..Len(e) /\ e[k + j] = s[j]

\* Where the elements of the opened list were before.
LEMMA OpenedPlaces ==
    ASSUME NEW c \in Seq(Ids), NEW s \in Seq(Ids), NEW e \in Seq(Ids), NEW k \in 1..Len(c), IsOpened(e, c, k, s)
    PROVE  OpenPlaces(e, c, k, s)
  <1>0. Len(c) \in Nat /\ Len(s) \in Nat /\ Len(e) = Len(c) + Len(s) /\ k \in Nat
    BY DEF IsOpened
  <1>1. ASSUME NEW i \in 1..Len(e)
        PROVE  \/ i \in 1..k /\ i \in 1..Len(c) /\ e[i] = c[i]
               \/ i > k /\ i - k \in 1..Len(s) /\ e[i] = s[i - k]
               \/ i > k /\ i - Len(s) > k /\ i - Len(s) \in 1..Len(c) /\ e[i] = c[i - Len(s)]
    <2>1. CASE i <= k
      BY <1>0, <2>1 DEF IsOpened
    <2>2. CASE i > k /\ i <= k + Len(s)
      <3>1. i - k \in 1..Len(s) /\ k + (i - k) = i
        BY <1>0, <2>2
      <3> QED
        BY <3>1, <2>2 DEF IsOpened
    <2>3. CASE i > k + Len(s)
      <3>1. i - Len(s) \in (k + 1)..Len(c) /\ (i - Len(s)) + Len(s) = i
        BY <1>0, <2>3
      <3>2. e[i] = c[i - Len(s)]
        BY <3>1 DEF IsOpened
      <3> QED
        BY <3>1, <3>2, <2>3, <1>0
    <2> QED
      BY <1>0, <2>1, <2>2, <2>3
  <1>2. ASSUME NEW j \in 1..Len(c)
        PROVE  \/ j <= k /\ j \in 1..Len(e) /\ e[j] = c[j]
               \/ j > k /\ j + Len(s) \in 1..Len(e) /\ e[j + Len(s)] = c[j]
    <2>1. CASE j <= k
      <3>1. j \in 1..k /\ j \in 1..Len(e)
        BY <1>0, <2>1
      <3> QED
        BY <3>1, <2>1 DEF IsOpened
    <2>2. CASE j > k
      <3>1. j \in (k + 1)..Len(c) /\ j + Len(s) \in 1..Len(e)
        BY <1>0, <2>2
      <3> QED
        BY <3>1, <2>2 DEF IsOpened
    <2> QED
      BY <1>0, <2>1, <2>2
  <1>3. ASSUME NEW j \in 1..Len(s) PROVE k + j \in 1..Len(e) /\ e[k + j] = s[j]
    BY <1>0 DEF IsOpened
  <1> QED
    BY <1>1, <1>2, <1>3 DEF OpenPlaces

\* A round of Below adds the children of one block, all of them new.
LEMMA ListingStep ==
    ASSUME NEW K, Apart(K), NEW p \in Nodes, NoWayBack(K, p),
           NEW k \in Nat \ {0}, NEW c, Listing(K, p, k - 1, c), NEW e, e = WithChildren(K, c, k)
    PROVE  Listing(K, p, k, e)
  <1>0. c \in Seq(Ids) /\ IsInjective(c) /\ DOMAIN c = 1..Len(c) /\ Len(c) \in Nat
    BY DEF Listing
  <1>1. CASE k > Len(c)
    <2>1. e = c
      BY <1>1 DEF WithChildren
    <2>2. \A i \in 1..Len(c) : i <= k - 1
      BY <1>0, <1>1
    <2>3. \A j \in 1..(k - 1) : j \in 1..k
      OBVIOUS
    <2>4. ParentsFirst(K, p, k, c)
      BY <2>3 DEF Listing, ParentsFirst
    <2> QED
      BY <1>0, <2>1, <2>2, <2>4 DEF Listing
  <1>2. CASE k <= Len(c)
    <2> DEFINE h == c[k]
               s == K[h]
    <2>0. k \in 1..Len(c) /\ h \in Nodes /\ K \in [Nodes -> Seq(Ids)] /\ IsInjective(s) /\ s \in Seq(Ids)
          /\ DOMAIN s = 1..Len(s) /\ Len(s) \in Nat
      BY <1>0, <1>2 DEF Nodes, Apart
    <2>1. ToSet(s) \cap ToSet(c) = {}
      BY <1>2, ChildrenAreNew
    <2>2. /\ e \in Seq(Ids) /\ IsInjective(e) /\ ToSet(e) = ToSet(c) \cup ToSet(s)
          /\ IsOpened(e, c, k, s)
      <3>1. s = K[c[k]]
        OBVIOUS
      <3> HIDE DEF s
      <3>2. IsOpenList(e, c, k, s)
        BY <1>0, <2>0, <2>1, <3>1, Opened
      <3> QED
        BY <3>2 DEF IsOpenList
    <2> HIDE DEF s, h
    <2>3. Len(e) = Len(c) + Len(s)
      BY <2>2 DEF IsOpened
    <2>4. /\ \A i \in 1..Len(e) : \/ i \in 1..k /\ i \in 1..Len(c) /\ e[i] = c[i]
                                  \/ i > k /\ i - k \in 1..Len(s) /\ e[i] = s[i - k]
                                  \/ i > k /\ i - Len(s) > k /\ i - Len(s) \in 1..Len(c) /\ e[i] = c[i - Len(s)]
          /\ \A j \in 1..Len(c) : \/ j <= k /\ j \in 1..Len(e) /\ e[j] = c[j]
                                  \/ j > k /\ j + Len(s) \in 1..Len(e) /\ e[j + Len(s)] = c[j]
          /\ \A j \in 1..Len(s) : k + j \in 1..Len(e) /\ e[k + j] = s[j]
      <3>1. OpenPlaces(e, c, k, s)
        BY <1>0, <2>0, <2>2, OpenedPlaces
      <3> QED
        BY <3>1 DEF OpenPlaces
    <2>5. \A j \in 1..k : j \in 1..Len(e) /\ e[j] = c[j]
      BY <2>0, <2>4, <1>0
    <2>6. e[k] = h
      BY <2>5, <2>0 DEF h
    <2>7. ToSet(K[p]) \subseteq ToSet(e)
      BY <2>2 DEF Listing
    <2>8. ASSUME NEW i \in 1..Len(e), i <= k PROVE ToSet(K[e[i]]) \subseteq ToSet(e)
      <3>1. CASE i = k
        BY <2>2, <2>6, <3>1 DEF s
      <3>2. CASE i # k
        <4>1. i \in 1..k /\ i <= k - 1 /\ i \in 1..Len(c)
          BY <2>8, <3>2, <2>0, <2>3, <1>0
        <4>2. e[i] = c[i]
          BY <4>1, <2>5
        <4>3. ToSet(K[c[i]]) \subseteq ToSet(c)
          BY <4>1 DEF Listing
        <4> QED
          BY <4>2, <4>3, <2>2
      <3> QED
        BY <3>1, <3>2
    <2>9. ParentsFirst(K, p, k, e)
      <3> SUFFICES ASSUME NEW i \in 1..Len(e)
                   PROVE  e[i] \in ToSet(K[p]) \/ \E j \in 1..k : j < i /\ e[i] \in ToSet(K[e[j]])
        BY DEF ParentsFirst
      <3>1. ASSUME NEW x \in 1..Len(c), x <= i, e[i] = c[x]
            PROVE  e[i] \in ToSet(K[p]) \/ \E j \in 1..k : j < i /\ e[i] \in ToSet(K[e[j]])
        <4>1. c[x] \in ToSet(K[p]) \/ \E j \in 1..(k - 1) : j < x /\ c[x] \in ToSet(K[c[j]])
          BY DEF Listing, ParentsFirst
        <4>2. CASE c[x] \in ToSet(K[p])
          BY <4>2, <3>1
        <4>3. CASE \E j \in 1..(k - 1) : j < x /\ c[x] \in ToSet(K[c[j]])
          <5>1. PICK j \in 1..(k - 1) : j < x /\ c[x] \in ToSet(K[c[j]])
            BY <4>3
          <5>2. j \in 1..k /\ j < i
            BY <5>1, <3>1, <2>3, <1>0
          <5>3. e[j] = c[j]
            BY <5>2, <2>5
          <5> QED
            BY <5>1, <5>2, <5>3, <3>1
        <4> QED
          BY <4>1, <4>2, <4>3
      <3>2. CASE i \in 1..k /\ i \in 1..Len(c) /\ e[i] = c[i]
        BY <3>1, <3>2
      <3>3. CASE i > k /\ i - k \in 1..Len(s) /\ e[i] = s[i - k]
        <4>1. e[i] \in ToSet(K[e[k]])
          BY <3>3, <2>0, <2>6 DEF ToSet, s
        <4> QED
          BY <4>1, <3>3
      <3>4. CASE i > k /\ i - Len(s) > k /\ i - Len(s) \in 1..Len(c) /\ e[i] = c[i - Len(s)]
        <4>1. i - Len(s) <= i
          BY <2>0, <2>3, <1>0
        <4> QED
          BY <3>1, <3>4, <4>1
      <3> QED
        BY <2>4, <3>2, <3>3, <3>4
    <2>10. LeftsFirst(K, e)
      <3> SUFFICES ASSUME NEW i \in 1..Len(e), NEW q \in Nodes, NEW m \in 2..Len(K[q]), e[i] = K[q][m]
                   PROVE  \E j \in 1..Len(e) : j < i /\ e[j] = K[q][m - 1]
        BY DEF LeftsFirst
      <3>1. CASE i \in 1..k /\ i \in 1..Len(c) /\ e[i] = c[i]
        <4>1. PICK j \in 1..Len(c) : j < i /\ c[j] = K[q][m - 1]
          BY <3>1 DEF Listing, LeftsFirst
        <4>2. j \in 1..k
          BY <4>1, <3>1
        <4> QED
          BY <4>1, <4>2, <2>5
      <3>2. CASE i > k /\ i - k \in 1..Len(s) /\ e[i] = s[i - k]
        <4>0. K[q] \in Seq(Ids) /\ DOMAIN K[q] = 1..Len(K[q]) /\ Len(K[q]) \in Nat
          BY DEF Apart
        <4>1. m \in DOMAIN K[q] /\ i - k \in DOMAIN K[h]
          BY <4>0, <3>2, <2>0 DEF s
        <4>2. e[i] \in ToSet(K[q]) /\ e[i] \in ToSet(K[h])
          BY <4>1, <3>2 DEF ToSet, s
        <4>3. q = h
          BY <4>2, <2>0 DEF Apart
        <4>4. m = i - k
          BY <4>1, <4>3, <3>2 DEF Apart, IsInjective, s
        <4>5. m - 1 \in 1..Len(s)
          BY <4>0, <4>3, <4>4, <3>2
        <4>6. k + (m - 1) \in 1..Len(e) /\ e[k + (m - 1)] = s[m - 1]
          BY <4>5, <2>4
        <4>7. k + (m - 1) < i
          BY <4>4, <2>3, <2>0, <1>0
        <4> QED
          BY <4>3, <4>6, <4>7 DEF s
      <3>3. CASE i > k /\ i - Len(s) > k /\ i - Len(s) \in 1..Len(c) /\ e[i] = c[i - Len(s)]
        <4>1. PICK j \in 1..Len(c) : j < i - Len(s) /\ c[j] = K[q][m - 1]
          BY <3>3 DEF Listing, LeftsFirst
        <4>2. j < i /\ j + Len(s) < i
          BY <4>1, <2>0, <2>3, <1>0
        <4> QED
          BY <4>1, <4>2, <2>4
      <3> QED
        BY <2>4, <3>1, <3>2, <3>3
    <2> QED
      BY <2>2, <2>7, <2>8, <2>9, <2>10 DEF Listing
  <1> QED
    BY <1>0, <1>1, <1>2

\* The loop of Below.
LEMMA BelowLoop ==
    ASSUME NEW K \in [Nodes -> Seq(Ids)], NEW p \in Nodes
    PROVE  \E f : /\ f \in [0..MaxBlocks -> Seq(Ids)] /\ f[0] = K[p] /\ f[MaxBlocks] = Below(K, p)
                  /\ \A k \in 1..MaxBlocks : f[k] = WithChildren(K, f[k - 1], k)
  <1> DEFINE n == MaxBlocks
             Is(f) == f = [k \in 0..n |-> IF k = 0 THEN K[p] ELSE WithChildren(K, f[k - 1], k)]
             G == [k \in 1..n |-> [s \in Seq(Ids) |-> WithChildren(K, s, k)]]
             F == CHOOSE f : Is(f)
  <1>0. n \in Nat /\ K[p] \in Seq(Ids) /\ 0 \in 0..n /\ n \in 0..n
    BY BlocksAssumption
  <1>1. ASSUME NEW k \in 1..n, NEW s \in Seq(Ids) PROVE WithChildren(K, s, k) \in Seq(Ids)
    <2>1. CASE k > Len(s)
      BY <2>1 DEF WithChildren
    <2>2. CASE k <= Len(s)
      <3> DEFINE h == s[k]
                 r == <<h>> \o K[h]
                 one == <<h>>
                 m == 1
                 q == ReplaceSubSeqAt(k, r, one, s)
      <3>1. WithChildren(K, s, k) = q
        BY <1>0, <2>2 DEF WithChildren
      <3>2. h \in Ids /\ K[h] \in Seq(Ids) /\ Len(s) \in Nat
        BY <1>0, <2>2 DEF Nodes
      <3>3. r \in Seq(Ids) /\ Len(one) = m /\ m \in Nat /\ k \in Nat \ {0} /\ k + m <= Len(s) + 1
        BY <1>0, <2>2, <3>2
      <3> HIDE DEF h, r, one, m
      <3> QED
        BY <3>1, <3>3, ReplaceFacts
    <2> QED
      BY <1>0, <2>1, <2>2
  <1>2. G \in [1..n -> [Seq(Ids) -> Seq(Ids)]]
    BY <1>1
  <1> DEFINE S == Seq(Ids)
             x == K[p]
  <1>3. PICK f : IsLoop(f, S, x, G, n)
    <2>1. n \in Nat /\ x \in S /\ G \in [1..n -> [S -> S]]
      BY <1>0, <1>2
    <2> HIDE DEF n, S, x, G
    <2> QED
      BY <2>1, LoopExists
  <1>4. f \in [0..n -> Seq(Ids)] /\ f[0] = K[p] /\ \A k \in 1..n : f[k] = G[k][f[k - 1]]
    BY <1>3 DEF IsLoop
  <1>5. ASSUME NEW k \in 0..n PROVE f[k] = IF k = 0 THEN K[p] ELSE WithChildren(K, f[k - 1], k)
    <2>1. CASE k = 0
      BY <1>4, <2>1
    <2>2. CASE k # 0
      <3>1. k \in 1..n /\ k - 1 \in 0..n
        BY <1>0, <2>2
      <3>2. f[k - 1] \in Seq(Ids)
        BY <1>4, <3>1
      <3>3. G[k][f[k - 1]] = WithChildren(K, f[k - 1], k)
        BY <3>1, <3>2
      <3> HIDE DEF G
      <3> QED
        BY <1>4, <3>1, <3>3, <2>2
    <2> QED
      BY <2>1, <2>2
  <1>6. Is(f)
    BY <1>4, <1>5
  <1>7. Is(F)
    BY <1>6
  <1> HIDE DEF G
  <1>8. Below(K, p) = F[n]
    BY DEF Below
  <1> HIDE DEF F
  <1>9. F[0] = K[p] /\ \A k \in 1..n : F[k] = WithChildren(K, F[k - 1], k)
    BY <1>0, <1>7
  <1>10. \A k \in 0..n : F[k] \in Seq(Ids)
    <2> DEFINE B == {k \in 0..n : F[k] \notin Seq(Ids)}
    <2> SUFFICES ASSUME B # {} PROVE FALSE
      OBVIOUS
    <2>1. PICK k \in B : k = 0 \/ (k \in 1..n /\ k - 1 \in 0..n /\ k - 1 \notin B)
      BY <1>0, LeastIndex
    <2>2. k # 0
      BY <1>0, <1>9, <2>1
    <2>3. F[k - 1] \in Seq(Ids) /\ k \in 1..n
      BY <2>1, <2>2
    <2> QED
      BY <1>1, <1>9, <2>1, <2>3
  <1>11. F \in [0..n -> Seq(Ids)]
    BY <1>7, <1>10
  <1> QED
    BY <1>8, <1>9, <1>11

\* What Below returns: every block under p once, after its parent and its
\* left sibling.
LEMMA BelowFacts ==
    ASSUME NEW K, Apart(K), NEW p \in Nodes, NoWayBack(K, p)
    PROVE  Listing(K, p, MaxBlocks, Below(K, p))
  <1>0. K \in [Nodes -> Seq(Ids)] /\ MaxBlocks \in Nat
    BY BlocksAssumption DEF Apart
  <1>1. PICK f : /\ f \in [0..MaxBlocks -> Seq(Ids)] /\ f[0] = K[p] /\ f[MaxBlocks] = Below(K, p)
                 /\ \A k \in 1..MaxBlocks : f[k] = WithChildren(K, f[k - 1], k)
    BY <1>0, BelowLoop
  <1> DEFINE B == {k \in 0..MaxBlocks : ~Listing(K, p, k, f[k])}
  <1>2. B = {}
    <2> SUFFICES ASSUME B # {} PROVE FALSE
      OBVIOUS
    <2>1. PICK k \in B : k = 0 \/ (k \in 1..MaxBlocks /\ k - 1 \in 0..MaxBlocks /\ k - 1 \notin B)
      BY <1>0, LeastIndex
    <2>2. k # 0
      BY <1>1, <2>1, ListingStart
    <2>3. Listing(K, p, k - 1, f[k - 1]) /\ k \in Nat \ {0}
      BY <1>0, <2>1, <2>2
    <2>4. Listing(K, p, k, f[k])
      BY <1>1, <2>1, <2>2, <2>3, ListingStep
    <2> QED
      BY <2>1, <2>4
  <1> QED
    BY <1>0, <1>1, <1>2

-----------------------------------------------------------------------------
\* Nothing hangs on a block that has no place, and no blocks are under
\* each other in a circle.
Rooted(K) ==
    /\ \A b \in Ids \ Placed(K) : K[b] = <<>>
    /\ \A S \in SUBSET Ids : (\A b \in S : \E q \in S : b \in ToSet(K[q])) => S = {}
GoodKids(K) == Apart(K) /\ Rooted(K)

\* What Placed means.
LEMMA PlacedIn ==
    ASSUME NEW K \in [Nodes -> Seq(Ids)]
    PROVE  /\ Placed(K) \subseteq Ids
           /\ \A b : b \in Placed(K) <=> \E p \in Nodes : b \in ToSet(K[p])
           /\ \A p \in Nodes : ToSet(K[p]) \subseteq Ids
  <1>1. DOMAIN K = Nodes
    OBVIOUS
  <1>2. \A p \in Nodes : ToSet(K[p]) \subseteq Ids
    BY DEF ToSet
  <1>3. \A b : b \in Placed(K) <=> \E p \in Nodes : b \in ToSet(K[p])
    BY <1>1 DEF Placed
  <1> QED
    BY <1>2, <1>3

\* The empty list is the one without elements.
LEMMA ToSetEmpty ==
    ASSUME NEW S, NEW s \in Seq(S)
    PROVE  ToSet(s) = {} <=> s = <<>>
  <1>1. DOMAIN s = 1..Len(s) /\ Len(s) \in Nat
    OBVIOUS
  <1>2. ASSUME s # <<>> PROVE s[1] \in ToSet(s)
    <2>1. 1 \in 1..Len(s)
      BY <1>1, <1>2, EmptySeq
    <2> QED
      BY <1>1, <2>1 DEF ToSet
  <1>3. ToSet(<<>>) = {}
    BY DEF ToSet
  <1> QED
    BY <1>2, <1>3

\* Root is no block, so no way leads back to it.
LEMMA NoWayBackFromRoot == ASSUME NEW K PROVE NoWayBack(K, Root)
  BY BlocksAssumption DEF NoWayBack, Root, Ids

\* In a tree no block is below itself.
LEMMA NoWayBackInTree ==
    ASSUME NEW K, GoodKids(K), NEW p \in Nodes
    PROVE  NoWayBack(K, p)
  <1> SUFFICES ASSUME NEW S \in SUBSET Ids, \A b \in S : \E q \in S \cup {p} : b \in ToSet(K[q]), p \in S
               PROVE  FALSE
    BY DEF NoWayBack
  <1>1. \A b \in S : \E q \in S : b \in ToSet(K[q])
    OBVIOUS
  <1> QED
    BY <1>1 DEF GoodKids, Rooted

\* A list of different blocks is no longer than there are ids: the rounds of
\* Below are enough.
LEMMA InjectiveIsShort ==
    ASSUME NEW c \in Seq(Ids), IsInjective(c)
    PROVE  Len(c) <= MaxBlocks
  <1> SUFFICES ASSUME Len(c) > MaxBlocks PROVE FALSE
    BY BlocksAssumption
  <1> DEFINE D == 1..Len(c)
  <1>0. Len(c) \in Nat /\ MaxBlocks \in Nat /\ DOMAIN c = D /\ 1 \in Int /\ MaxBlocks \in Int /\ Len(c) \in Int
    BY BlocksAssumption
  <1>1. IsFiniteSet(D) /\ Cardinality(D) = Len(c)
    BY <1>0, FS_Interval
  <1>2. IsFiniteSet(Ids) /\ Cardinality(Ids) = MaxBlocks
    BY <1>0, FS_Interval DEF Ids
  <1>3. c \in [D -> Ids]
    BY <1>0
  <1>4. Cardinality(Ids) < Cardinality(D)
    BY <1>0, <1>1, <1>2
  <1> HIDE DEF D
  <1>5. \E x, y \in D : x # y /\ c[x] = c[y]
    BY <1>1, <1>2, <1>3, <1>4, FS_PigeonHole
  <1> QED
    BY <1>0, <1>5 DEF IsInjective

\* The blocks under p.
LEMMA BelowSet ==
    ASSUME NEW K, Apart(K), NEW p \in Nodes, NoWayBack(K, p), NEW c, c = Below(K, p)
    PROVE  /\ c \in Seq(Ids) /\ IsInjective(c) /\ ToSet(c) \subseteq Ids
           /\ ToSet(K[p]) \subseteq ToSet(c)
           /\ \A x \in ToSet(c) : ToSet(K[x]) \subseteq ToSet(c)
           /\ \A x \in ToSet(c) : \E q \in ToSet(c) \cup {p} : x \in ToSet(K[q])
           /\ \A i \in 1..Len(c) : c[i] \in ToSet(K[p]) \/ \E j \in 1..Len(c) : j < i /\ c[i] \in ToSet(K[c[j]])
           /\ LeftsFirst(K, c)
  <1>1. Listing(K, p, MaxBlocks, c)
    BY BelowFacts
  <1>2. c \in Seq(Ids) /\ IsInjective(c) /\ DOMAIN c = 1..Len(c) /\ Len(c) \in Nat
    BY <1>1 DEF Listing
  <1>3. Len(c) <= MaxBlocks /\ MaxBlocks \in Nat
    BY <1>2, InjectiveIsShort, BlocksAssumption
  <1>4. \A i \in 1..Len(c) : ToSet(K[c[i]]) \subseteq ToSet(c)
    BY <1>1, <1>2, <1>3 DEF Listing
  <1>5. ASSUME NEW i \in 1..Len(c)
        PROVE  c[i] \in ToSet(K[p]) \/ \E j \in 1..Len(c) : j < i /\ c[i] \in ToSet(K[c[j]])
    <2>1. c[i] \in ToSet(K[p]) \/ \E j \in 1..MaxBlocks : j < i /\ c[i] \in ToSet(K[c[j]])
      BY <1>1 DEF Listing, ParentsFirst
    <2>2. \A j \in 1..MaxBlocks : j < i => j \in 1..Len(c)
      BY <1>2
    <2> QED
      BY <2>1, <2>2
  <1>6. ASSUME NEW x \in ToSet(c) PROVE ToSet(K[x]) \subseteq ToSet(c)
    <2>1. PICK i \in 1..Len(c) : x = c[i]
      BY <1>2 DEF ToSet
    <2> QED
      BY <1>4, <2>1
  <1>7. \A x \in ToSet(c) : \E q \in ToSet(c) \cup {p} : x \in ToSet(K[q])
    BY <1>2, <1>5 DEF ToSet
  <1>8. ToSet(c) \subseteq Ids
    BY <1>2 DEF ToSet
  <1>9. ToSet(K[p]) \subseteq ToSet(c) /\ LeftsFirst(K, c)
    BY <1>1 DEF Listing
  <1> QED
    BY <1>2, <1>5, <1>6, <1>7, <1>8, <1>9

\* From Root every block is reached.
LEMMA GoodIsReached ==
    ASSUME NEW K, GoodKids(K)
    PROVE  Placed(K) = ToSet(Below(K, Root))
  <1> DEFINE c == Below(K, Root)
             S == Placed(K) \ ToSet(c)
  <1>0. Apart(K) /\ K \in [Nodes -> Seq(Ids)] /\ Root \in Nodes /\ NoWayBack(K, Root)
    BY NoWayBackFromRoot DEF GoodKids, Apart, Nodes
  <1>1. /\ ToSet(c) \subseteq Ids /\ ToSet(K[Root]) \subseteq ToSet(c)
        /\ \A x \in ToSet(c) : ToSet(K[x]) \subseteq ToSet(c)
        /\ \A x \in ToSet(c) : \E q \in ToSet(c) \cup {Root} : x \in ToSet(K[q])
    <2>1. c = Below(K, Root)
      OBVIOUS
    <2> HIDE DEF c
    <2> QED
      BY <1>0, <2>1, BelowSet
  <1> HIDE DEF c
  <1>2. ToSet(c) \subseteq Placed(K)
    BY <1>0, <1>1, PlacedIn DEF Nodes
  <1>3. S \in SUBSET Ids
    BY <1>0, PlacedIn
  <1>4. ASSUME NEW b \in S PROVE \E q \in S : b \in ToSet(K[q])
    <2>1. PICK q \in Nodes : b \in ToSet(K[q])
      BY <1>0, PlacedIn
    <2>2. q # Root /\ q \notin ToSet(c)
      BY <1>1, <2>1
    <2>3. q \in Ids
      BY <2>2 DEF Nodes
    <2>4. K[q] # <<>>
      BY <2>1 DEF ToSet
    <2>5. q \in Placed(K)
      BY <2>3, <2>4 DEF GoodKids, Rooted
    <2> QED
      BY <2>1, <2>2, <2>5
  <1>5. S = {}
    BY <1>3, <1>4 DEF GoodKids, Rooted
  <1> QED
    BY <1>2, <1>5 DEF c

\* Without circles, and with nothing hanging outside, the lists are a tree
\* as the model defines it ...
LEMMA GoodIsTree == ASSUME NEW K, GoodKids(K) PROVE IsTree(K)
  BY GoodIsReached DEF GoodKids, Apart, Rooted, IsTree

\* ... and a tree has no circles: a block that is reached comes after its
\* parent.
LEMMA TreeIsGood ==
    ASSUME NEW K \in [Nodes -> Seq(Ids)], IsTree(K)
    PROVE  GoodKids(K)
  <1>1. Apart(K)
    BY DEF IsTree, Apart
  <1> DEFINE c == Below(K, Root)
  <1>2. /\ c \in Seq(Ids)
        /\ \A i \in 1..Len(c) : c[i] \in ToSet(K[Root]) \/ \E j \in 1..Len(c) : j < i /\ c[i] \in ToSet(K[c[j]])
    <2>1. Root \in Nodes
      BY DEF Nodes
    <2>2. c = Below(K, Root)
      OBVIOUS
    <2> HIDE DEF c
    <2> QED
      BY <1>1, <2>1, <2>2, NoWayBackFromRoot, BelowSet
  <1>3. Placed(K) = ToSet(c)
    BY DEF IsTree
  <1> HIDE DEF c
  <1>4. ASSUME NEW S \in SUBSET Ids, \A b \in S : \E q \in S : b \in ToSet(K[q]), S # {}
        PROVE  FALSE
    <2> DEFINE T == {i \in 1..Len(c) : c[i] \in S}
    <2>0. Len(c) \in Nat /\ DOMAIN c = 1..Len(c)
      BY <1>2
    <2>1. T \in SUBSET Nat
      OBVIOUS
    <2>2. T # {}
      <3>1. PICK b \in S : TRUE
        BY <1>4
      <3>2. b \in Placed(K)
        BY <1>4, <3>1, PlacedIn DEF Nodes
      <3> QED
        BY <3>1, <3>2, <1>3, <2>0 DEF ToSet
    <2>3. PICK i \in T : \A j \in T : i <= j
      BY <2>1, <2>2, LeastOf
    <2>4. i \in 1..Len(c) /\ c[i] \in S
      BY <2>3
    <2>5. PICK q \in S : c[i] \in ToSet(K[q])
      BY <1>4, <2>4
    <2>6. q \in Nodes /\ q # Root /\ Root \in Nodes
      BY <1>4, BlocksAssumption DEF Nodes, Root, Ids
    <2>7. c[i] \notin ToSet(K[Root])
      BY <1>1, <2>5, <2>6 DEF Apart
    <2>8. PICK j \in 1..Len(c) : j < i /\ c[i] \in ToSet(K[c[j]])
      BY <1>2, <2>4, <2>7
    <2>9. c[j] = q
      <3>1. c[j] \in Nodes
        BY <1>2 DEF Nodes
      <3> QED
        BY <1>1, <2>5, <2>6, <2>8, <3>1 DEF Apart
    <2>10. j \in T
      BY <2>8, <2>9, <2>5
    <2> QED
      BY <2>3, <2>4, <2>8, <2>10, <2>0
  <1> QED
    BY <1>1, <1>4 DEF GoodKids, Rooted, IsTree

\* A tree with blocks has one under Root.
LEMMA RootHasKids ==
    ASSUME NEW K, GoodKids(K), Placed(K) # {}
    PROVE  K[Root] # <<>>
  <1> SUFFICES ASSUME K[Root] = <<>> PROVE FALSE
    OBVIOUS
  <1>0. K \in [Nodes -> Seq(Ids)]
    BY DEF GoodKids, Apart
  <1>1. Placed(K) \in SUBSET Ids
    BY <1>0, PlacedIn
  <1>2. ASSUME NEW b \in Placed(K) PROVE \E q \in Placed(K) : b \in ToSet(K[q])
    <2>1. PICK q \in Nodes : b \in ToSet(K[q])
      BY <1>0, PlacedIn
    <2>2. K[q] # <<>>
      BY <2>1 DEF ToSet
    <2>3. q \in Ids
      BY <2>2 DEF Nodes
    <2> QED
      BY <2>1, <2>2, <2>3 DEF GoodKids, Rooted
  <1> QED
    BY <1>1, <1>2 DEF GoodKids, Rooted

-----------------------------------------------------------------------------
\* Two lists without a common element.
LEMMA ConcatSets ==
    ASSUME NEW a \in Seq(Ids), NEW r \in Seq(Ids), IsInjective(a), IsInjective(r),
           ToSet(a) \cap ToSet(r) = {}, NEW b, b = a \o r
    PROVE  b \in Seq(Ids) /\ IsInjective(b) /\ ToSet(b) = ToSet(a) \cup ToSet(r)
  <1>0. Len(a) \in Nat /\ Len(r) \in Nat /\ DOMAIN a = 1..Len(a) /\ DOMAIN r = 1..Len(r)
    OBVIOUS
  <1>1. b \in Seq(Ids) /\ IsConcat(b, a, r)
    BY ConcatFacts
  <1>2. /\ Len(b) = Len(a) + Len(r) /\ DOMAIN b = 1..(Len(a) + Len(r))
        /\ \A j \in 1..Len(a) : b[j] = a[j]
        /\ \A j \in 1..Len(r) : b[Len(a) + j] = r[j]
    BY <1>1 DEF IsConcat
  <1>3. ASSUME NEW k \in DOMAIN b
        PROVE  \/ k \in DOMAIN a /\ b[k] = a[k]
               \/ k - Len(a) \in DOMAIN r /\ b[k] = r[k - Len(a)]
    <2>1. CASE k <= Len(a)
      BY <1>0, <1>2, <2>1
    <2>2. CASE k > Len(a)
      <3>1. k - Len(a) \in 1..Len(r) /\ Len(a) + (k - Len(a)) = k
        BY <1>0, <1>2, <2>2
      <3> QED
        BY <1>0, <1>2, <3>1
    <2> QED
      BY <1>0, <1>2, <2>1, <2>2
  <1>4. \A j \in DOMAIN a : a[j] \in ToSet(a)
    BY DEF ToSet
  <1>5. \A j \in DOMAIN r : r[j] \in ToSet(r)
    BY DEF ToSet
  <1>6. IsInjective(b)
    <2> SUFFICES ASSUME NEW x \in DOMAIN b, NEW y \in DOMAIN b, b[x] = b[y] PROVE x = y
      BY DEF IsInjective
    <2>0. x \in Int /\ y \in Int
      BY <1>2
    <2>1. CASE x \in DOMAIN a /\ b[x] = a[x]
      <3>1. y \in DOMAIN a /\ b[y] = a[y]
        BY <1>3, <1>4, <1>5, <2>1
      <3> QED
        BY <2>1, <3>1 DEF IsInjective
    <2>2. CASE x - Len(a) \in DOMAIN r /\ b[x] = r[x - Len(a)]
      <3>1. y - Len(a) \in DOMAIN r /\ b[y] = r[y - Len(a)]
        BY <1>3, <1>4, <1>5, <2>2
      <3>2. x - Len(a) = y - Len(a)
        BY <2>2, <3>1 DEF IsInjective
      <3> QED
        BY <3>2, <2>0, <1>0
    <2> QED
      BY <1>3, <2>1, <2>2
  <1>7. ToSet(b) \subseteq ToSet(a) \cup ToSet(r)
    <2> SUFFICES ASSUME NEW k \in DOMAIN b PROVE b[k] \in ToSet(a) \cup ToSet(r)
      BY DEF ToSet
    <2> QED
      BY <1>3, <1>4, <1>5
  <1>8. ToSet(a) \subseteq ToSet(b)
    <2> SUFFICES ASSUME NEW j \in 1..Len(a) PROVE a[j] \in ToSet(b)
      BY <1>0 DEF ToSet
    <2>1. j \in DOMAIN b
      BY <1>0, <1>2
    <2> QED
      BY <1>2, <2>1 DEF ToSet
  <1>9. ToSet(r) \subseteq ToSet(b)
    <2> SUFFICES ASSUME NEW j \in 1..Len(r) PROVE r[j] \in ToSet(b)
      BY <1>0 DEF ToSet
    <2>1. Len(a) + j \in DOMAIN b
      BY <1>0, <1>2
    <2> QED
      BY <1>2, <2>1 DEF ToSet
  <1> QED
    BY <1>1, <1>6, <1>7, <1>8, <1>9

\* a is the stretch of m elements of s from the i-th on.
IsPart(a, s, i, m) == a \in Seq(Ids) /\ Len(a) = m /\ \A j \in 1..m : a[j] = s[i + j - 1]

\* The blocks of a are the ones of that stretch of s.
HoldsPart(a, s, i, m) ==
    /\ \A x \in ToSet(a) : \E j \in i..(i + m - 1) : x = s[j]
    /\ \A j \in 1..Len(s) : s[j] \in ToSet(a) <=> j \in i..(i + m - 1)

\* A stretch of a list without repetitions.
LEMMA PartOf ==
    ASSUME NEW s \in Seq(Ids), IsInjective(s), NEW i \in Nat \ {0}, NEW m \in Nat,
           i + m <= Len(s) + 1, NEW a, IsPart(a, s, i, m)
    PROVE  /\ a \in Seq(Ids) /\ IsInjective(a) /\ IsStretch(ToSet(a), s, i, m)
           /\ HoldsPart(a, s, i, m)
  <1>0. /\ Len(s) \in Nat /\ DOMAIN s = 1..Len(s) /\ a \in Seq(Ids) /\ DOMAIN a = 1..m
        /\ \A j \in 1..m : a[j] = s[i + j - 1]
    BY DEF IsPart
  <1>1. \A j \in 1..m : i + j - 1 \in i..(i + m - 1) /\ i + j - 1 \in DOMAIN s
    BY <1>0
  <1>2. \A j \in i..(i + m - 1) : j - i + 1 \in 1..m /\ i + (j - i + 1) - 1 = j
    BY <1>0
  <1>3. IsInjective(a)
    <2> SUFFICES ASSUME NEW x \in DOMAIN a, NEW y \in DOMAIN a, a[x] = a[y] PROVE x = y
      BY DEF IsInjective
    <2>1. i + x - 1 = i + y - 1
      BY <1>0, <1>1 DEF IsInjective
    <2> QED
      BY <2>1, <1>0
  <1>4. \A x \in ToSet(a) : \E j \in i..(i + m - 1) : x = s[j]
    BY <1>0, <1>1 DEF ToSet
  <1>5. ASSUME NEW j \in i..(i + m - 1) PROVE s[j] \in ToSet(a)
    <2>1. a[j - i + 1] = s[i + (j - i + 1) - 1]
      BY <1>0, <1>2
    <2>2. a[j - i + 1] = s[j]
      BY <1>2, <2>1
    <2> QED
      BY <1>0, <1>2, <2>2 DEF ToSet
  <1>6. IsStretch(ToSet(a), s, i, m)
    BY <1>4, <1>5 DEF IsStretch
  <1>7. ASSUME NEW j \in 1..Len(s), s[j] \in ToSet(a) PROVE j \in i..(i + m - 1)
    <2>1. PICK k \in i..(i + m - 1) : s[j] = s[k]
      BY <1>4, <1>7
    <2>2. k \in DOMAIN s /\ j \in DOMAIN s
      BY <1>0
    <2>3. j = k
      BY <2>1, <2>2 DEF IsInjective
    <2> QED
      BY <2>3
  <1> QED
    BY <1>0, <1>3, <1>4, <1>5, <1>6, <1>7 DEF HoldsPart

\* SubSeq takes a stretch.
LEMMA SubSeqPart ==
    ASSUME NEW s \in Seq(Ids), NEW i \in Nat \ {0}, NEW m \in Nat, i + m <= Len(s) + 1,
           NEW j, j = i + m - 1, NEW a, a = SubSeq(s, i, j)
    PROVE  IsPart(a, s, i, m)
  <1>0. Len(s) \in Nat
    OBVIOUS
  <1>1. a \in Seq(Ids)
    BY <1>0
  <1>2. Len(a) = m
    BY <1>0
  <1>3. \A k \in 1..m : a[k] = s[i + k - 1]
    BY <1>0
  <1> QED
    BY <1>1, <1>2, <1>3 DEF IsPart

-----------------------------------------------------------------------------
\* x comes before y in the list s.
Ahead(s, x, y) == \E i, j \in 1..Len(s) : i < j /\ s[i] = x /\ s[j] = y

\* What is in both lists is in the same order.
KeptList(q, t) == \A x, y \in ToSet(q) : Ahead(t, x, y) => Ahead(q, x, y)

\* The order is an order of the elements.
LEMMA AheadIn ==
    ASSUME NEW s \in Seq(Ids), NEW x, NEW y, Ahead(s, x, y)
    PROVE  x \in ToSet(s) /\ y \in ToSet(s)
  BY DEF Ahead, ToSet

\* ... that is total,
LEMMA AheadTotal ==
    ASSUME NEW s \in Seq(Ids), NEW x \in ToSet(s), NEW y \in ToSet(s), x # y
    PROVE  Ahead(s, x, y) \/ Ahead(s, y, x)
  <1>1. PICK i \in 1..Len(s), j \in 1..Len(s) : s[i] = x /\ s[j] = y
    BY DEF ToSet
  <1>2. i < j \/ j < i
    BY <1>1
  <1> QED
    BY <1>1, <1>2 DEF Ahead

\* and strict when nothing is listed twice.
LEMMA AheadOnce ==
    ASSUME NEW s \in Seq(Ids), IsInjective(s), NEW x, NEW y, Ahead(s, x, y)
    PROVE  x # y /\ ~Ahead(s, y, x)
  <1>1. PICK i \in 1..Len(s), j \in 1..Len(s) : i < j /\ s[i] = x /\ s[j] = y
    BY DEF Ahead
  <1>2. \A a, c \in 1..Len(s) : s[a] = s[c] => a = c
    BY DEF IsInjective
  <1>3. x # y
    BY <1>1, <1>2
  <1>4. ASSUME NEW a \in 1..Len(s), NEW c \in 1..Len(s), s[a] = y, s[c] = x PROVE ~(a < c)
    BY <1>1, <1>2, <1>4
  <1> QED
    BY <1>3, <1>4 DEF Ahead

\* It is transitive.
LEMMA AheadTrans ==
    ASSUME NEW s \in Seq(Ids), IsInjective(s), NEW x, NEW y, NEW z, Ahead(s, x, y), Ahead(s, y, z)
    PROVE  Ahead(s, x, z)
  <1>1. PICK i \in 1..Len(s), j \in 1..Len(s) : i < j /\ s[i] = x /\ s[j] = y
    BY DEF Ahead
  <1>2. PICK a \in 1..Len(s), c \in 1..Len(s) : a < c /\ s[a] = y /\ s[c] = z
    BY DEF Ahead
  <1>3. a = j
    BY <1>1, <1>2 DEF IsInjective
  <1>4. i < c
    BY <1>1, <1>2, <1>3
  <1> QED
    BY <1>1, <1>2, <1>4 DEF Ahead

\* Functions with the same values are the same.
LEMMA SameFunction ==
    ASSUME NEW D, NEW S, NEW f \in [D -> S], NEW g \in [D -> S], \A k \in D : f[k] = g[k]
    PROVE  f = g
  OBVIOUS

\* Lists of the same blocks in the same order agree up to any place ...
LEMMA SamePrefix ==
    ASSUME NEW s \in Seq(Ids), NEW t \in Seq(Ids), IsInjective(s), IsInjective(t), ToSet(s) = ToSet(t),
           \A x, y : Ahead(s, x, y) => Ahead(t, x, y), NEW k \in 1..Len(s),
           \A j \in 1..Len(s) : j < k => j \in 1..Len(t) /\ t[j] = s[j]
    PROVE  k \in 1..Len(t) /\ t[k] = s[k]
  <1>0. Len(s) \in Nat /\ Len(t) \in Nat /\ DOMAIN s = 1..Len(s) /\ DOMAIN t = 1..Len(t)
    OBVIOUS
  <1>1. \A a, c \in 1..Len(s) : s[a] = s[c] => a = c
    BY <1>0 DEF IsInjective
  <1>2. \A a, c \in 1..Len(t) : t[a] = t[c] => a = c
    BY <1>0 DEF IsInjective
  <1>3. PICK m \in 1..Len(t) : t[m] = s[k]
    BY <1>0 DEF ToSet
  <1>4. m >= k
    <2> SUFFICES ASSUME m < k PROVE FALSE
      BY <1>0, <1>3
    <2>1. m \in 1..Len(s)
      BY <1>0, <1>3
    <2>2. t[m] = s[m]
      BY <2>1
    <2>3. m = k
      BY <1>1, <1>3, <2>1, <2>2
    <2> QED
      BY <2>3, <1>0
  <1>5. k \in 1..Len(t)
    BY <1>0, <1>3, <1>4
  <1>6. CASE m = k
    BY <1>3, <1>5, <1>6
  <1>7. CASE m > k
    <2>1. PICK a \in 1..Len(s) : s[a] = t[k]
      BY <1>0, <1>5 DEF ToSet
    <2>2. a # k
      BY <1>2, <1>3, <1>5, <1>7, <2>1
    <2>3. ~(a < k)
      <3> SUFFICES ASSUME a < k PROVE FALSE
        OBVIOUS
      <3>1. a \in 1..Len(t) /\ t[a] = t[k]
        BY <2>1
      <3> QED
        BY <1>2, <1>5, <2>2, <3>1
    <2>4. k < a
      BY <1>0, <2>1, <2>2, <2>3
    <2>5. Ahead(s, s[k], t[k])
      BY <2>1, <2>4 DEF Ahead
    <2>6. Ahead(t, s[k], t[k])
      BY <2>5
    <2>7. Ahead(t, t[k], s[k])
      BY <1>3, <1>5, <1>7 DEF Ahead
    <2> QED
      BY <2>6, <2>7, AheadOnce
  <1> QED
    BY <1>0, <1>3, <1>4, <1>6, <1>7

\* ... and are the same list.
LEMMA SameOrder ==
    ASSUME NEW s \in Seq(Ids), NEW t \in Seq(Ids), IsInjective(s), IsInjective(t), ToSet(s) = ToSet(t),
           \A x, y : Ahead(s, x, y) => Ahead(t, x, y)
    PROVE  s = t
  <1> DEFINE n == Len(s)
             B == {k \in 1..n : ~(k \in 1..Len(t) /\ t[k] = s[k])}
  <1>0. n \in Nat /\ Len(t) \in Nat /\ DOMAIN s = 1..n /\ DOMAIN t = 1..Len(t)
    OBVIOUS
  <1>1. B = {}
    <2> SUFFICES ASSUME B # {} PROVE FALSE
      OBVIOUS
    <2>1. PICK k \in B : \A y \in B : k <= y
      <3>1. B \in SUBSET Nat
        OBVIOUS
      <3> HIDE DEF B
      <3> QED
        BY <3>1, LeastOf
    <2>2. k \in 1..Len(s) /\ \A j \in 1..Len(s) : j < k => j \notin B
      BY <2>1, <1>0
    <2>3. \A j \in 1..Len(s) : j < k => j \in 1..Len(t) /\ t[j] = s[j]
      BY <2>2
    <2>4. k \in 1..Len(t) /\ t[k] = s[k]
      BY <2>2, <2>3, SamePrefix
    <2> QED
      BY <2>1, <2>4
  <1>2. \A k \in 1..n : k \in 1..Len(t) /\ t[k] = s[k]
    BY <1>1
  <1>3. Len(t) <= n
    <2> SUFFICES ASSUME Len(t) > n PROVE FALSE
      BY <1>0
    <2>1. n + 1 \in 1..Len(t)
      BY <1>0
    <2>2. PICK a \in 1..n : s[a] = t[n + 1]
      BY <1>0, <2>1 DEF ToSet
    <2>3. t[a] = t[n + 1] /\ a \in 1..Len(t)
      BY <1>2, <2>2
    <2>4. a = n + 1
      BY <1>0, <2>1, <2>3 DEF IsInjective
    <2> QED
      BY <1>0, <2>2, <2>4
  <1>4. Len(t) = n
    <2>1. n > 0 => n \in 1..n
      BY <1>0
    <2>2. n > 0 => n <= Len(t)
      BY <1>0, <1>2, <2>1
    <2>3. \A u, v \in Nat : v <= u /\ (u > 0 => u <= v) => v = u
      OBVIOUS
    <2> QED
      BY <1>0, <1>3, <2>2, <2>3
  <1>5. \A k \in 1..n : s[k] = t[k]
    BY <1>2
  <1>6. s \in [1..n -> Ids] /\ t \in [1..n -> Ids]
    BY <1>0, <1>4
  <1> QED
    BY <1>5, <1>6, SameFunction

\* A place taken by other elements leaves the order of the rest.
LEMMA ReplacedOrder ==
    ASSUME NEW t \in Seq(Ids), IsInjective(t), NEW r \in Seq(Ids), NEW i \in 1..Len(t), NEW q \in Seq(Ids),
           IsReplaced(q, i, r, 1, t), ToSet(r) \cap (ToSet(t) \ {t[i]}) = {}
    PROVE  KeptList(q, t)
  <1> SUFFICES ASSUME NEW x \in ToSet(q), NEW y \in ToSet(q), Ahead(t, x, y) PROVE Ahead(q, x, y)
    BY DEF KeptList
  <1>0. Len(t) \in Nat /\ Len(r) \in Nat /\ Len(q) \in Nat /\ Len(q) = Len(t) - 1 + Len(r)
    BY DEF IsReplaced
  <1>1. /\ \A j \in 1..(i - 1) : q[j] = t[j]
        /\ \A j \in 1..Len(r) : q[i - 1 + j] = r[j]
        /\ \A j \in (i + 1)..Len(t) : q[j - 1 + Len(r)] = t[j]
    BY DEF IsReplaced
  <1>2. PICK a \in 1..Len(t), c \in 1..Len(t) : a < c /\ t[a] = x /\ t[c] = y
    BY DEF Ahead
  <1>3. \A j, k \in 1..Len(t) : t[j] = t[k] => j = k
    BY DEF IsInjective
  \* The element itself is among those that take its place.
  <1>4. ASSUME NEW z \in ToSet(q), z = t[i] PROVE \E j \in 1..Len(r) : r[j] = z
    <2>1. PICK k \in 1..Len(q) : q[k] = z
      BY DEF ToSet
    <2>2. CASE k < i
      <3>1. k \in 1..(i - 1) /\ k \in 1..Len(t)
        BY <2>2, <2>1, <1>0
      <3> QED
        BY <3>1, <2>1, <2>2, <1>1, <1>3, <1>4
    <2>3. CASE k >= i /\ k < i + Len(r)
      <3>1. k - i + 1 \in 1..Len(r) /\ i - 1 + (k - i + 1) = k
        BY <2>3, <2>1, <1>0
      <3> QED
        BY <3>1, <2>1, <1>1
    <2>4. CASE k >= i + Len(r)
      <3> DEFINE j == k + 1 - Len(r)
      <3>1. j \in (i + 1)..Len(t) /\ j - 1 + Len(r) = k /\ j \in 1..Len(t) /\ j # i
        BY ONLY i \in 1..Len(t), <2>4, <2>1, <1>0
      <3> HIDE DEF j
      <3>2. q[k] = t[j]
        BY <3>1, <1>1
      <3> QED
        BY <3>1, <3>2, <2>1, <1>3, <1>4
    <2> QED
      BY <2>1, <2>2, <2>3, <2>4, <1>0
  <1>5. CASE a # i /\ c # i
    <2>1. CASE c < i
      <3>1. a \in 1..(i - 1) /\ c \in 1..(i - 1) /\ a \in 1..Len(q) /\ c \in 1..Len(q)
        BY <2>1, <1>0, <1>2
      <3> QED
        BY <3>1, <1>1, <1>2 DEF Ahead
    <2>2. CASE a < i /\ c > i
      <3>1. a \in 1..(i - 1) /\ c \in (i + 1)..Len(t) /\ a \in 1..Len(q) /\ c - 1 + Len(r) \in 1..Len(q) /\ a < c - 1 + Len(r)
        BY <2>2, <1>0, <1>2
      <3> QED
        BY <3>1, <1>1, <1>2 DEF Ahead
    <2>3. CASE a > i
      <3>1. /\ a \in (i + 1)..Len(t) /\ c \in (i + 1)..Len(t) /\ a - 1 + Len(r) \in 1..Len(q) /\ c - 1 + Len(r) \in 1..Len(q)
            /\ a - 1 + Len(r) < c - 1 + Len(r)
        BY <2>3, <1>0, <1>2
      <3> QED
        BY <3>1, <1>1, <1>2 DEF Ahead
    <2> QED
      BY <1>0, <1>2, <1>5, <2>1, <2>2, <2>3
  <1>6. CASE a = i
    <2>1. PICK j \in 1..Len(r) : r[j] = x
      BY <1>2, <1>4, <1>6
    <2>2. /\ c \in (i + 1)..Len(t) /\ i - 1 + j \in 1..Len(q) /\ c - 1 + Len(r) \in 1..Len(q)
          /\ i - 1 + j < c - 1 + Len(r)
      BY <1>0, <1>2, <1>6, <2>1
    <2> QED
      BY <2>1, <2>2, <1>1, <1>2 DEF Ahead
  <1>7. CASE c = i
    <2>1. PICK j \in 1..Len(r) : r[j] = y
      BY <1>2, <1>4, <1>7
    <2>2. a \in 1..(i - 1) /\ i - 1 + j \in 1..Len(q) /\ a \in 1..Len(q) /\ a < i - 1 + j
      BY <1>0, <1>2, <1>7, <2>1
    <2> QED
      BY <2>1, <2>2, <1>1, <1>2 DEF Ahead
  <1> QED
    BY <1>5, <1>6, <1>7

\* A list behind another keeps its order, and so does the other.
LEMMA ConcatOrder ==
    ASSUME NEW a \in Seq(Ids), NEW r \in Seq(Ids), NEW b, b \in Seq(Ids), IsConcat(b, a, r)
    PROVE  /\ \A x, y : Ahead(a, x, y) \/ Ahead(r, x, y) => Ahead(b, x, y)
           /\ \A x \in ToSet(a), y \in ToSet(r) : Ahead(b, x, y)
  <1>0. Len(a) \in Nat /\ Len(r) \in Nat /\ Len(b) = Len(a) + Len(r)
        /\ (\A j \in 1..Len(a) : b[j] = a[j]) /\ (\A j \in 1..Len(r) : b[Len(a) + j] = r[j])
    BY DEF IsConcat
  <1>1. ASSUME NEW x, NEW y, Ahead(a, x, y) PROVE Ahead(b, x, y)
    <2>1. PICK i \in 1..Len(a), j \in 1..Len(a) : i < j /\ a[i] = x /\ a[j] = y
      BY <1>1 DEF Ahead
    <2>2. i \in 1..Len(b) /\ j \in 1..Len(b)
      BY <1>0
    <2> QED
      BY <1>0, <2>1, <2>2 DEF Ahead
  <1>2. ASSUME NEW x, NEW y, Ahead(r, x, y) PROVE Ahead(b, x, y)
    <2>1. PICK i \in 1..Len(r), j \in 1..Len(r) : i < j /\ r[i] = x /\ r[j] = y
      BY <1>2 DEF Ahead
    <2>2. Len(a) + i \in 1..Len(b) /\ Len(a) + j \in 1..Len(b) /\ Len(a) + i < Len(a) + j
      BY ONLY <1>0, <2>1
    <2> QED
      BY <1>0, <2>1, <2>2 DEF Ahead
  <1>3. ASSUME NEW x \in ToSet(a), NEW y \in ToSet(r) PROVE Ahead(b, x, y)
    <2>1. PICK i \in 1..Len(a), j \in 1..Len(r) : a[i] = x /\ r[j] = y
      BY DEF ToSet
    <2>2. i \in 1..Len(b) /\ Len(a) + j \in 1..Len(b) /\ i < Len(a) + j
      BY <1>0
    <2> QED
      BY <1>0, <2>1, <2>2 DEF Ahead
  <1> QED
    BY <1>1, <1>2, <1>3

\* A stretch of a list keeps its order.
LEMMA PartOrder ==
    ASSUME NEW s \in Seq(Ids), IsInjective(s), NEW i \in Nat \ {0}, NEW m \in Nat,
           i + m <= Len(s) + 1, NEW a, IsPart(a, s, i, m)
    PROVE  KeptList(a, s)
  <1> SUFFICES ASSUME NEW x \in ToSet(a), NEW y \in ToSet(a), Ahead(s, x, y) PROVE Ahead(a, x, y)
    BY DEF KeptList
  <1>0. a \in Seq(Ids) /\ Len(a) = m /\ (\A j \in 1..m : a[j] = s[i + j - 1]) /\ Len(s) \in Nat
    BY DEF IsPart
  <1>1. PICK b \in 1..m, c \in 1..m : a[b] = x /\ a[c] = y
    BY <1>0 DEF ToSet
  <1>2. PICK j \in 1..Len(s), k \in 1..Len(s) : j < k /\ s[j] = x /\ s[k] = y
    BY DEF Ahead
  <1>3. i + b - 1 \in 1..Len(s) /\ i + c - 1 \in 1..Len(s)
    BY ONLY i \in Nat \ {0}, m \in Nat, i + m <= Len(s) + 1, <1>0, <1>1
  <1>4. j = i + b - 1 /\ k = i + c - 1
    <2>1. \A u, v \in 1..Len(s) : s[u] = s[v] => u = v
      BY DEF IsInjective
    <2>2. s[j] = s[i + b - 1] /\ s[k] = s[i + c - 1]
      BY <1>0, <1>1, <1>2
    <2> QED
      BY <1>2, <1>3, <2>1, <2>2
  <1>5. b < c
    BY ONLY i \in Nat \ {0}, <1>1, <1>2, <1>4
  <1> QED
    BY <1>0, <1>1, <1>5 DEF Ahead

\* Where elements stand says which is ahead.
LEMMA AheadAt ==
    ASSUME NEW s \in Seq(Ids), IsInjective(s), NEW i \in 1..Len(s), NEW j \in 1..Len(s)
    PROVE  Ahead(s, s[i], s[j]) <=> i < j
  <1>1. \A a, c \in 1..Len(s) : s[a] = s[c] => a = c
    BY DEF IsInjective
  <1> QED
    BY <1>1 DEF Ahead

\* A list keeps its own order ...
LEMMA KeptSelf == ASSUME NEW s PROVE KeptList(s, s)
  BY DEF KeptList

\* ... and so does the empty list.
LEMMA KeptEmpty == ASSUME NEW s PROVE KeptList(<<>>, s)
  BY DEF KeptList, ToSet

\* A list and what is put in front of it or behind it.
LEMMA KeptConcat ==
    ASSUME NEW a \in Seq(Ids), NEW r \in Seq(Ids), NEW b, b = a \o r
    PROVE  KeptList(b, a) /\ KeptList(b, r)
  <1>1. b \in Seq(Ids) /\ IsConcat(b, a, r)
    BY ConcatFacts
  <1> QED
    BY <1>1, ConcatOrder DEF KeptList

\* What keeps the order of a list that kept the order of another.
LEMMA KeptTwice ==
    ASSUME NEW a \in Seq(Ids), NEW b, NEW c, KeptList(b, a), KeptList(c, b),
           \A x \in ToSet(c) : x \in ToSet(a) => x \in ToSet(b)
    PROVE  KeptList(c, a)
  <1> SUFFICES ASSUME NEW x \in ToSet(c), NEW y \in ToSet(c), Ahead(a, x, y) PROVE Ahead(c, x, y)
    BY DEF KeptList
  <1>1. x \in ToSet(b) /\ y \in ToSet(b)
    BY AheadIn
  <1> QED
    BY <1>1 DEF KeptList

-----------------------------------------------------------------------------
\* Root is a node and no block.
LEMMA RootIsNoBlock == Root \notin Ids /\ Root \in Nodes /\ Ids \subseteq Nodes
  BY BlocksAssumption DEF Root, Ids, Nodes

\* The place of b: the i-th under p.
IsPlace(K, b, p, i) ==
    p \in Nodes /\ i \in 1..Len(K[p]) /\ K[p][i] = b /\ b \in ToSet(K[p])

\* A block has one place: what Parent and Index return.
LEMMA PlaceOf ==
    ASSUME NEW K, Apart(K), NEW b \in Placed(K)
    PROVE  /\ IsPlace(K, b, Parent(K, b), Index(K, b))
           /\ \A q \in Nodes : b \in ToSet(K[q]) => q = Parent(K, b)
           /\ \A j \in DOMAIN K[Parent(K, b)] : K[Parent(K, b)][j] = b => j = Index(K, b)
           /\ b \in Ids
  <1> DEFINE p == Parent(K, b)
             s == K[p]
             i == Index(K, b)
  <1>0. DOMAIN K = Nodes /\ K \in [Nodes -> Seq(Ids)] /\ \E q \in Nodes : b \in ToSet(K[q])
    BY PlacedIn DEF Apart
  <1>1. p \in Nodes /\ b \in ToSet(K[p])
    BY <1>0 DEF Parent
  <1>2. \A q \in Nodes : b \in ToSet(K[q]) => q = p
    BY <1>1 DEF Apart
  <1>3. s \in Seq(Ids) /\ DOMAIN s = 1..Len(s) /\ \E j \in DOMAIN s : s[j] = b
    BY <1>0, <1>1 DEF ToSet
  <1>4. i = CHOOSE j \in DOMAIN s : s[j] = b
    BY DEF Index
  <1> HIDE DEF i, s, p
  <1>5. i \in DOMAIN s /\ s[i] = b
    BY <1>3, <1>4
  <1>6. \A j \in DOMAIN s : s[j] = b => j = i
    BY <1>5, <1>1 DEF Apart, IsInjective, s
  <1>7. b \in Ids
    BY <1>3, <1>5
  <1>8. IsPlace(K, b, p, i)
    BY <1>1, <1>3, <1>5 DEF IsPlace, s
  <1> QED
    BY <1>2, <1>6, <1>7, <1>8 DEF s, p, i

\* What Left returns: Root for a first child, else another child of the same
\* parent.
LEMMA LeftOf ==
    ASSUME NEW K, Apart(K), NEW b \in Placed(K)
    PROVE  \/ Left(K, b) = Root /\ Index(K, b) = 1
           \/ /\ Left(K, b) \in ToSet(K[Parent(K, b)]) /\ Left(K, b) # b
              /\ Index(K, b) \in 2..Len(K[Parent(K, b)])
              /\ Left(K, b) = K[Parent(K, b)][Index(K, b) - 1]
  <1> DEFINE p == Parent(K, b)
             i == Index(K, b)
  <1>1. IsPlace(K, b, p, i) /\ \A j \in DOMAIN K[p] : K[p][j] = b => j = i
    BY PlaceOf
  <1>2. Left(K, b) = IF i = 1 THEN Root ELSE K[p][i - 1]
    BY DEF Left
  <1> HIDE DEF p, i
  <1>3. p \in Nodes /\ K[p] \in Seq(Ids) /\ DOMAIN K[p] = 1..Len(K[p]) /\ Len(K[p]) \in Nat /\ i \in 1..Len(K[p])
    BY <1>1 DEF IsPlace, Apart
  <1>4. CASE i # 1
    <2>1. i \in 2..Len(K[p]) /\ i - 1 \in DOMAIN K[p] /\ i - 1 # i
      BY <1>3, <1>4
    <2> QED
      BY <1>1, <1>2, <1>4, <2>1 DEF ToSet, p, i
  <1>5. CASE i = 1
    BY <1>2, <1>5 DEF i
  <1> QED
    BY <1>4, <1>5

\* The left sibling says which siblings a block is ahead of.
LEMMA LeftDecides ==
    ASSUME NEW K, Apart(K), NEW b \in Placed(K), NEW p, p = Parent(K, b), NEW l, l = Left(K, b),
           NEW y \in ToSet(K[p]), y # b
    PROVE  Ahead(K[p], b, y) <=> (l = Root \/ Ahead(K[p], l, y))
  <1> DEFINE i == Index(K, b)
             t == K[p]
  <1>1. p \in Nodes /\ t \in Seq(Ids) /\ IsInjective(t) /\ Len(t) \in Nat /\ DOMAIN t = 1..Len(t) /\ Root \notin Ids
    BY PlaceOf, RootIsNoBlock DEF IsPlace, Apart
  <1>2. i \in 1..Len(t) /\ t[i] = b
    BY PlaceOf DEF IsPlace
  <1>3. PICK j \in 1..Len(t) : t[j] = y
    BY <1>1 DEF ToSet
  <1>4. \/ l = Root /\ i = 1
        \/ l \in ToSet(t) /\ i \in 2..Len(t) /\ l = t[i - 1]
    BY LeftOf
  <1> HIDE DEF i, t
  <1>5. Ahead(t, b, y) <=> i < j
    BY <1>1, <1>2, <1>3, AheadAt
  <1>6. i # j
    BY <1>2, <1>3
  <1>7. CASE l = Root /\ i = 1
    BY <1>1, <1>2, <1>3, <1>5, <1>6, <1>7 DEF t
  <1>8. CASE l \in ToSet(t) /\ i \in 2..Len(t) /\ l = t[i - 1]
    <2>1. i - 1 \in 1..Len(t)
      BY <1>1, <1>8
    <2>2. Ahead(t, t[i - 1], t[j]) <=> i - 1 < j
      BY <1>1, <1>3, <2>1, AheadAt
    <2>3. l # Root
      BY <1>1, <1>8 DEF ToSet
    <2>4. i - 1 < j <=> i < j
      BY <1>1, <1>2, <1>3, <1>6
    <2> QED
      BY <1>3, <1>5, <1>8, <2>2, <2>3, <2>4 DEF t
  <1> QED
    BY <1>4, <1>7, <1>8

\* The blocks P of K have their parents in J.
InTheirPlace(J, K, P) == \A x \in P : x \in ToSet(J[Parent(K, x)])

\* ... and are in the order of K.
Orderly(J, K, W) ==
    /\ InTheirPlace(J, K, W)
    /\ \A r \in Nodes : \A x, y \in W : Ahead(K[r], x, y) => Ahead(J[r], x, y)

\* The blocks with the same parent and the same left sibling.
Unmoved(J, K) == {x \in Placed(J) \cap Placed(K) : Parent(J, x) = Parent(K, x) /\ Left(J, x) = Left(K, x)}

\* Every list keeps its order, of all blocks ...
Kept(E, K) == \A r \in Nodes : KeptList(E[r], K[r])

\* ... or of all but one.
KeptBut(E, K, b) ==
    \A r \in Nodes : \A x, y \in ToSet(E[r]) \ {b} : Ahead(K[r], x, y) => Ahead(E[r], x, y)

\* A block with its parent and its left sibling is in order when the left
\* sibling is.
LEMMA OrderlyWith ==
    ASSUME NEW J, Apart(J), NEW K, Apart(K), NEW W \in SUBSET Placed(K), Orderly(J, K, W), NEW b \in Unmoved(J, K),
           NEW l, l = Left(K, b), l = Root \/ l \in W
    PROVE  Orderly(J, K, W \cup {b})
  <1> DEFINE p == Parent(K, b)
  <1>0. /\ K \in [Nodes -> Seq(Ids)] /\ J \in [Nodes -> Seq(Ids)]
        /\ b \in Placed(K) /\ b \in Placed(J) /\ Parent(J, b) = p /\ Left(J, b) = l
    BY DEF Unmoved, Apart
  <1>1. p \in Nodes /\ b \in ToSet(K[p]) /\ b \in ToSet(J[p])
    BY <1>0, PlaceOf DEF IsPlace
  <1>a. \A y \in ToSet(K[p]) : y # b => (Ahead(K[p], b, y) <=> (l = Root \/ Ahead(K[p], l, y)))
    BY <1>0, LeftDecides
  <1>b. \A y \in ToSet(J[p]) : y # b => (Ahead(J[p], b, y) <=> (l = Root \/ Ahead(J[p], l, y)))
    BY <1>0, LeftDecides
  <1>2. InTheirPlace(J, K, W \cup {b})
    BY <1>1 DEF Orderly, InTheirPlace
  <1>3. ASSUME NEW r \in Nodes, NEW x \in W, NEW y \in W, Ahead(K[r], x, y) PROVE Ahead(J[r], x, y)
    BY <1>3 DEF Orderly
  <1>4. ASSUME NEW r \in Nodes, b \in ToSet(K[r]) PROVE r = p
    BY <1>0, <1>4, PlaceOf
  <1>5. ASSUME NEW r \in Nodes, Ahead(K[r], b, b) PROVE FALSE
    BY <1>0, <1>5, AheadOnce DEF Apart
  <1>6. ASSUME NEW x \in W, x \in ToSet(K[p]) PROVE x \in ToSet(J[p])
    <2>1. Parent(K, x) = p
      BY <1>1, <1>6, PlaceOf
    <2> QED
      BY <2>1 DEF Orderly, InTheirPlace
  <1>7. K[p] \in Seq(Ids) /\ J[p] \in Seq(Ids) /\ IsInjective(K[p]) /\ IsInjective(J[p])
    BY <1>1 DEF Apart
  <1> HIDE DEF p
  \* The left sibling is as far ahead as in K.
  <1>8. ASSUME l # Root, NEW x \in W, x \in ToSet(K[p]) PROVE Ahead(J[p], l, x) <=> Ahead(K[p], l, x)
    <2>1. Ahead(K[p], l, x) => Ahead(J[p], l, x)
      BY <1>1, <1>3, <1>8
    <2>2. ASSUME Ahead(J[p], l, x) PROVE Ahead(K[p], l, x)
      <3>1. l # x /\ ~Ahead(J[p], x, l)
        BY <1>7, <2>2, AheadOnce
      <3>2. ~Ahead(K[p], x, l)
        BY <1>1, <1>3, <1>8, <3>1
      <3>3. l \in ToSet(K[p])
        BY <1>0, <1>8, LeftOf DEF p
      <3> QED
        BY <1>7, <1>8, <3>1, <3>2, <3>3, AheadTotal
    <2> QED
      BY <2>1, <2>2
  <1>9. ASSUME NEW x \in W, x # b, Ahead(K[p], b, x) PROVE Ahead(J[p], b, x)
    <2>1. x \in ToSet(K[p])
      BY <1>7, <1>9, AheadIn
    <2> QED
      BY <1>6, <1>8, <1>9, <1>a, <1>b, <2>1
  <1>10. ASSUME NEW x \in W, x # b, Ahead(K[p], x, b) PROVE Ahead(J[p], x, b)
    <2>1. x \in ToSet(K[p]) /\ ~Ahead(K[p], b, x)
      BY <1>7, <1>10, AheadIn, AheadOnce
    <2>2. ~Ahead(J[p], b, x) /\ x \in ToSet(J[p])
      BY <1>6, <1>8, <1>10, <1>a, <1>b, <2>1
    <2> QED
      BY <1>1, <1>7, <1>10, <2>2, AheadTotal
  <1>11. ASSUME NEW r \in Nodes, NEW x \in W \cup {b}, NEW y \in W \cup {b}, Ahead(K[r], x, y) PROVE Ahead(J[r], x, y)
    <2>1. K[r] \in Seq(Ids)
      BY <1>0
    <2>2. x \in ToSet(K[r]) /\ y \in ToSet(K[r])
      BY <1>11, <2>1, AheadIn
    <2>3. CASE x # b /\ y # b
      BY <1>3, <1>11, <2>3
    <2>4. CASE x = b /\ y # b
      BY <1>4, <1>9, <1>11, <2>2, <2>4
    <2>5. CASE x # b /\ y = b
      BY <1>4, <1>10, <1>11, <2>2, <2>5
    <2>6. CASE x = b /\ y = b
      BY <1>5, <1>11, <2>6
    <2> QED
      BY <2>3, <2>4, <2>5, <2>6
  <1> QED
    BY <1>2, <1>11 DEF Orderly

\* When the lists keep the order of all blocks but one, the blocks that stay
\* where they are are in order.
LEMMA KeptIsOrderly ==
    ASSUME NEW K, Apart(K), NEW E, Apart(E), NEW b, KeptBut(E, K, b)
    PROVE  Orderly(K, E, Unmoved(K, E))
  <1> DEFINE V == {x \in Placed(K) \cap Placed(E) : Parent(K, x) = Parent(E, x) /\ x # b}
             U == Unmoved(K, E)
  <1>0. K \in [Nodes -> Seq(Ids)] /\ E \in [Nodes -> Seq(Ids)]
    BY DEF Apart
  <1>1. \A x \in V : Parent(E, x) \in Nodes /\ x \in ToSet(K[Parent(E, x)])
    BY PlaceOf DEF IsPlace
  <1>2. ASSUME NEW r \in Nodes, NEW x \in V, NEW y \in V, Ahead(E[r], x, y) PROVE Ahead(K[r], x, y)
    <2>0. E[r] \in Seq(Ids) /\ K[r] \in Seq(Ids) /\ IsInjective(E[r])
      BY DEF Apart
    <2>1. x \in ToSet(E[r]) /\ y \in ToSet(E[r]) /\ x # y /\ ~Ahead(E[r], y, x)
      BY <1>2, <2>0, AheadIn, AheadOnce
    <2>2. Parent(E, x) = r /\ Parent(E, y) = r
      BY <2>1, PlaceOf
    <2>3. x \in ToSet(K[r]) /\ y \in ToSet(K[r])
      BY <1>1, <2>2
    <2>4. ~Ahead(K[r], y, x)
      BY <2>1 DEF KeptBut
    <2> QED
      BY <2>0, <2>1, <2>3, <2>4, AheadTotal
  <1>3. Orderly(K, E, V)
    BY <1>1, <1>2 DEF Orderly, InTheirPlace
  <1>4. CASE b \notin U
    <2>1. U \subseteq V
      BY <1>4 DEF Unmoved
    <2> QED
      BY <1>3, <2>1 DEF Orderly, InTheirPlace
  <1>5. CASE b \in U
    <2> DEFINE l == Left(E, b)
    <2>1. b \in Placed(K) /\ b \in Placed(E) /\ Parent(K, b) = Parent(E, b) /\ Left(K, b) = l
      BY <1>5 DEF Unmoved
    <2>2. l = Root \/ l \in V
      <3> SUFFICES ASSUME l # Root PROVE l \in V
        OBVIOUS
      <3>1. Parent(E, b) \in Nodes
        BY <2>1, PlaceOf DEF IsPlace
      <3>2. l \in ToSet(E[Parent(E, b)]) /\ l # b
        BY <2>1, LeftOf
      <3>3. l \in ToSet(K[Parent(E, b)])
        BY <2>1, LeftOf
      <3>4. l \in Placed(E) /\ l \in Placed(K)
        BY <1>0, <3>1, <3>2, <3>3, PlacedIn
      <3>5. Parent(E, l) = Parent(E, b) /\ Parent(K, l) = Parent(E, b)
        BY <3>1, <3>2, <3>3, <3>4, PlaceOf
      <3> QED
        BY <3>2, <3>4, <3>5
    <2>3. V \in SUBSET Placed(E) /\ l = Left(E, b) /\ U = Unmoved(K, E) /\ U \subseteq V \cup {b}
      BY DEF Unmoved
    <2> HIDE DEF V, l, U
    <2>4. Orderly(K, E, V \cup {b})
      BY <1>3, <1>5, <2>2, <2>3, OrderlyWith
    <2> QED
      BY <2>3, <2>4 DEF Orderly, InTheirPlace
  <1> QED
    BY <1>4, <1>5

\* Blocks in order stay in order when the lists keep the order of all but one.
LEMMA KeepsOrder ==
    ASSUME NEW K, Apart(K), NEW J \in [Nodes -> Seq(Ids)], NEW W \in SUBSET Placed(K), Orderly(J, K, W),
           NEW E, NEW b, KeptBut(E, J, b), \A r \in Nodes : \A x \in ToSet(J[r]) : x # b => x \in ToSet(E[r])
    PROVE  Orderly(E, K, W \ {b})
  <1>1. InTheirPlace(E, K, W \ {b})
    <2> SUFFICES ASSUME NEW x \in W, x # b PROVE x \in ToSet(E[Parent(K, x)])
      BY DEF InTheirPlace
    <2>1. Parent(K, x) \in Nodes
      BY PlaceOf DEF IsPlace
    <2> QED
      BY <2>1 DEF Orderly, InTheirPlace
  <1>2. ASSUME NEW r \in Nodes, NEW x \in W \ {b}, NEW y \in W \ {b}, Ahead(K[r], x, y) PROVE Ahead(E[r], x, y)
    <2>1. Ahead(J[r], x, y)
      BY <1>2 DEF Orderly
    <2>2. x \in ToSet(J[r]) /\ y \in ToSet(J[r])
      BY <2>1, AheadIn
    <2>3. x \in ToSet(E[r]) \ {b} /\ y \in ToSet(E[r]) \ {b}
      BY <2>2
    <2> QED
      BY <2>1, <2>3 DEF KeptBut
  <1> QED
    BY <1>1, <1>2 DEF Orderly

\* In E the children of p are X, none of them twice and those of K in the
\* same order; the others keep theirs.
Regrouped(E, K, p, X) ==
    /\ E \in [Nodes -> Seq(Ids)] /\ IsInjective(E[p]) /\ ToSet(E[p]) = X
    /\ KeptList(E[p], K[p])
    /\ \A q \in Nodes : q # p => E[q] = K[q]

\* Then all lists keep their order.
LEMMA RegroupedKept == ASSUME NEW E, NEW K, NEW p, NEW X, Regrouped(E, K, p, X) PROVE Kept(E, K)
  BY KeptSelf DEF Regrouped, Kept

\* What InPlaceOf does to the children of the parent.
LEMMA InPlaceOfFacts ==
    ASSUME NEW K, Apart(K), NEW b \in Placed(K), NEW p, p = Parent(K, b),
           NEW s \in Seq(Ids), IsInjective(s), ToSet(s) \cap (ToSet(K[p]) \ {b}) = {},
           NEW X, X = ToSet(s) \cup (ToSet(K[p]) \ {b}), NEW E, E = InPlaceOf(K, b, s)
    PROVE  Regrouped(E, K, p, X)
  <1> DEFINE i == Index(K, b)
             t == K[p]
             one == <<b>>
             m == 1
             q == ReplaceSubSeqAt(i, s, one, t)
             old == {b}
  <1>1. IsPlace(K, b, p, i) /\ K \in [Nodes -> Seq(Ids)]
    BY PlaceOf DEF Apart
  <1>2. E = [K EXCEPT ![p] = q]
    BY DEF InPlaceOf
  <1>3. p \in Nodes /\ t \in Seq(Ids) /\ i \in 1..Len(t) /\ t[i] = b /\ IsInjective(t) /\ Len(t) \in Nat
    BY <1>1 DEF IsPlace, Apart
  <1>4. i \in Nat \ {0} /\ Len(one) = m /\ m \in Nat /\ i + m <= Len(t) + 1
    BY <1>3
  <1>5. IsStretch(old, t, i, m)
    <2>1. i..(i + m - 1) = {i}
      BY <1>3
    <2> QED
      BY <2>1, <1>3 DEF IsStretch
  <1>6. ToSet(s) \cap (ToSet(t) \ old) = {} /\ q = ReplaceSubSeqAt(i, s, one, t)
    OBVIOUS
  <1>7. q \in Seq(Ids) /\ IsInjective(q) /\ ToSet(q) = ToSet(s) \cup (ToSet(t) \ old)
    <2> HIDE DEF i, t, one, m, q, old
    <2> QED
      BY <1>3, <1>4, <1>5, <1>6, ReplaceSets
  <1>k. KeptList(q, t)
    <2>1. q \in Seq(Ids) /\ IsReplaced(q, i, s, m, t)
      <3> HIDE DEF i, t, one, m, q
      <3> QED
        BY <1>3, <1>4, <1>6, ReplaceFacts
    <2>2. IsReplaced(q, i, s, 1, t) /\ ToSet(s) \cap (ToSet(t) \ {t[i]}) = {}
      BY <1>3, <2>1
    <2> HIDE DEF i, t, q
    <2> QED
      BY <1>3, <2>1, <2>2, ReplacedOrder
  <1> HIDE DEF q
  <1>8. E \in [Nodes -> Seq(Ids)] /\ E[p] = q /\ \A x \in Nodes : x # p => E[x] = K[x]
    BY <1>1, <1>2, <1>3, <1>7
  <1> QED
    BY <1>7, <1>8, <1>k DEF Regrouped

\* What Behind does to the children of p.
LEMMA BehindFacts ==
    ASSUME NEW K, Apart(K), NEW p \in Nodes, NEW l, l = Root \/ l \in ToSet(K[p]),
           NEW s \in Seq(Ids), IsInjective(s), ToSet(s) \cap ToSet(K[p]) = {},
           NEW X, X = ToSet(s) \cup ToSet(K[p]), NEW E, E = Behind(K, p, l, s)
    PROVE  Regrouped(E, K, p, X)
  <1>0. K \in [Nodes -> Seq(Ids)] /\ K[p] \in Seq(Ids) /\ IsInjective(K[p])
    BY DEF Apart
  <1>1. CASE l = Root
    <2> DEFINE a == s \o K[p]
    <2>1. E = [K EXCEPT ![p] = a]
      BY <1>1 DEF Behind
    <2>2. a \in Seq(Ids) /\ IsInjective(a) /\ ToSet(a) = ToSet(s) \cup ToSet(K[p])
      <3>1. a = s \o K[p]
        OBVIOUS
      <3> HIDE DEF a
      <3> QED
        BY <1>0, <3>1, ConcatSets
    <2>3. KeptList(a, K[p])
      BY <1>0, KeptConcat
    <2> HIDE DEF a
    <2> QED
      BY <1>0, <2>1, <2>2, <2>3 DEF Regrouped
  <1>2. CASE l # Root
    <2> DEFINE a == <<l>> \o s
    <2>1. E = InPlaceOf(K, l, a)
      BY <1>2 DEF Behind
    <2>2. l \in Placed(K) /\ l \in Ids /\ l \in ToSet(K[p])
      BY <1>0, <1>2, PlacedIn
    <2>3. Parent(K, l) = p
      BY <2>2, PlaceOf
    <2>4. a \in Seq(Ids) /\ IsInjective(a) /\ ToSet(a) = {l} \cup ToSet(s)
      <3>1. a = <<l>> \o s /\ l \notin ToSet(s)
        BY <2>2
      <3> HIDE DEF a
      <3> QED
        BY <2>2, <3>1, OneInFront
    <2> HIDE DEF a
    <2>5. ToSet(a) \cap (ToSet(K[p]) \ {l}) = {}
      BY <2>4
    <2>6. X = ToSet(a) \cup (ToSet(K[p]) \ {l})
      BY <2>2, <2>4
    <2> QED
      BY <2>1, <2>2, <2>3, <2>4, <2>5, <2>6, InPlaceOfFacts
  <1> QED
    BY <1>1, <1>2

\* A block and what Following returns are the rest of the list.
LEMMA AndFollowing ==
    ASSUME NEW K, Apart(K), NEW b \in Placed(K), NEW p, p = Parent(K, b), NEW i, i = Index(K, b)
    PROVE  /\ IsPart(SubSeq(K[p], 1, i - 1), K[p], 1, i - 1)
           /\ IsPart(Following(K, b), K[p], i + 1, Len(K[p]) - i)
           /\ IsPlace(K, b, p, i) /\ i \in Nat \ {0} /\ Len(K[p]) \in Nat
           /\ Len(K[p]) - i \in Nat /\ i - 1 \in Nat /\ i + 1 \in Nat \ {0}
           /\ (i + 1) + (Len(K[p]) - i) <= Len(K[p]) + 1
           /\ 1 + (i - 1) <= Len(K[p]) + 1
           /\ K[p] \in Seq(Ids) /\ IsInjective(K[p])
  <1>1. IsPlace(K, b, p, i)
    BY PlaceOf
  <1>2. p \in Nodes /\ K[p] \in Seq(Ids) /\ i \in 1..Len(K[p]) /\ Len(K[p]) \in Nat /\ IsInjective(K[p])
    BY <1>1 DEF IsPlace, Apart
  <1>3. /\ i \in Nat \ {0} /\ Len(K[p]) - i \in Nat /\ i - 1 \in Nat /\ i + 1 \in Nat \ {0}
        /\ (i + 1) + (Len(K[p]) - i) <= Len(K[p]) + 1
        /\ 1 + (i - 1) <= Len(K[p]) + 1 /\ 1 \in Nat \ {0}
    BY <1>2
  <1>4. IsPart(SubSeq(K[p], 1, i - 1), K[p], 1, i - 1)
    <2> DEFINE m == i - 1
               j == i - 1
               one == 1
    <2>1. j = one + m - 1 /\ m \in Nat /\ one \in Nat \ {0} /\ one + m <= Len(K[p]) + 1
      BY <1>2
    <2> HIDE DEF m, j, one
    <2>2. IsPart(SubSeq(K[p], one, j), K[p], one, m)
      BY <1>2, <2>1, SubSeqPart
    <2> QED
      BY <2>2 DEF m, j, one
  <1>5. IsPart(Following(K, b), K[p], i + 1, Len(K[p]) - i)
    <2> DEFINE m == Len(K[p]) - i
               x == i + 1
               j == Len(K[p])
    <2>1. j = x + m - 1 /\ m \in Nat /\ x \in Nat \ {0} /\ x + m <= Len(K[p]) + 1
      BY <1>2
    <2>2. Following(K, b) = SubSeq(K[p], x, j)
      BY DEF Following
    <2> HIDE DEF m, x, j
    <2>3. IsPart(Following(K, b), K[p], x, m)
      BY <1>2, <2>1, <2>2, SubSeqPart
    <2> QED
      BY <2>3 DEF m, x
  <1> QED
    BY <1>1, <1>2, <1>3, <1>4, <1>5

\* A list is the blocks before b, b, and the blocks after it.
IsBefore(u, K, p, b) == u = SubSeq(K[p], 1, Index(K, b) - 1)

\* The siblings before a block, the block and the siblings behind it.
LEMMA BeforeAndAfter ==
    ASSUME NEW K, Apart(K), NEW b \in Placed(K), NEW p, p = Parent(K, b),
           NEW u, IsBefore(u, K, p, b), NEW z, z = Following(K, b)
    PROVE  /\ u \in Seq(Ids) /\ IsInjective(u) /\ z \in Seq(Ids) /\ IsInjective(z)
           /\ b \notin ToSet(u) /\ b \notin ToSet(z) /\ ToSet(u) \cap ToSet(z) = {}
           /\ ToSet(K[p]) = ToSet(u) \cup {b} \cup ToSet(z)
  <1> DEFINE i == Index(K, b)
             t == K[p]
             m == i - 1
             n == Len(t) - i
             one == 1
             x == i + 1
  <1>1. /\ IsPart(u, t, one, m) /\ IsPart(z, t, x, n) /\ t \in Seq(Ids) /\ IsInjective(t)
        /\ one \in Nat \ {0} /\ m \in Nat /\ x \in Nat \ {0} /\ n \in Nat
        /\ one + m <= Len(t) + 1 /\ x + n <= Len(t) + 1
    BY AndFollowing DEF IsBefore
  <1>2. IsPlace(K, b, p, i) /\ i \in Nat \ {0} /\ Len(K[p]) \in Nat
    BY AndFollowing
  <1>3. i \in 1..Len(t) /\ t[i] = b /\ Len(t) \in Nat /\ DOMAIN t = 1..Len(t)
    BY <1>1, <1>2 DEF IsPlace
  <1> HIDE DEF t, m, n, one, x, i
  <1>4. u \in Seq(Ids) /\ IsInjective(u) /\ HoldsPart(u, t, one, m)
    BY <1>1, PartOf
  <1>6. z \in Seq(Ids) /\ IsInjective(z) /\ HoldsPart(z, t, x, n)
    BY <1>1, PartOf
  <1>8. \A j : (j \in one..(one + m - 1) <=> j \in 1..(i - 1)) /\ (j \in x..(x + n - 1) <=> j \in (i + 1)..Len(t))
    BY <1>3, <1>2 DEF one, m, x, n
  <1>9. \A j \in 1..Len(t) : (t[j] \in ToSet(u) <=> j < i) /\ (t[j] \in ToSet(z) <=> j > i)
    BY <1>4, <1>6, <1>8, <1>3 DEF HoldsPart
  <1>10. \A y \in ToSet(u) : \E j \in 1..Len(t) : y = t[j]
    BY <1>4, <1>8, <1>3 DEF HoldsPart
  <1>11. \A y \in ToSet(z) : \E j \in 1..Len(t) : y = t[j]
    BY <1>6, <1>8, <1>3 DEF HoldsPart
  <1>12. \A y \in ToSet(t) : \E j \in 1..Len(t) : y = t[j]
    BY <1>3 DEF ToSet
  <1>13. \A j \in 1..Len(t) : t[j] \in ToSet(t)
    BY <1>3 DEF ToSet
  <1>14. b \notin ToSet(u) /\ b \notin ToSet(z)
    BY <1>3, <1>9
  <1>15. ToSet(u) \cap ToSet(z) = {}
    BY <1>9, <1>10, <1>3
  <1>16. ToSet(t) \subseteq ToSet(u) \cup {b} \cup ToSet(z)
    BY <1>9, <1>12, <1>3
  <1>17. ToSet(u) \cup {b} \cup ToSet(z) \subseteq ToSet(t)
    BY <1>10, <1>11, <1>13, <1>3
  <1> QED
    BY <1>4, <1>6, <1>14, <1>15, <1>16, <1>17 DEF t

-----------------------------------------------------------------------------
\* b and everything under it.
Under(K, b) == {b} \cup ToSet(Below(K, b))

\* The blocks under b, b among them, are closed under children; no other way
\* leads to b.
LEMMA UnderFacts ==
    ASSUME NEW K, GoodKids(K), NEW b \in Ids
    PROVE  /\ b \in Under(K, b) /\ Under(K, b) \subseteq Ids
           /\ \A x \in Under(K, b) : ToSet(K[x]) \subseteq Under(K, b)
           /\ \A q \in Under(K, b) : b \notin ToSet(K[q])
           /\ \A x \in Under(K, b) : x = b \/ \E q \in Under(K, b) : x \in ToSet(K[q])
  <1> DEFINE c == Below(K, b)
             S == Under(K, b)
  <1>0. Apart(K) /\ b \in Nodes /\ NoWayBack(K, b)
    BY NoWayBackInTree DEF GoodKids, Nodes
  <1>1. /\ ToSet(c) \subseteq Ids /\ ToSet(K[b]) \subseteq ToSet(c)
        /\ \A x \in ToSet(c) : ToSet(K[x]) \subseteq ToSet(c)
        /\ \A x \in ToSet(c) : \E q \in ToSet(c) \cup {b} : x \in ToSet(K[q])
    <2>1. c = Below(K, b)
      OBVIOUS
    <2> HIDE DEF c
    <2> QED
      BY <1>0, <2>1, BelowSet
  <1>2. S = {b} \cup ToSet(c)
    BY DEF Under
  <1> HIDE DEF c, S
  <1>3. S \in SUBSET Ids /\ b \in S
    BY <1>1, <1>2
  <1>4. \A x \in S : ToSet(K[x]) \subseteq S
    BY <1>1, <1>2
  <1>5. \A x \in S : x = b \/ \E q \in S : x \in ToSet(K[q])
    BY <1>1, <1>2
  <1>6. ASSUME NEW q \in S, b \in ToSet(K[q]) PROVE FALSE
    <2>1. \A x \in S : \E y \in S : x \in ToSet(K[y])
      BY <1>5, <1>6
    <2> QED
      BY <2>1, <1>3 DEF GoodKids, Rooted
  <1> QED
    BY <1>3, <1>4, <1>5, <1>6 DEF S

\* Neither the parent of b nor its other siblings are under b.
LEMMA ParentNotUnder ==
    ASSUME NEW K, GoodKids(K), NEW p \in Nodes, NEW b \in ToSet(K[p])
    PROVE  p \notin Under(K, b) /\ \A x \in ToSet(K[p]) : x # b => x \notin Under(K, b)
  <1>0. Apart(K) /\ K \in [Nodes -> Seq(Ids)] /\ b \in Ids
    BY PlacedIn DEF GoodKids, Apart
  <1>1. p \notin Under(K, b)
    BY <1>0, UnderFacts
  <1>2. ASSUME NEW x \in ToSet(K[p]), x # b, x \in Under(K, b) PROVE FALSE
    <2>1. PICK q \in Under(K, b) : x \in ToSet(K[q])
      BY <1>0, <1>2, UnderFacts
    <2>2. q \in Nodes
      BY <1>0, UnderFacts DEF Nodes
    <2>3. q = p
      BY <1>0, <2>1, <2>2, <1>2 DEF Apart
    <2> QED
      BY <1>1, <2>3
  <1> QED
    BY <1>1, <1>2

\* No block is its own child.
LEMMA NotItsOwn ==
    ASSUME NEW K, GoodKids(K), NEW b \in Nodes
    PROVE  b \notin ToSet(K[b])
  <1> SUFFICES ASSUME b \in ToSet(K[b]) PROVE FALSE
    OBVIOUS
  <1>1. b \in Ids
    BY PlacedIn DEF GoodKids, Apart
  <1>2. {b} \in SUBSET Ids /\ \A x \in {b} : \E q \in {b} : x \in ToSet(K[q])
    BY <1>1
  <1>3. {b} = {}
    BY <1>2 DEF GoodKids, Rooted
  <1> QED
    BY <1>3

-----------------------------------------------------------------------------
\* Which blocks are the children of which is all that matters for a tree.
OneParent(E) ==
    \A q, r \in Nodes : \A x \in Ids : x \in ToSet(E[q]) /\ x \in ToSet(E[r]) => q = r
NothingHangs(E) == \A b \in Ids : b \notin Placed(E) => ToSet(E[b]) = {}
NoCircle(E) ==
    \A S \in SUBSET Ids : (\A b \in S : \E q \in S : b \in ToSet(E[q])) => S = {}
AllInjective(E) == \A q \in Nodes : IsInjective(E[q])

\* Four facts about the sets of children make a tree ...
LEMMA GoodWhen ==
    ASSUME NEW E \in [Nodes -> Seq(Ids)], AllInjective(E), OneParent(E), NothingHangs(E), NoCircle(E)
    PROVE  GoodKids(E)
  <1>1. ASSUME NEW q \in Nodes, NEW r \in Nodes, q # r
        PROVE  ToSet(E[q]) \cap ToSet(E[r]) = {}
    <2>1. ToSet(E[q]) \subseteq Ids
      BY PlacedIn
    <2> QED
      BY <2>1, <1>1 DEF OneParent
  <1>2. Apart(E)
    BY <1>1 DEF Apart, AllInjective
  <1>3. ASSUME NEW b \in Ids \ Placed(E) PROVE E[b] = <<>>
    <2>1. E[b] \in Seq(Ids) /\ ToSet(E[b]) = {}
      BY DEF Nodes, NothingHangs
    <2> QED
      BY <2>1, ToSetEmpty
  <1> QED
    BY <1>2, <1>3 DEF GoodKids, Rooted, NoCircle

\* ... and a tree has them: no circle,
LEMMA NoneInACircle ==
    ASSUME NEW K, GoodKids(K), NEW S \in SUBSET Ids, \A b \in S : \E q \in S : b \in ToSet(K[q])
    PROVE  S = {}
  BY DEF GoodKids, Rooted

\* one parent for every block, and nothing under blocks that have no place.
LEMMA GoodHas ==
    ASSUME NEW K, GoodKids(K)
    PROVE  /\ K \in [Nodes -> Seq(Ids)] /\ \A q \in Nodes : IsInjective(K[q])
           /\ \A q, r \in Nodes : \A x : x \in ToSet(K[q]) /\ x \in ToSet(K[r]) => q = r
           /\ \A b \in Ids : b \notin Placed(K) => ToSet(K[b]) = {}
           /\ \A q \in Nodes : ToSet(K[q]) \subseteq Ids
           /\ \A b : b \in Placed(K) <=> \E q \in Nodes : b \in ToSet(K[q])
           /\ Placed(K) \subseteq Ids
  <1>1. K \in [Nodes -> Seq(Ids)] /\ \A q \in Nodes : IsInjective(K[q])
    BY DEF GoodKids, Apart
  <1>2. \A q, r \in Nodes : \A x : x \in ToSet(K[q]) /\ x \in ToSet(K[r]) => q = r
    BY DEF GoodKids, Apart
  <1>3. \A b \in Ids : b \notin Placed(K) => ToSet(K[b]) = {}
    BY DEF GoodKids, Rooted, ToSet
  <1> QED
    BY <1>1, <1>2, <1>3, PlacedIn

\* A new block without children.
LEMMA LeafAdded ==
    ASSUME NEW K, GoodKids(K), NEW n \in Ids, n \notin Placed(K),
           NEW p, p = Root \/ p \in Placed(K), NEW X, X = ToSet(K[p]) \cup {n},
           NEW E, Regrouped(E, K, p, X)
    PROVE  GoodKids(E) /\ Placed(E) = Placed(K) \cup {n}
  <1>0. /\ K \in [Nodes -> Seq(Ids)] /\ \A q \in Nodes : IsInjective(K[q])
        /\ \A q, r \in Nodes : \A x : x \in ToSet(K[q]) /\ x \in ToSet(K[r]) => q = r
        /\ \A b \in Ids : b \notin Placed(K) => ToSet(K[b]) = {}
        /\ \A b : b \in Placed(K) <=> \E q \in Nodes : b \in ToSet(K[q])
        /\ Placed(K) \subseteq Ids
    BY GoodHas
  <1>1. p \in Nodes /\ n \in Nodes /\ p # n
    BY <1>0, RootIsNoBlock
  <1>2. E \in [Nodes -> Seq(Ids)] /\ \A q \in Nodes : IsInjective(E[q])
    BY <1>0 DEF Regrouped
  <1>3. \A q \in Nodes : \A x : x \in ToSet(E[q]) <=> x \in ToSet(K[q]) \/ (q = p /\ x = n)
    BY DEF Regrouped
  <1>4. \A b : b \in Placed(E) <=> \E q \in Nodes : b \in ToSet(E[q])
    BY <1>2, PlacedIn
  <1>5. Placed(E) = Placed(K) \cup {n}
    <2>1. \A b : b \in Placed(E) <=> b \in Placed(K) \/ b = n
      BY <1>0, <1>1, <1>3, <1>4
    <2> QED
      BY <2>1
  <1>6. ASSUME NEW q \in Nodes, NEW r \in Nodes, NEW x \in Ids, x \in ToSet(E[q]), x \in ToSet(E[r])
        PROVE  q = r
    <2>1. CASE x = n
      <3>1. n \notin ToSet(K[q]) /\ n \notin ToSet(K[r])
        BY <1>0
      <3> QED
        BY <3>1, <2>1, <1>3, <1>6
    <2>2. CASE x # n
      <3>1. x \in ToSet(K[q]) /\ x \in ToSet(K[r])
        BY <2>2, <1>3, <1>6
      <3> QED
        BY <3>1, <1>0
    <2> QED
      BY <2>1, <2>2
  <1>7. \A b \in Ids : b \notin Placed(E) => ToSet(E[b]) = {}
    <2> TAKE b \in Ids
    <2> HAVE b \notin Placed(E)
    <2>1. b \in Nodes /\ b # p /\ ToSet(K[b]) = {}
      BY <1>0, <1>5, RootIsNoBlock
    <2> QED
      BY <2>1, <1>3
  <1>8. ASSUME NEW S \in SUBSET Ids, \A b \in S : \E q \in S : b \in ToSet(E[q])
        PROVE  S = {}
    <2> DEFINE T == S \ {n}
    <2>1. \A b \in T : \E q \in T : b \in ToSet(K[q])
      BY <1>0, <1>3, <1>8, RootIsNoBlock
    <2>2. T \in SUBSET Ids
      OBVIOUS
    <2>3. T = {}
      <3> HIDE DEF T
      <3> QED
        BY <2>1, <2>2, NoneInACircle
    <2>4. n \notin ToSet(E[n])
      BY <1>0, <1>1, <1>3
    <2> QED
      BY <2>3, <2>4, <1>8
  <1> QED
    <2>1. AllInjective(E) /\ OneParent(E) /\ NothingHangs(E) /\ NoCircle(E)
      BY <1>2, <1>6, <1>7, <1>8 DEF AllInjective, OneParent, NothingHangs, NoCircle
    <2> QED
      BY <1>2, <1>5, <2>1, GoodWhen

\* The children of b handed to the sibling n, that had none.
HandsOver(E, K, b, n) ==
    /\ E \in [Nodes -> Seq(Ids)] /\ E[b] = <<>> /\ E[n] = K[b]
    /\ \A q \in Nodes : q # b /\ q # n => E[q] = K[q]

\* A new block that takes over the children of another leaves a tree.
LEMMA HandedOver ==
    ASSUME NEW K, GoodKids(K), NEW p \in Nodes, NEW b \in ToSet(K[p]), NEW n \in ToSet(K[p]), b # n,
           ToSet(K[n]) = {}, NEW E, HandsOver(E, K, b, n)
    PROVE  GoodKids(E) /\ Placed(E) = Placed(K)
  <1>0. /\ K \in [Nodes -> Seq(Ids)] /\ \A q \in Nodes : IsInjective(K[q])
        /\ \A q, r \in Nodes : \A x : x \in ToSet(K[q]) /\ x \in ToSet(K[r]) => q = r
        /\ \A x \in Ids : x \notin Placed(K) => ToSet(K[x]) = {}
        /\ \A x : x \in Placed(K) <=> \E q \in Nodes : x \in ToSet(K[q])
        /\ \A q \in Nodes : ToSet(K[q]) \subseteq Ids
    BY GoodHas
  <1>1. b \in Ids /\ n \in Ids /\ b \in Nodes /\ n \in Nodes /\ p # b /\ p # n
    BY <1>0, RootIsNoBlock, NotItsOwn
  <1>2. E \in [Nodes -> Seq(Ids)] /\ E[b] = <<>> /\ E[n] = K[b] /\ \A q \in Nodes : q # b /\ q # n => E[q] = K[q]
    BY DEF HandsOver
  <1>3. ToSet(<<>>) = {} /\ IsInjective(<<>>)
    BY DEF ToSet, IsInjective
  <1>4. \A q \in Nodes : IsInjective(E[q])
    BY <1>0, <1>1, <1>2, <1>3
  <1>5. ToSet(E[b]) = {} /\ ToSet(E[n]) = ToSet(K[b]) /\ \A q \in Nodes : q # b /\ q # n => ToSet(E[q]) = ToSet(K[q])
    BY <1>2, <1>3
  <1>6. \A x : x \in Placed(E) <=> \E q \in Nodes : x \in ToSet(E[q])
    BY <1>2, PlacedIn
  <1>7. Placed(E) = Placed(K)
    <2>1. ASSUME NEW q \in Nodes, NEW x \in ToSet(E[q]) PROVE x \in Placed(K)
      BY <1>0, <1>1, <1>5
    <2>2. ASSUME NEW q \in Nodes, NEW x \in ToSet(K[q]) PROVE x \in Placed(E)
      BY <1>1, <1>5, <1>6, <2>2
    <2> QED
      BY <2>1, <2>2, <1>0, <1>6
  <1>8. \A q, r \in Nodes : \A x \in Ids : x \in ToSet(E[q]) /\ x \in ToSet(E[r]) => q = r
    BY <1>0, <1>1, <1>5
  <1>9. ASSUME NEW x \in Ids, x \notin Placed(E) PROVE ToSet(E[x]) = {}
    <2>1. x \in Nodes /\ ToSet(K[x]) = {} /\ n \in Placed(K) /\ x # n
      BY <1>0, <1>7, <1>9, RootIsNoBlock
    <2> QED
      BY <2>1, <1>5
  <1>10. ASSUME NEW S \in SUBSET Ids, \A x \in S : \E q \in S : x \in ToSet(E[q])
         PROVE  S = {}
    <2> DEFINE T == (S \ {n}) \cup {x \in {b} : n \in S}
    <2>0. S \subseteq Nodes
      BY RootIsNoBlock
    <2>1. ASSUME NEW x \in S, x # b, x # n PROVE \E q \in T : x \in ToSet(K[q])
      BY <2>0, <2>1, <1>1, <1>5, <1>10
    <2>2. ASSUME b \in S PROVE \E q \in T : b \in ToSet(K[q])
      BY <2>0, <2>2, <1>1, <1>5, <1>10
    <2>3. ASSUME n \in S PROVE \E q \in T : b \in ToSet(K[q])
      <3>1. PICK q \in S : n \in ToSet(E[q])
        BY <1>10, <2>3
      <3>2. q # b /\ q # n
        BY <3>1, <1>0, <1>1, <1>5
      <3>3. q = p
        BY <3>1, <3>2, <2>0, <1>0, <1>5
      <3> QED
        BY <3>1, <3>2, <3>3
    <2>4. T \in SUBSET Ids
      BY <1>1
    <2>5. \A x \in T : \E q \in T : x \in ToSet(K[q])
      BY <2>1, <2>2, <2>3
    <2>6. T = {}
      <3> HIDE DEF T
      <3> QED
        BY <2>4, <2>5, NoneInACircle
    <2> QED
      BY <2>6
  <1> QED
    <2>1. AllInjective(E) /\ OneParent(E) /\ NothingHangs(E) /\ NoCircle(E)
      BY <1>4, <1>8, <1>9, <1>10 DEF AllInjective, OneParent, NothingHangs, NoCircle
    <2> QED
      BY <1>2, <1>7, <2>1, GoodWhen

\* Siblings X moved from p under q, which is not below them.
IsMoved(E, K, X, q) ==
    /\ E \in [Nodes -> Seq(Ids)] /\ AllInjective(E)
    /\ \A r \in Nodes : \A x :
          x \in ToSet(E[r]) <=> (x \in ToSet(K[r]) /\ x \notin X) \/ (r = q /\ x \in X)
Closed(K, D) == D \in SUBSET Ids /\ \A x \in D : ToSet(K[x]) \subseteq D

\* Blocks moved under a node that is not under them leave a tree.
LEMMA MovedUnder ==
    ASSUME NEW K, GoodKids(K), NEW p \in Nodes, NEW X \in SUBSET ToSet(K[p]),
           NEW q, q = Root \/ q \in Placed(K), NEW D, Closed(K, D), X \subseteq D, q \notin D, p \notin D,
           NEW E, IsMoved(E, K, X, q)
    PROVE  GoodKids(E) /\ Placed(E) = Placed(K)
  <1>a. /\ D \in SUBSET Ids /\ \A x \in D : ToSet(K[x]) \subseteq D
        /\ E \in [Nodes -> Seq(Ids)] /\ \A r \in Nodes : IsInjective(E[r])
        /\ \A r \in Nodes : \A x :
              x \in ToSet(E[r]) <=> (x \in ToSet(K[r]) /\ x \notin X) \/ (r = q /\ x \in X)
    BY DEF Closed, IsMoved, AllInjective
  <1>0. /\ K \in [Nodes -> Seq(Ids)]
        /\ \A s, r \in Nodes : \A x : x \in ToSet(K[s]) /\ x \in ToSet(K[r]) => s = r
        /\ \A x \in Ids : x \notin Placed(K) => ToSet(K[x]) = {}
        /\ \A x : x \in Placed(K) <=> \E r \in Nodes : x \in ToSet(K[r])
        /\ Placed(K) \subseteq Ids
    BY <1>a, GoodHas
  <1>1. q \in Nodes
    BY <1>a, <1>0, RootIsNoBlock
  <1>6. \A x : x \in Placed(E) <=> \E r \in Nodes : x \in ToSet(E[r])
    BY <1>a, PlacedIn
  <1>7. Placed(E) = Placed(K)
    <2>1. \A x : x \in Placed(E) => x \in Placed(K)
      BY <1>a, <1>0, <1>6
    <2>2. \A x : x \in Placed(K) => x \in Placed(E)
      BY <1>a, <1>0, <1>1, <1>6
    <2> QED
      BY <1>a, <2>1, <2>2
  <1>8. ASSUME NEW s \in Nodes, NEW r \in Nodes, NEW x \in Ids, x \in ToSet(E[s]), x \in ToSet(E[r])
        PROVE  s = r
    <2>1. CASE x \in X
      BY <1>a, <2>1, <1>8
    <2>2. CASE x \notin X
      <3>1. x \in ToSet(K[s]) /\ x \in ToSet(K[r])
        BY <1>a, <2>2, <1>8
      <3> QED
        BY <1>a, <3>1, <1>0
    <2> QED
      BY <1>a, <2>1, <2>2
  <1>9. ASSUME NEW x \in Ids, x \notin Placed(E) PROVE ToSet(E[x]) = {}
    <2>0. x \notin Placed(K)
      BY <1>a, <1>7, <1>9
    <2>1. x # q /\ x \in Nodes /\ ToSet(K[x]) = {}
      BY <1>0, <2>0, RootIsNoBlock
    <2> QED
      BY <1>a, <2>1
  <1>10. ASSUME NEW S \in SUBSET Ids, \A x \in S : \E r \in S : x \in ToSet(E[r])
         PROVE  S = {}
    <2> DEFINE T == S \ D
    <2>0. S \subseteq Nodes
      BY <1>a, RootIsNoBlock
    <2>1. ASSUME NEW x \in T PROVE \E r \in T : x \in ToSet(K[r])
      <3>1. PICK r \in S : x \in ToSet(E[r])
        BY <1>a, <1>10
      <3>2. x \in ToSet(K[r])
        BY <1>a, <3>1, <2>0
      <3> QED
        BY <1>a, <3>1, <3>2
    <2>2. T \in SUBSET Ids
      OBVIOUS
    <2>3. T = {}
      <3> HIDE DEF T
      <3> QED
        BY <1>a, <2>1, <2>2, NoneInACircle
    <2>4. S \subseteq D
      BY <1>a, <2>3
    <2>5. \A x \in S : \E r \in S : x \in ToSet(K[r])
      <3> TAKE x \in S
      <3>1. PICK r \in S : x \in ToSet(E[r])
        BY <1>a, <1>10
      <3>2. r \in Nodes /\ r # q
        BY <1>a, <2>0, <2>4
      <3> QED
        BY <1>a, <3>1, <3>2
    <2> QED
      BY <1>a, <2>5, NoneInACircle
  <1> QED
    <2>1. AllInjective(E) /\ OneParent(E) /\ NothingHangs(E) /\ NoCircle(E)
      BY <1>a, <1>8, <1>9, <1>10 DEF AllInjective, OneParent, NothingHangs, NoCircle
    <2> QED
      BY <1>a, <1>7, <2>1, GoodWhen

\* b lifted out of p to g, and the siblings Z behind it taken under b.
IsLifted(E, K, g, b, Z) ==
    /\ E \in [Nodes -> Seq(Ids)] /\ AllInjective(E)
    /\ \A r \in Nodes : \A x : x \in ToSet(E[r]) <=> \/ x \in ToSet(K[r]) /\ x # b /\ x \notin Z
                                                     \/ r = g /\ x = b
                                                     \/ r = b /\ x \in Z

\* A block lifted behind its parent, with its next siblings as children,
\* leaves a tree.
LEMMA LiftedOut ==
    ASSUME NEW K, GoodKids(K), NEW g \in Nodes, NEW p \in ToSet(K[g]), NEW b \in ToSet(K[p]),
           NEW Z \in SUBSET ToSet(K[p]), b \notin Z,
           NEW E, IsLifted(E, K, g, b, Z)
    PROVE  GoodKids(E) /\ Placed(E) = Placed(K)
  <1>a. /\ E \in [Nodes -> Seq(Ids)] /\ \A r \in Nodes : IsInjective(E[r])
        /\ \A r \in Nodes : \A x : x \in ToSet(E[r]) <=> \/ x \in ToSet(K[r]) /\ x # b /\ x \notin Z
                                                         \/ r = g /\ x = b
                                                         \/ r = b /\ x \in Z
    BY DEF IsLifted, AllInjective
  <1>0. /\ K \in [Nodes -> Seq(Ids)]
        /\ \A s, r \in Nodes : \A x : x \in ToSet(K[s]) /\ x \in ToSet(K[r]) => s = r
        /\ \A x \in Ids : x \notin Placed(K) => ToSet(K[x]) = {}
        /\ \A x : x \in Placed(K) <=> \E r \in Nodes : x \in ToSet(K[r])
        /\ Placed(K) \subseteq Ids /\ \A r \in Nodes : ToSet(K[r]) \subseteq Ids
    BY <1>a, GoodHas
  <1>1. p \in Ids /\ p \in Nodes
    BY <1>a, <1>0, RootIsNoBlock
  <1>2. b \in Ids /\ b \in Nodes /\ p # g /\ p # b
    BY <1>a, <1>0, <1>1, RootIsNoBlock, NotItsOwn
  <1>3. b \in Placed(K) /\ p \in Placed(K) /\ (g = Root \/ g \in Placed(K))
    <2>1. g \in Ids => g \in Placed(K)
      BY <1>a, <1>0
    <2> QED
      BY <1>a, <1>0, <1>1, <2>1 DEF Nodes
  <1>6. \A x : x \in Placed(E) <=> \E r \in Nodes : x \in ToSet(E[r])
    BY <1>a, PlacedIn
  <1>7. Placed(E) = Placed(K)
    <2>1. ASSUME NEW r \in Nodes, NEW x \in ToSet(E[r]) PROVE x \in Placed(K)
      BY <1>a, <1>0, <1>1, <1>3
    <2>2. ASSUME NEW r \in Nodes, NEW x \in ToSet(K[r]) PROVE x \in Placed(E)
      <3>1. CASE x = b
        BY <1>a, <3>1, <1>6
      <3>2. CASE x \in Z
        BY <1>a, <3>2, <1>2, <1>6
      <3>3. CASE x # b /\ x \notin Z
        BY <1>a, <3>3, <1>6
      <3> QED
        BY <1>a, <3>1, <3>2, <3>3
    <2>3. \A x : x \in Placed(E) => x \in Placed(K)
      BY <1>a, <2>1, <1>6
    <2>4. \A x : x \in Placed(K) => x \in Placed(E)
      BY <1>a, <2>2, <1>0
    <2> QED
      BY <1>a, <2>3, <2>4
  <1>8. ASSUME NEW s \in Nodes, NEW r \in Nodes, NEW x \in Ids, x \in ToSet(E[s]), x \in ToSet(E[r])
        PROVE  s = r
    <2>1. CASE x = b \/ x \in Z
      BY <1>a, <2>1, <1>8
    <2>2. CASE x # b /\ x \notin Z
      <3>1. x \in ToSet(K[s]) /\ x \in ToSet(K[r])
        BY <1>a, <2>2, <1>8
      <3> QED
        BY <1>a, <3>1, <1>0
    <2> QED
      BY <1>a, <2>1, <2>2
  <1>9. ASSUME NEW x \in Ids, x \notin Placed(E) PROVE ToSet(E[x]) = {}
    <2>0. x \notin Placed(K)
      BY <1>a, <1>7, <1>9
    <2>1. x # g /\ x # b /\ x \in Nodes /\ ToSet(K[x]) = {}
      BY <1>a, <1>0, <1>3, <2>0, RootIsNoBlock
    <2> QED
      BY <1>a, <2>1
  <1>10. ASSUME NEW S \in SUBSET Ids, \A x \in S : \E r \in S : x \in ToSet(E[r])
         PROVE  S = {}
    <2> DEFINE T == S \cup {x \in {p} : b \in S}
    <2>0. S \subseteq Nodes
      BY <1>a, RootIsNoBlock
    <2>1. ASSUME NEW x \in S, x # b, x \notin Z PROVE \E q \in T : x \in ToSet(K[q])
      BY <1>a, <2>0, <2>1, <1>10
    <2>2. ASSUME b \in S PROVE g \in S /\ p \in T
      <3>1. PICK q \in S : b \in ToSet(E[q])
        BY <1>a, <1>10, <2>2
      <3>2. q = g
        BY <1>a, <3>1, <2>0
      <3> QED
        BY <1>a, <2>2, <3>1, <3>2
    <2>3. ASSUME NEW x \in S, x \in Z PROVE p \in T
      <3>1. PICK q \in S : x \in ToSet(E[q])
        BY <1>a, <1>10, <2>3
      <3>2. q = b
        BY <1>a, <3>1, <2>0, <2>3
      <3> QED
        BY <1>a, <3>1, <3>2, <2>2
    <2>4. T \in SUBSET Ids
      BY <1>a, <1>1
    <2>5. \A x \in T : \E q \in T : x \in ToSet(K[q])
      <3> TAKE x \in T
      <3>1. CASE x \in S
        BY <1>a, <3>1, <2>1, <2>2, <2>3
      <3>2. CASE x \notin S
        BY <1>a, <3>2, <2>2
      <3> QED
        BY <1>a, <3>1, <3>2
    <2>6. T = {}
      <3> HIDE DEF T
      <3> QED
        BY <1>a, <2>4, <2>5, NoneInACircle
    <2> QED
      BY <1>a, <2>6
  <1> QED
    <2>1. AllInjective(E) /\ OneParent(E) /\ NothingHangs(E) /\ NoCircle(E)
      BY <1>a, <1>8, <1>9, <1>10 DEF AllInjective, OneParent, NothingHangs, NoCircle
    <2> QED
      BY <1>a, <1>7, <2>1, GoodWhen

\* The children of b take its place, and b has none.
IsDissolved(E, K, p, b) ==
    /\ E \in [Nodes -> Seq(Ids)] /\ AllInjective(E)
    /\ \A r \in Nodes : \A x : x \in ToSet(E[r]) <=> \/ x \in ToSet(K[r]) /\ x # b /\ r # b
                                                     \/ r = p /\ x \in ToSet(K[b])

\* A block replaced by its children leaves a tree.
LEMMA Dissolved ==
    ASSUME NEW K, GoodKids(K), NEW p \in Nodes, NEW b \in ToSet(K[p]),
           NEW E, IsDissolved(E, K, p, b)
    PROVE  GoodKids(E) /\ Placed(E) = Placed(K) \ {b}
  <1>a. /\ E \in [Nodes -> Seq(Ids)] /\ \A r \in Nodes : IsInjective(E[r])
        /\ \A r \in Nodes : \A x : x \in ToSet(E[r]) <=> \/ x \in ToSet(K[r]) /\ x # b /\ r # b
                                                         \/ r = p /\ x \in ToSet(K[b])
    BY DEF IsDissolved, AllInjective
  <1>0. /\ K \in [Nodes -> Seq(Ids)]
        /\ \A s, r \in Nodes : \A x : x \in ToSet(K[s]) /\ x \in ToSet(K[r]) => s = r
        /\ \A x \in Ids : x \notin Placed(K) => ToSet(K[x]) = {}
        /\ \A x : x \in Placed(K) <=> \E r \in Nodes : x \in ToSet(K[r])
        /\ Placed(K) \subseteq Ids /\ \A r \in Nodes : ToSet(K[r]) \subseteq Ids
    BY <1>a, GoodHas
  <1>1. b \in Ids /\ b \in Nodes /\ b # p
    BY <1>a, <1>0, RootIsNoBlock, NotItsOwn
  <1>2. b \notin ToSet(K[b])
    BY <1>a, <1>1, NotItsOwn
  <1>3. p = Root \/ p \in Placed(K)
    <2>1. p \in Ids => p \in Placed(K)
      BY <1>a, <1>0
    <2> QED
      BY <1>a, <2>1 DEF Nodes
  <1>6. \A x : x \in Placed(E) <=> \E r \in Nodes : x \in ToSet(E[r])
    BY <1>a, PlacedIn
  <1>7. Placed(E) = Placed(K) \ {b}
    <2>1. ASSUME NEW r \in Nodes, NEW x \in ToSet(E[r]) PROVE x \in Placed(K) \ {b}
      BY <1>a, <1>0, <1>1, <1>2
    <2>2. ASSUME NEW r \in Nodes, NEW x \in ToSet(K[r]), x # b PROVE x \in Placed(E)
      <3>1. CASE r = b
        BY <1>a, <3>1, <2>2, <1>6
      <3>2. CASE r # b
        BY <1>a, <3>2, <2>2, <1>6
      <3> QED
        BY <1>a, <3>1, <3>2
    <2> QED
      BY <1>a, <2>1, <2>2, <1>0, <1>6
  <1>8. ASSUME NEW s \in Nodes, NEW r \in Nodes, NEW x \in Ids, x \in ToSet(E[s]), x \in ToSet(E[r])
        PROVE  s = r
    <2>1. CASE x \in ToSet(K[b])
      BY <1>a, <2>1, <1>8, <1>0, <1>1
    <2>2. CASE x \notin ToSet(K[b])
      <3>1. x \in ToSet(K[s]) /\ x \in ToSet(K[r])
        BY <1>a, <2>2, <1>8
      <3> QED
        BY <1>a, <3>1, <1>0
    <2> QED
      BY <1>a, <2>1, <2>2
  <1>9. ASSUME NEW x \in Ids, x \notin Placed(E) PROVE ToSet(E[x]) = {}
    <2>1. CASE x = b
      BY <1>a, <2>1, <1>1
    <2>2. CASE x # b
      <3>1. x \notin Placed(K)
        BY <1>a, <1>7, <1>9, <2>2
      <3>2. x # p /\ x \in Nodes /\ ToSet(K[x]) = {}
        BY <1>a, <1>0, <1>3, <3>1, RootIsNoBlock
      <3> QED
        BY <1>a, <3>2
    <2> QED
      BY <1>a, <2>1, <2>2
  <1>10. ASSUME NEW S \in SUBSET Ids, \A x \in S : \E r \in S : x \in ToSet(E[r])
         PROVE  S = {}
    <2> DEFINE T == S \cup {x \in {b} : p \in S}
    <2>0. S \subseteq Nodes
      BY <1>a, RootIsNoBlock
    <2>1. ASSUME NEW x \in S PROVE \E q \in T : x \in ToSet(K[q])
      <3>1. PICK r \in S : x \in ToSet(E[r])
        BY <1>a, <1>10
      <3>2. x \in ToSet(K[r]) \/ (r = p /\ x \in ToSet(K[b]))
        BY <1>a, <3>1, <2>0
      <3> QED
        BY <1>a, <3>1, <3>2
    <2>4. T \in SUBSET Ids
      BY <1>a, <1>1
    <2>5. \A x \in T : \E q \in T : x \in ToSet(K[q])
      BY <1>a, <2>1
    <2>6. T = {}
      <3> HIDE DEF T
      <3> QED
        BY <1>a, <2>4, <2>5, NoneInACircle
    <2> QED
      BY <1>a, <2>6
  <1> QED
    <2>1. AllInjective(E) /\ OneParent(E) /\ NothingHangs(E) /\ NoCircle(E)
      BY <1>a, <1>8, <1>9, <1>10 DEF AllInjective, OneParent, NothingHangs, NoCircle
    <2> QED
      BY <1>a, <1>7, <2>1, GoodWhen

\* The blocks D, closed under children, are taken out.
IsTakenOut(E, K, D) ==
    /\ E \in [Nodes -> Seq(Ids)] /\ AllInjective(E)
    /\ \A r \in Nodes : \A x : x \in ToSet(E[r]) <=> x \in ToSet(K[r]) /\ x \notin D

\* Without a block and all that is under it a tree is left.
LEMMA TakenOut ==
    ASSUME NEW K, GoodKids(K), NEW D, Closed(K, D), NEW E, IsTakenOut(E, K, D)
    PROVE  GoodKids(E) /\ Placed(E) = Placed(K) \ D
  <1>a. /\ D \in SUBSET Ids /\ \A x \in D : ToSet(K[x]) \subseteq D
        /\ E \in [Nodes -> Seq(Ids)] /\ \A r \in Nodes : IsInjective(E[r])
        /\ \A r \in Nodes : \A x : x \in ToSet(E[r]) <=> x \in ToSet(K[r]) /\ x \notin D
    BY DEF IsTakenOut, AllInjective, Closed
  <1>0. /\ K \in [Nodes -> Seq(Ids)]
        /\ \A s, r \in Nodes : \A x : x \in ToSet(K[s]) /\ x \in ToSet(K[r]) => s = r
        /\ \A x \in Ids : x \notin Placed(K) => ToSet(K[x]) = {}
        /\ \A x : x \in Placed(K) <=> \E r \in Nodes : x \in ToSet(K[r])
    BY <1>a, GoodHas
  <1>6. \A x : x \in Placed(E) <=> \E r \in Nodes : x \in ToSet(E[r])
    BY <1>a, PlacedIn
  <1>7. Placed(E) = Placed(K) \ D
    <2>1. \A x : x \in Placed(E) <=> x \in Placed(K) \ D
      BY <1>a, <1>0, <1>6
    <2> QED
      BY <1>a, <2>1
  <1>8. \A s, r \in Nodes : \A x \in Ids : x \in ToSet(E[s]) /\ x \in ToSet(E[r]) => s = r
    BY <1>a, <1>0
  <1>9. ASSUME NEW x \in Ids, x \notin Placed(E) PROVE ToSet(E[x]) = {}
    <2>1. x \in Nodes
      BY <1>a, RootIsNoBlock
    <2>2. CASE x \in D
      BY <1>a, <2>1, <2>2
    <2>3. CASE x \notin D
      <3>1. x \notin Placed(K)
        BY <1>a, <1>7, <1>9, <2>3
      <3> QED
        BY <1>a, <3>1, <2>1, <1>0
    <2> QED
      BY <1>a, <2>2, <2>3
  <1>10. ASSUME NEW S \in SUBSET Ids, \A x \in S : \E r \in S : x \in ToSet(E[r])
         PROVE  S = {}
    <2>0. S \subseteq Nodes
      BY <1>a, RootIsNoBlock
    <2>1. \A x \in S : \E r \in S : x \in ToSet(K[r])
      BY <1>a, <2>0, <1>10
    <2> QED
      BY <1>a, <2>1, NoneInACircle
  <1> QED
    <2>1. AllInjective(E) /\ OneParent(E) /\ NothingHangs(E) /\ NoCircle(E)
      BY <1>a, <1>8, <1>9, <1>10 DEF AllInjective, OneParent, NothingHangs, NoCircle
    <2> QED
      BY <1>a, <1>7, <2>1, GoodWhen

-----------------------------------------------------------------------------
\* A list of two blocks.
LEMMA PairSets ==
    ASSUME NEW x \in Ids, NEW y \in Ids, x # y, NEW s, s = <<x, y>>
    PROVE  s \in Seq(Ids) /\ IsInjective(s) /\ ToSet(s) = {x, y}
  <1>1. s \in Seq(Ids) /\ DOMAIN s = {1, 2} /\ s[1] = x /\ s[2] = y
    OBVIOUS
  <1> QED
    BY <1>1 DEF IsInjective, ToSet

\* The empty list.
LEMMA EmptyList == <<>> \in Seq(Ids) /\ IsInjective(<<>>) /\ ToSet(<<>>) = {}
  BY DEF ToSet, IsInjective

\* The parent of a block is Root or a block.
LEMMA ParentPlaced ==
    ASSUME NEW K, GoodKids(K), NEW b \in Placed(K), NEW p, p = Parent(K, b)
    PROVE  /\ p \in Nodes /\ b \in ToSet(K[p]) /\ b \in Ids /\ p # b
           /\ p = Root \/ (p \in Placed(K) /\ p \in Ids)
  <1>0. Apart(K)
    BY DEF GoodKids
  <1>1. p \in Nodes /\ b \in ToSet(K[p]) /\ b \in Ids
    BY <1>0, PlaceOf DEF IsPlace
  <1>2. p \in Ids => p \in Placed(K)
    BY <1>1, GoodHas
  <1>3. p # b
    BY <1>1, NotItsOwn
  <1> QED
    BY <1>1, <1>2, <1>3 DEF Nodes

\* BNCreateBlockBefore and BNCreateBlockAfter.
LEMMA CreatedBeside ==
    ASSUME NEW K, GoodKids(K), NEW b \in Placed(K), NEW n \in Ids, n \notin Placed(K),
           NEW s, s = <<n, b>> \/ s = <<b, n>>, NEW E, E = InPlaceOf(K, b, s)
    PROVE  /\ GoodKids(E) /\ Placed(E) = Placed(K) \cup {n}
           /\ \A q \in Nodes : q # Parent(K, b) => E[q] = K[q]
           /\ b \in ToSet(E[Parent(K, b)]) /\ n \in ToSet(E[Parent(K, b)]) /\ Kept(E, K)
  <1> DEFINE p == Parent(K, b)
             X == ToSet(K[p]) \cup {n}
  <1>0. Apart(K) /\ p \in Nodes /\ b \in ToSet(K[p]) /\ b \in Ids /\ b # n /\ (p = Root \/ p \in Placed(K))
    BY ParentPlaced DEF GoodKids
  <1>1. s \in Seq(Ids) /\ IsInjective(s) /\ ToSet(s) = {b, n}
    BY <1>0, PairSets
  <1>2. n \notin ToSet(K[p])
    BY <1>0, GoodHas
  <1>3. ToSet(s) \cap (ToSet(K[p]) \ {b}) = {} /\ X = ToSet(s) \cup (ToSet(K[p]) \ {b}) /\ p = Parent(K, b)
    BY <1>0, <1>1, <1>2
  <1>4. X = ToSet(K[p]) \cup {n}
    OBVIOUS
  <1> HIDE DEF p, X
  <1>5. Regrouped(E, K, p, X)
    BY <1>0, <1>1, <1>3, InPlaceOfFacts
  <1>6. GoodKids(E) /\ Placed(E) = Placed(K) \cup {n}
    BY <1>0, <1>4, <1>5, LeafAdded
  <1>7. ToSet(E[p]) = X /\ \A q \in Nodes : q # p => E[q] = K[q]
    BY <1>5 DEF Regrouped
  <1>8. Kept(E, K)
    BY <1>5, RegroupedKept
  <1> QED
    BY <1>0, <1>4, <1>6, <1>7, <1>8 DEF p

\* A new first child: insertNested, and Enter in a heading with children.
HasNested(E, K, b, n) == E = [K EXCEPT ![b] = <<n>> \o @]

\* A new first child leaves a tree.
LEMMA NestedFirst ==
    ASSUME NEW K, GoodKids(K), NEW b \in Placed(K), NEW n \in Ids, n \notin Placed(K),
           NEW E, HasNested(E, K, b, n)
    PROVE  GoodKids(E) /\ Placed(E) = Placed(K) \cup {n} /\ Kept(E, K)
  <1> DEFINE a == <<n>> \o K[b]
             X == ToSet(K[b]) \cup {n}
  <1>0. K \in [Nodes -> Seq(Ids)] /\ b \in Nodes /\ K[b] \in Seq(Ids) /\ IsInjective(K[b]) /\ n \notin ToSet(K[b])
    BY GoodHas, RootIsNoBlock
  <1>1. a \in Seq(Ids) /\ IsInjective(a) /\ ToSet(a) = X
    <2>1. a = <<n>> \o K[b]
      OBVIOUS
    <2> HIDE DEF a
    <2>2. a \in Seq(Ids) /\ IsInjective(a) /\ ToSet(a) = {n} \cup ToSet(K[b])
      BY <1>0, <2>1, OneInFront
    <2> QED
      BY <2>2
  <1>2. E = [K EXCEPT ![b] = a] /\ X = ToSet(K[b]) \cup {n}
    BY DEF HasNested
  <1>k. KeptList(a, K[b])
    <2>1. <<n>> \in Seq(Ids)
      OBVIOUS
    <2> QED
      BY <1>0, <2>1, KeptConcat
  <1> HIDE DEF a, X
  <1>3. Regrouped(E, K, b, X)
    BY <1>0, <1>1, <1>2, <1>k DEF Regrouped
  <1>4. b = Root \/ b \in Placed(K)
    OBVIOUS
  <1>5. X = ToSet(K[b]) \cup {n}
    BY <1>2
  <1> QED
    BY ONLY GoodKids(K), n \in Ids, n \notin Placed(K), <1>3, <1>4, <1>5, LeafAdded, RegroupedKept

\* BNSplitBlock.
LEMMA SplitOff ==
    ASSUME NEW K, GoodKids(K), NEW b \in Placed(K), NEW n \in Ids, n \notin Placed(K),
           NEW E, E = [InPlaceOf(K, b, <<b, n>>) EXCEPT ![b] = <<>>, ![n] = K[b]]
    PROVE  GoodKids(E) /\ Placed(E) = Placed(K) \cup {n} /\ Kept(E, K)
  <1> DEFINE F == InPlaceOf(K, b, <<b, n>>)
             p == Parent(K, b)
  <1>0. p \in Nodes /\ b \in Ids /\ p # b /\ b # n /\ (p = Root \/ p \in Placed(K))
    BY ParentPlaced
  <1>1. b \in Nodes /\ n \in Nodes /\ n # p
    BY <1>0, RootIsNoBlock
  <1>2. /\ GoodKids(F) /\ Placed(F) = Placed(K) \cup {n}
        /\ \A q \in Nodes : q # p => F[q] = K[q]
        /\ b \in ToSet(F[p]) /\ n \in ToSet(F[p]) /\ Kept(F, K)
    <2> DEFINE s == <<b, n>>
    <2>1. F = InPlaceOf(K, b, s) /\ s = <<b, n>>
      OBVIOUS
    <2> HIDE DEF F, s
    <2> QED
      BY <2>1, CreatedBeside
  <1>3. E = [F EXCEPT ![b] = <<>>, ![n] = K[b]]
    OBVIOUS
  <1> HIDE DEF F, p
  <1>5. HandsOver(E, F, b, n)
    <2>1. F \in [Nodes -> Seq(Ids)] /\ <<>> \in Seq(Ids) /\ K[b] \in Seq(Ids) /\ K[b] = F[b]
      BY <1>0, <1>1, <1>2, GoodHas
    <2> QED
      BY <1>0, <1>1, <1>3, <2>1 DEF HandsOver
  <1>4. ToSet(F[n]) = {}
    BY <1>1, <1>2, GoodHas
  \* The new block had no children.
  <1>6. Kept(E, K)
    <2> SUFFICES ASSUME NEW r \in Nodes PROVE KeptList(E[r], K[r])
      BY DEF Kept
    <2>1. F \in [Nodes -> Seq(Ids)] /\ K \in [Nodes -> Seq(Ids)] /\ K[n] = <<>>
      BY <1>1, <1>2, GoodHas DEF GoodKids, Rooted
    <2>2. CASE r = n
      <3>1. \A x, y : ~Ahead(K[n], x, y)
        BY <2>1 DEF Ahead
      <3> QED
        BY <2>2, <3>1 DEF KeptList
    <2>3. CASE r = b
      <3>1. E[b] = <<>>
        BY <1>0, <1>1, <1>3, <2>1
      <3> QED
        BY <2>3, <3>1, KeptEmpty
    <2>4. CASE r # n /\ r # b
      <3>1. E[r] = F[r]
        BY <1>3, <2>1, <2>4
      <3> QED
        BY <1>2, <3>1 DEF Kept
    <2> QED
      BY <2>2, <2>3, <2>4
  <1> QED
    BY ONLY <1>0, <1>2, <1>4, <1>5, <1>6, HandedOver

\* No list gets another block than b.
GetsOnly(E, K, b) == \A r \in Nodes : \A x \in ToSet(E[r]) : x \in ToSet(K[r]) \/ x = b

\* sinkListItem.
LEMMA SunkInto ==
    ASSUME NEW K, GoodKids(K), NEW b \in Placed(K), NEW l, l = Left(K, b), l # Root,
           NEW E, E = [InPlaceOf(K, b, <<>>) EXCEPT ![l] = Append(@, b)]
    PROVE  GoodKids(E) /\ Placed(E) = Placed(K) /\ Kept(E, K) /\ GetsOnly(E, K, b)
  <1> DEFINE F == InPlaceOf(K, b, <<>>)
             p == Parent(K, b)
             X == ToSet(K[p]) \ {b}
             s == <<>>
             D == Under(K, b)
             Y == {b}
  <1>0. Apart(K) /\ p \in Nodes /\ b \in ToSet(K[p]) /\ b \in Ids /\ p # b
    BY ParentPlaced DEF GoodKids
  <1>1. l \in ToSet(K[p]) /\ l # b
    BY <1>0, LeftOf
  <1>2. /\ K \in [Nodes -> Seq(Ids)] /\ \A r \in Nodes : IsInjective(K[r])
        /\ l \in Placed(K) /\ l \in Ids /\ l \in Nodes
    BY <1>0, <1>1, GoodHas, RootIsNoBlock
  <1>3. l # p
    BY <1>0, <1>1, NotItsOwn
  <1>4. Regrouped(F, K, p, X)
    <2>1. /\ s \in Seq(Ids) /\ IsInjective(s) /\ ToSet(s) \cap (ToSet(K[p]) \ {b}) = {}
          /\ X = ToSet(s) \cup (ToSet(K[p]) \ {b}) /\ p = Parent(K, b) /\ F = InPlaceOf(K, b, s)
      BY EmptyList
    <2> HIDE DEF F, p, X, s
    <2> QED
      BY <1>0, <2>1, InPlaceOfFacts
  <1>5. X = ToSet(K[p]) \ {b}
    OBVIOUS
  <1> DEFINE a == Append(F[l], b)
  <1>6. E = [F EXCEPT ![l] = a]
    OBVIOUS
  <1> HIDE DEF F, p, X
  <1>7. F \in [Nodes -> Seq(Ids)] /\ F[l] = K[l] /\ IsInjective(F[p]) /\ ToSet(F[p]) = X
        /\ \A q \in Nodes : q # p => F[q] = K[q]
    BY <1>2, <1>3, <1>4 DEF Regrouped
  <1>8. a \in Seq(Ids) /\ IsInjective(a) /\ ToSet(a) = ToSet(K[l]) \cup {b}
    <2> DEFINE one == <<b>>
    <2>1. K[l] \in Seq(Ids) /\ IsInjective(K[l]) /\ one \in Seq(Ids) /\ a = K[l] \o one
      BY <1>0, <1>2, <1>7, AppendIsConcat
    <2>2. IsInjective(one) /\ ToSet(one) = {b}
      BY DEF IsInjective, ToSet
    <2>3. ToSet(K[l]) \cap ToSet(one) = {}
      BY <1>0, <1>2, <1>3, <2>2 DEF Apart
    <2> HIDE DEF a, one
    <2>4. a \in Seq(Ids) /\ IsInjective(a) /\ ToSet(a) = ToSet(K[l]) \cup ToSet(one)
      BY <2>1, <2>2, <2>3, ConcatSets
    <2> QED
      BY <2>2, <2>4
  <1>k. KeptList(a, K[l])
    <2>1. K[l] \in Seq(Ids) /\ <<b>> \in Seq(Ids) /\ a = K[l] \o <<b>>
      BY <1>0, <1>2, <1>7, AppendIsConcat
    <2> HIDE DEF a
    <2> QED
      BY <2>1, KeptConcat
  <1> HIDE DEF a
  <1>9. E \in [Nodes -> Seq(Ids)] /\ E[l] = a /\ \A q \in Nodes : q # l => E[q] = F[q]
    BY <1>2, <1>6, <1>7, <1>8
  <1>10. AllInjective(E)
    <2> SUFFICES ASSUME NEW r \in Nodes PROVE IsInjective(E[r])
      BY DEF AllInjective
    <2>1. CASE r = l
      BY <2>1, <1>8, <1>9
    <2>2. CASE r = p
      BY <2>2, <1>3, <1>7, <1>9
    <2>3. CASE r # p /\ r # l
      BY <2>3, <1>2, <1>7, <1>9
    <2> QED
      BY <2>1, <2>2, <2>3
  <1>11. \A r \in Nodes : \A x : x \in ToSet(E[r]) <=> (x \in ToSet(K[r]) /\ x \notin Y) \/ (r = l /\ x \in Y)
    <2> TAKE r \in Nodes
    <2>0. r # p => b \notin ToSet(K[r])
      BY <1>0, GoodHas
    <2>1. CASE r = l
      BY <2>0, <2>1, <1>3, <1>8, <1>9
    <2>2. CASE r = p
      <3>1. ToSet(E[r]) = ToSet(K[p]) \ {b}
        BY <2>2, <1>3, <1>5, <1>7, <1>9
      <3> QED
        BY <3>1, <2>2, <1>3
    <2>3. CASE r # p /\ r # l
      <3>1. E[r] = K[r]
        BY <2>3, <1>7, <1>9
      <3> QED
        BY <3>1, <2>0, <2>3
    <2> QED
      BY <2>1, <2>2, <2>3
  <1>12. Closed(K, D) /\ b \in D
    BY <1>0, UnderFacts DEF Closed
  <1>13. p \notin D /\ l \notin D
    BY <1>0, <1>1, ParentNotUnder
  <1>14. Y \in SUBSET ToSet(K[p]) /\ Y \subseteq D
    BY <1>0, <1>12
  <1>15. IsMoved(E, K, Y, l)
    BY <1>9, <1>10, <1>11 DEF IsMoved
  <1>16. l = Root \/ l \in Placed(K)
    BY <1>2
  <1>17. Kept(E, K)
    <2>1. Kept(F, K)
      BY <1>4, RegroupedKept
    <2> QED
      BY <1>k, <1>9, <2>1 DEF Kept
  <1>18. GetsOnly(E, K, b)
    BY <1>11 DEF GetsOnly
  <1> HIDE DEF D, Y
  <1> QED
    BY <1>0, <1>12, <1>13, <1>14, <1>15, <1>16, <1>17, <1>18, MovedUnder

\* liftListItem.
HasLifted(E, K, b, p, z) ==
    E = [InPlaceOf(K, p, <<p, b>>) EXCEPT ![p] = SubSeq(@, 1, Index(K, b) - 1), ![b] = @ \o z]

\* The lists that liftListItem leaves are those of a block lifted out.
LEMMA LiftedList ==
    ASSUME NEW K, GoodKids(K), NEW b \in Placed(K), NEW p, p = Parent(K, b), p # Root,
           NEW z, z = Following(K, b), NEW E, HasLifted(E, K, b, p, z)
    PROVE  GoodKids(E) /\ Placed(E) = Placed(K) /\ Kept(E, K)
  <1> DEFINE u == SubSeq(K[p], 1, Index(K, b) - 1)
             g == Parent(K, p)
             s == <<p, b>>
             F == InPlaceOf(K, p, s)
             X == {b} \cup ToSet(K[g])
  <1>0. /\ Apart(K) /\ p \in Nodes /\ b \in ToSet(K[p]) /\ b \in Ids /\ p # b /\ p \in Placed(K) /\ p \in Ids
    BY ParentPlaced DEF GoodKids
  <1>1. g \in Nodes /\ p \in ToSet(K[g]) /\ g # p
    BY <1>0, ParentPlaced
  <1>2. g # b /\ b \in Nodes
    <2>1. p \notin Under(K, b)
      BY <1>0, ParentNotUnder
    <2>2. ToSet(K[b]) \subseteq Under(K, b)
      BY <1>0, UnderFacts
    <2> QED
      BY <2>1, <2>2, <1>0, <1>1, RootIsNoBlock
  <1>3. b \notin ToSet(K[g])
    BY <1>0, <1>1, GoodHas
  <1>4. Regrouped(F, K, g, X)
    <2>1. s \in Seq(Ids) /\ IsInjective(s) /\ ToSet(s) = {p, b}
      BY <1>0, PairSets
    <2>2. /\ ToSet(s) \cap (ToSet(K[g]) \ {p}) = {} /\ X = ToSet(s) \cup (ToSet(K[g]) \ {p})
          /\ g = Parent(K, p) /\ F = InPlaceOf(K, p, s)
      BY <1>1, <1>3, <2>1
    <2> HIDE DEF g, s, F, X
    <2> QED
      BY ONLY <1>0, <2>1, <2>2, InPlaceOfFacts
  <1>5. E = [F EXCEPT ![p] = SubSeq(@, 1, Index(K, b) - 1), ![b] = @ \o z] /\ X = {b} \cup ToSet(K[g])
    BY DEF HasLifted
  <1>u. u = SubSeq(K[p], 1, Index(K, b) - 1)
    OBVIOUS
  <1>w. IsBefore(u, K, p, b)
    BY DEF IsBefore
  <1> HIDE DEF F, g, X, u
  <1>6. /\ F \in [Nodes -> Seq(Ids)] /\ IsInjective(F[g]) /\ ToSet(F[g]) = X
        /\ \A q \in Nodes : q # g => F[q] = K[q]
    BY <1>4 DEF Regrouped
  <1>7. F[p] = K[p] /\ F[b] = K[b] /\ p \in DOMAIN F /\ b \in DOMAIN F
    BY <1>0, <1>1, <1>2, <1>6
  <1>8. /\ u \in Seq(Ids) /\ IsInjective(u) /\ z \in Seq(Ids) /\ IsInjective(z)
        /\ b \notin ToSet(u) /\ b \notin ToSet(z) /\ ToSet(u) \cap ToSet(z) = {}
        /\ ToSet(K[p]) = ToSet(u) \cup {b} \cup ToSet(z)
    BY ONLY b \in Placed(K), p = Parent(K, b), z = Following(K, b), <1>0, <1>w, BeforeAndAfter
  <1> DEFINE a == K[b] \o z
  <1>9. E = [F EXCEPT ![p] = u, ![b] = a]
    BY <1>0, <1>5, <1>7, <1>u
  <1>10. a \in Seq(Ids) /\ IsInjective(a) /\ ToSet(a) = ToSet(K[b]) \cup ToSet(z)
    <2>1. K[b] \in Seq(Ids) /\ IsInjective(K[b]) /\ a = K[b] \o z
      BY <1>2, GoodHas
    <2>2. ToSet(K[b]) \cap ToSet(z) = {}
      <3>1. ToSet(K[b]) \cap ToSet(K[p]) = {}
        BY <1>0, <1>2 DEF Apart
      <3> QED
        BY <3>1, <1>8
    <2> HIDE DEF a
    <2> QED
      BY ONLY <2>1, <2>2, <1>8, ConcatSets
  <1>k. KeptList(a, K[b]) /\ KeptList(u, K[p])
    <2>1. KeptList(a, K[b])
      <3>1. K[b] \in Seq(Ids) /\ z \in Seq(Ids) /\ a = K[b] \o z
        BY <1>2, <1>8, GoodHas
      <3> HIDE DEF a
      <3> QED
        BY ONLY <3>1, KeptConcat
    <2> DEFINE i == Index(K, b)
               m == i - 1
               one == 1
    <2>2. IsPart(u, K[p], one, m) /\ i \in 1..Len(K[p])
      BY <1>0, <1>u, AndFollowing DEF IsPlace
    <2>3. K[p] \in Seq(Ids) /\ IsInjective(K[p]) /\ Len(K[p]) \in Nat
      BY <1>0 DEF Apart
    <2>4. one \in Nat \ {0} /\ m \in Nat /\ one + m <= Len(K[p]) + 1
      BY ONLY <2>2, <2>3
    <2> HIDE DEF i, m, one
    <2>5. KeptList(u, K[p])
      BY ONLY <2>2, <2>3, <2>4, PartOrder
    <2> QED
      BY <2>1, <2>5
  <1> HIDE DEF a
  <1>11. /\ E \in [Nodes -> Seq(Ids)] /\ E[p] = u /\ E[b] = a
         /\ \A q \in Nodes : q # p /\ q # b => E[q] = F[q]
    BY ONLY <1>0, <1>2, <1>6, <1>8, <1>9, <1>10
  <1> DEFINE Z == ToSet(z)
  <1>12. AllInjective(E)
    <2> SUFFICES ASSUME NEW r \in Nodes PROVE IsInjective(E[r])
      BY DEF AllInjective
    <2>1. CASE r = p \/ r = b
      BY <2>1, <1>8, <1>10, <1>11
    <2>2. CASE r = g
      BY <2>2, <1>1, <1>2, <1>6, <1>11
    <2>3. CASE r # p /\ r # g /\ r # b
      <3>1. E[r] = K[r]
        BY <2>3, <1>6, <1>11
      <3> QED
        BY <3>1, GoodHas
    <2> QED
      BY <2>1, <2>2, <2>3
  <1>13. ASSUME NEW r \in Nodes, NEW x
         PROVE  x \in ToSet(E[r]) <=> \/ x \in ToSet(K[r]) /\ x # b /\ x \notin Z
                                      \/ r = g /\ x = b
                                      \/ r = b /\ x \in Z
    <2>0. r # p => ToSet(K[r]) \cap ToSet(K[p]) = {}
      BY <1>0 DEF Apart
    <2>1. CASE r = p
      <3>1. ToSet(E[r]) = ToSet(u)
        BY <2>1, <1>11
      <3> QED
        BY <3>1, <2>1, <1>0, <1>1, <1>8
    <2>2. CASE r = b
      <3>1. ToSet(E[r]) = ToSet(K[b]) \cup Z
        BY <2>2, <1>10, <1>11
      <3>2. b \notin ToSet(K[b])
        BY <1>2, NotItsOwn
      <3> QED
        BY <3>1, <3>2, <2>0, <2>2, <1>0, <1>2, <1>8
    <2>3. CASE r = g
      <3>1. ToSet(E[r]) = {b} \cup ToSet(K[g])
        BY <2>3, <1>1, <1>2, <1>5, <1>6, <1>11
      <3> QED
        BY <3>1, <2>0, <2>3, <1>1, <1>2, <1>8
    <2>4. CASE r # p /\ r # g /\ r # b
      <3>1. E[r] = K[r]
        BY <2>4, <1>6, <1>11
      <3> QED
        BY <3>1, <2>0, <2>4, <1>8
    <2> QED
      BY <2>1, <2>2, <2>3, <2>4
  <1>14. IsLifted(E, K, g, b, Z)
    BY <1>11, <1>12, <1>13 DEF IsLifted
  <1>15. Z \in SUBSET ToSet(K[p]) /\ b \notin Z
    BY <1>8
  <1>16. Kept(E, K)
    <2>1. Kept(F, K)
      BY <1>4, RegroupedKept
    <2> QED
      BY <1>k, <1>11, <2>1 DEF Kept
  <1> HIDE DEF Z
  <1> QED
    BY ONLY GoodKids(K), <1>0, <1>1, <1>14, <1>15, <1>16, LiftedOut

\* What Cut leaves of lists of children.
CutKids(F, gone) == [r \in DOMAIN F |-> IF r \in gone THEN <<>> ELSE F[r]]

\* AppendTo.
LEMMA DissolvedList ==
    ASSUME NEW K, GoodKids(K), NEW b \in Placed(K), NEW s, s = K[b],
           NEW E, E = CutKids(InPlaceOf(K, b, s), {b})
    PROVE  GoodKids(E) /\ Placed(E) = Placed(K) \ {b} /\ Kept(E, K)
  <1> DEFINE p == Parent(K, b)
             F == InPlaceOf(K, b, s)
             X == ToSet(s) \cup (ToSet(K[p]) \ {b})
  <1>0. Apart(K) /\ p \in Nodes /\ b \in ToSet(K[p]) /\ b \in Ids /\ p # b /\ b \in Nodes
    BY ParentPlaced, RootIsNoBlock DEF GoodKids
  <1>1. s \in Seq(Ids) /\ IsInjective(s) /\ ToSet(s) \cap (ToSet(K[p]) \ {b}) = {}
    <2>1. ToSet(K[b]) \cap ToSet(K[p]) = {}
      BY <1>0 DEF Apart
    <2> QED
      BY <2>1, <1>0, GoodHas
  <1>2. Regrouped(F, K, p, X)
    <2>1. p = Parent(K, b) /\ F = InPlaceOf(K, b, s) /\ X = ToSet(s) \cup (ToSet(K[p]) \ {b})
      OBVIOUS
    <2> HIDE DEF p, F, X
    <2> QED
      BY ONLY b \in Placed(K), <1>0, <1>1, <2>1, InPlaceOfFacts
  <1>3. E = CutKids(F, {b}) /\ X = ToSet(s) \cup (ToSet(K[p]) \ {b})
    OBVIOUS
  <1> HIDE DEF p, F, X
  <1>4. /\ F \in [Nodes -> Seq(Ids)] /\ IsInjective(F[p]) /\ ToSet(F[p]) = X
        /\ \A q \in Nodes : q # p => F[q] = K[q]
    BY <1>2 DEF Regrouped
  <1>5. E \in [Nodes -> Seq(Ids)] /\ E[b] = <<>> /\ \A q \in Nodes : q # b => E[q] = F[q]
    BY <1>0, <1>3, <1>4 DEF CutKids
  <1>6. AllInjective(E)
    <2> SUFFICES ASSUME NEW r \in Nodes PROVE IsInjective(E[r])
      BY DEF AllInjective
    <2>1. CASE r = b
      BY <2>1, <1>5, EmptyList
    <2>2. CASE r = p
      BY <2>2, <1>0, <1>4, <1>5
    <2>3. CASE r # p /\ r # b
      BY <2>3, <1>4, <1>5, GoodHas
    <2> QED
      BY <2>1, <2>2, <2>3
  <1>7. ASSUME NEW r \in Nodes, NEW x
        PROVE  x \in ToSet(E[r]) <=> (x \in ToSet(K[r]) /\ x # b /\ r # b) \/ (r = p /\ x \in ToSet(K[b]))
    <2>1. CASE r = b
      BY <2>1, <1>0, <1>5, EmptyList
    <2>2. CASE r = p
      BY <2>2, <1>0, <1>3, <1>4, <1>5
    <2>3. CASE r # p /\ r # b
      <3>1. E[r] = K[r] /\ b \notin ToSet(K[r])
        BY <2>3, <1>0, <1>4, <1>5, GoodHas
      <3> QED
        BY <3>1, <2>3
    <2> QED
      BY <2>1, <2>2, <2>3
  <1>8. IsDissolved(E, K, p, b)
    BY <1>5, <1>6, <1>7 DEF IsDissolved
  <1>9. Kept(E, K)
    <2>1. Kept(F, K)
      BY <1>2, RegroupedKept
    <2> QED
      BY <1>5, <2>1, KeptEmpty DEF Kept
  <1> QED
    BY ONLY GoodKids(K), <1>0, <1>8, <1>9, Dissolved

\* BNDeleteBlock.
LEMMA DeletedList ==
    ASSUME NEW K, GoodKids(K), NEW b \in Placed(K), NEW D, D = Under(K, b),
           NEW E, E = CutKids(InPlaceOf(K, b, <<>>), D)
    PROVE  GoodKids(E) /\ Placed(E) = Placed(K) \ D /\ Kept(E, K)
  <1> DEFINE p == Parent(K, b)
             s == <<>>
             F == InPlaceOf(K, b, s)
             X == ToSet(K[p]) \ {b}
  <1>0. Apart(K) /\ p \in Nodes /\ b \in ToSet(K[p]) /\ b \in Ids /\ p # b
    BY ParentPlaced DEF GoodKids
  <1>1. /\ b \in D /\ D \subseteq Ids /\ \A x \in D : ToSet(K[x]) \subseteq D
        /\ \A x \in D : x = b \/ \E q \in D : x \in ToSet(K[q])
    BY <1>0, UnderFacts
  <1>2. p \notin D
    BY <1>0, ParentNotUnder
  <1>3. Regrouped(F, K, p, X)
    <2>1. s \in Seq(Ids) /\ IsInjective(s) /\ ToSet(s) \cap (ToSet(K[p]) \ {b}) = {}
          /\ p = Parent(K, b) /\ F = InPlaceOf(K, b, s) /\ X = ToSet(s) \cup (ToSet(K[p]) \ {b})
      BY EmptyList
    <2> HIDE DEF p, F, X, s
    <2> QED
      BY ONLY b \in Placed(K), <1>0, <2>1, InPlaceOfFacts
  <1>4. E = CutKids(F, D) /\ X = ToSet(K[p]) \ {b}
    OBVIOUS
  <1> HIDE DEF p, F, X
  <1>5. /\ F \in [Nodes -> Seq(Ids)] /\ IsInjective(F[p]) /\ ToSet(F[p]) = X
        /\ \A q \in Nodes : q # p => F[q] = K[q]
    BY <1>3 DEF Regrouped
  <1>6. /\ E \in [Nodes -> Seq(Ids)] /\ \A q \in D : E[q] = <<>>
        /\ \A q \in Nodes : q \notin D => E[q] = F[q]
    <2>1. D \subseteq Nodes
      BY <1>1, RootIsNoBlock
    <2> QED
      BY <2>1, <1>4, <1>5 DEF CutKids
  \* A block of D other than b has its parent in D.
  <1>7. ASSUME NEW r \in Nodes, r \notin D, NEW x \in ToSet(K[r]), x \in D PROVE x = b /\ r = p
    <2>1. CASE x = b
      BY <2>1, <1>0, GoodHas
    <2>2. CASE x # b
      <3>1. PICK q \in D : x \in ToSet(K[q])
        BY <2>2, <1>1, <1>7
      <3>2. q \in Nodes
        BY <3>1, <1>1, RootIsNoBlock
      <3>3. q = r
        BY <3>1, <3>2, <1>7, GoodHas
      <3> QED
        BY <3>1, <3>3, <1>7
    <2> QED
      BY <2>1, <2>2
  <1>8. AllInjective(E)
    <2> SUFFICES ASSUME NEW r \in Nodes PROVE IsInjective(E[r])
      BY DEF AllInjective
    <2>1. CASE r \in D
      BY <2>1, <1>6, EmptyList
    <2>2. CASE r = p
      BY <2>2, <1>2, <1>5, <1>6
    <2>3. CASE r # p /\ r \notin D
      BY <2>3, <1>5, <1>6, GoodHas
    <2> QED
      BY <2>1, <2>2, <2>3
  <1>9. ASSUME NEW r \in Nodes, NEW x
        PROVE  x \in ToSet(E[r]) <=> x \in ToSet(K[r]) /\ x \notin D
    <2>1. CASE r \in D
      <3>1. ToSet(E[r]) = {}
        BY <2>1, <1>6, EmptyList
      <3> QED
        BY <3>1, <2>1, <1>1
    <2>2. CASE r = p
      <3>1. ToSet(E[r]) = ToSet(K[p]) \ {b}
        BY <2>2, <1>2, <1>4, <1>5, <1>6
      <3> QED
        BY <3>1, <2>2, <1>1, <1>2, <1>7
    <2>3. CASE r # p /\ r \notin D
      <3>1. E[r] = K[r]
        BY <2>3, <1>5, <1>6
      <3> QED
        BY <3>1, <2>3, <1>7
    <2> QED
      BY <2>1, <2>2, <2>3
  <1>10. IsTakenOut(E, K, D) /\ Closed(K, D)
    BY <1>1, <1>6, <1>8, <1>9 DEF IsTakenOut, Closed
  <1>11. Kept(E, K)
    <2>1. Kept(F, K)
      BY <1>3, RegroupedKept
    <2> QED
      BY <1>6, <2>1, KeptEmpty DEF Kept
  <1> QED
    BY ONLY GoodKids(K), <1>10, <1>11, TakenOut

\* The blocks that are dragged are adjacent siblings.
Dragged(K, b, c) == <<b>> \o SubSeq(Following(K, b), 1, Index(K, c) - Index(K, b))

\* The dragged blocks are adjacent siblings, from b to c.
LEMMA DraggedFacts ==
    ASSUME NEW K, Apart(K), NEW b \in Placed(K), NEW c, c = b \/ c \in ToSet(Following(K, b)),
           NEW p, p = Parent(K, b), NEW i, i = Index(K, b), NEW m, m = Index(K, c) - i + 1,
           NEW s, s = Dragged(K, b, c)
    PROVE  m \in Nat \ {0} /\ i \in Nat \ {0} /\ i + m <= Len(K[p]) + 1 /\ IsPart(s, K[p], i, m)
  <1> DEFINE t == K[p]
             n == Len(t) - i
             x == i + 1
             z == Following(K, b)
             d == Index(K, c) - i
             h == SubSeq(z, 1, d)
  <1>1. /\ IsPart(z, t, x, n) /\ t \in Seq(Ids) /\ IsInjective(t)
        /\ x \in Nat \ {0} /\ n \in Nat /\ x + n <= Len(t) + 1
        /\ IsPlace(K, b, p, i) /\ i \in Nat \ {0} /\ Len(t) \in Nat
    BY AndFollowing
  <1>2. i \in 1..Len(t) /\ t[i] = b /\ DOMAIN t = 1..Len(t) /\ p \in Nodes
    BY <1>1 DEF IsPlace
  <1>3. z \in Seq(Ids) /\ HoldsPart(z, t, x, n)
    <2> HIDE DEF t, x, n, z
    <2> QED
      BY <1>1, PartOf
  <1>a. /\ i \in Nat /\ i >= 1 /\ i <= Len(t) /\ Len(t) \in Nat /\ n = Len(t) - i /\ x = i + 1
        /\ d = Index(K, c) - i
    BY <1>1, <1>2
  <1> HIDE DEF t, n, x, d
  <1>4. d \in 0..n
    <2>1. CASE c = b
      <3>1. Index(K, c) = i
        BY <2>1
      <3> QED
        BY ONLY <3>1, <1>a
    <2>2. CASE c \in ToSet(z)
      <3>1. PICK j \in x..(x + n - 1) : c = t[j]
        BY <1>3, <2>2 DEF HoldsPart
      <3>2. j \in 1..Len(t) /\ j > i
        BY ONLY <1>a, <3>1
      <3>3. c \in ToSet(K[p])
        BY <3>1, <3>2, <1>2 DEF ToSet, t
      <3>4. c \in Placed(K)
        BY <3>3, <1>2, PlacedIn DEF Apart
      <3>5. Parent(K, c) = p
        BY <3>3, <3>4, <1>2, PlaceOf
      <3>6. j = Index(K, c)
        BY <3>1, <3>2, <3>4, <3>5, <1>2, PlaceOf DEF t
      <3> QED
        BY ONLY <3>2, <3>6, <1>a
    <2> QED
      BY <2>1, <2>2
  <1>5. m = d + 1 /\ m \in Nat \ {0} /\ i + m <= Len(t) + 1
    BY <1>a, <1>4
  <1>6. Len(z) = n /\ \A j \in 1..n : z[j] = t[x + j - 1]
    BY <1>1 DEF IsPart
  <1>7. h \in Seq(Ids) /\ Len(h) = d /\ \A j \in 1..d : h[j] = z[j]
    <2> HIDE DEF z, d, t, n, x
    <2> QED
      BY <1>3, <1>4, <1>6
  <1>8. b \in Ids
    BY <1>1, <1>2
  <1> DEFINE one == <<b>>
  <1>9. s = one \o h
    BY DEF Dragged, d
  <1> HIDE DEF h, z
  <1>10. one \in Seq(Ids) /\ Len(one) = 1 /\ one[1] = b
    BY <1>8
  <1> HIDE DEF one
  <1>11. s \in Seq(Ids) /\ IsConcat(s, one, h)
    BY <1>7, <1>9, <1>10, ConcatFacts
  <1>12. Len(s) = 1 + d /\ s[1] = b /\ \A j \in 1..d : s[1 + j] = h[j]
    BY <1>7, <1>10, <1>11 DEF IsConcat
  <1>13. ASSUME NEW j \in 1..m PROVE s[j] = t[i + j - 1]
    <2>1. CASE j = 1
      BY <2>1, <1>a, <1>2, <1>12
    <2>2. CASE j # 1
      <3>1. j - 1 \in 1..d /\ 1 + (j - 1) = j /\ j - 1 \in 1..n /\ x + (j - 1) - 1 = i + j - 1
        BY ONLY j \in 1..m, <2>2, <1>a, <1>4, <1>5
      <3>2. s[j] = h[j - 1] /\ h[j - 1] = z[j - 1] /\ z[j - 1] = t[x + (j - 1) - 1]
        BY <3>1, <1>6, <1>7, <1>12
      <3> QED
        BY <3>1, <3>2
    <2> QED
      BY <2>1, <2>2
  <1>14. IsPart(s, t, i, m)
    BY <1>5, <1>11, <1>12, <1>13, <1>4 DEF IsPart
  <1> QED
    BY <1>1, <1>5, <1>14 DEF t

\* Everything that is dragged along.
Inside(K, s) == UNION {Under(K, x) : x \in ToSet(s)}

\* The dragged blocks and all that is under them are closed under children.
LEMMA InsideFacts ==
    ASSUME NEW K, GoodKids(K), NEW p \in Nodes, NEW s, ToSet(s) \subseteq ToSet(K[p]), NEW D, D = Inside(K, s)
    PROVE  Closed(K, D) /\ ToSet(s) \subseteq D /\ p \notin D
  <1>0. ToSet(s) \subseteq Ids
    BY GoodHas
  <1>1. \A x : x \in D <=> \E y \in ToSet(s) : x \in Under(K, y)
    BY DEF Inside
  <1>2. D \subseteq Ids
    BY <1>0, <1>1, UnderFacts
  <1>3. \A x \in D : ToSet(K[x]) \subseteq D
    <2> TAKE x \in D
    <2>1. PICK y \in ToSet(s) : x \in Under(K, y)
      BY <1>1
    <2>2. ToSet(K[x]) \subseteq Under(K, y)
      BY <1>0, <2>1, UnderFacts
    <2> QED
      BY <2>1, <2>2, <1>1
  <1>4. ToSet(s) \subseteq D
    BY <1>0, <1>1, UnderFacts
  <1>5. p \notin D
    BY <1>1, ParentNotUnder
  <1> QED
    BY <1>2, <1>3, <1>4, <1>5 DEF Closed

\* dropBlocks.
LEMMA DroppedList ==
    ASSUME NEW K, GoodKids(K), NEW b \in Placed(K), NEW c, c = b \/ c \in ToSet(Following(K, b)),
           NEW s, s = Dragged(K, b, c), NEW p, p = Root \/ p \in Placed(K),
           NEW l, l = Root \/ l \in ToSet(K[p]), p \notin Inside(K, s), l \notin Inside(K, s),
           NEW F, F = [K EXCEPT ![Parent(K, b)] = ReplaceSubSeqAt(Index(K, b), <<>>, s, @)],
           NEW E, E = Behind(F, p, l, s)
    PROVE  GoodKids(E) /\ Placed(E) = Placed(K)
  <1> DEFINE o == Parent(K, b)
             i == Index(K, b)
             m == Index(K, c) - i + 1
             t == K[o]
             none == <<>>
             w == ReplaceSubSeqAt(i, none, s, t)
             X == ToSet(s)
             D == Inside(K, s)
  <1>0. Apart(K) /\ o \in Nodes /\ b \in ToSet(t)
    BY ParentPlaced DEF GoodKids
  <1>1. m \in Nat \ {0} /\ i \in Nat \ {0} /\ i + m <= Len(t) + 1 /\ IsPart(s, t, i, m)
    <2>1. o = Parent(K, b) /\ i = Index(K, b) /\ m = Index(K, c) - i + 1
      OBVIOUS
    <2> HIDE DEF o, i, m
    <2> QED
      BY ONLY b \in Placed(K), c = b \/ c \in ToSet(Following(K, b)), s = Dragged(K, b, c),
              <1>0, <2>1, DraggedFacts
  <1>2. F = [K EXCEPT ![o] = w] /\ w = ReplaceSubSeqAt(i, none, s, t) /\ none = <<>> /\ t = K[o] /\ X = ToSet(s)
    OBVIOUS
  <1>3. t \in Seq(Ids) /\ IsInjective(t) /\ p \in Nodes /\ K \in [Nodes -> Seq(Ids)] /\ \A r \in Nodes : IsInjective(K[r])
    BY <1>0, GoodHas, RootIsNoBlock
  <1> HIDE DEF o, i, m, t, none, w, X
  <1>4. s \in Seq(Ids) /\ IsInjective(s) /\ IsStretch(X, t, i, m) /\ HoldsPart(s, t, i, m)
    <2>1. IsStretch(ToSet(s), t, i, m)
      BY ONLY <1>1, <1>3, PartOf
    <2> QED
      BY ONLY <1>1, <1>2, <1>3, <2>1, PartOf
  <1>5. X \subseteq ToSet(t)
    <2>1. \A j \in i..(i + m - 1) : j \in DOMAIN t
      BY <1>1, <1>3
    <2> QED
      BY <1>2, <1>4, <2>1 DEF HoldsPart, ToSet
  <1>6. w \in Seq(Ids) /\ IsInjective(w) /\ ToSet(w) = ToSet(t) \ X
    <2>1. Len(s) = m /\ m \in Nat
      BY <1>1 DEF IsPart
    <2>2. none \in Seq(Ids) /\ IsInjective(none) /\ ToSet(none) = {}
      BY <1>2, EmptyList
    <2>3. ToSet(none) \cap (ToSet(t) \ X) = {}
      BY <2>2
    <2>4. w = ReplaceSubSeqAt(i, none, s, t)
      BY <1>2
    <2>5. w \in Seq(Ids) /\ IsInjective(w) /\ ToSet(w) = ToSet(none) \cup (ToSet(t) \ X)
      BY ONLY <1>1, <1>3, <1>4, <2>1, <2>2, <2>3, <2>4, ReplaceSets
    <2> QED
      BY <2>2, <2>5
  <1>7. /\ F \in [Nodes -> Seq(Ids)] /\ F[o] = w /\ \A r \in Nodes : r # o => F[r] = K[r]
    BY ONLY <1>0, <1>2, <1>3, <1>6
  <1>8. ASSUME NEW r \in Nodes PROVE ToSet(F[r]) = ToSet(K[r]) \ X /\ IsInjective(F[r])
    <2>1. CASE r = o
      BY <2>1, <1>2, <1>6, <1>7
    <2>2. CASE r # o
      <3>1. ToSet(K[r]) \cap ToSet(t) = {}
        BY <2>2, <1>0, <1>2 DEF Apart
      <3> QED
        BY <3>1, <2>2, <1>3, <1>5, <1>7
    <2> QED
      BY <2>1, <2>2
  <1>9. Apart(F)
    <2>1. ASSUME NEW r \in Nodes, NEW q \in Nodes, r # q PROVE ToSet(F[r]) \cap ToSet(F[q]) = {}
      BY <2>1, <1>0, <1>8 DEF Apart
    <2> QED
      BY <2>1, <1>7, <1>8 DEF Apart
  <1>10. Closed(K, D) /\ X \subseteq D /\ o \notin D
    <2>1. D = Inside(K, s) /\ ToSet(s) \subseteq ToSet(K[o])
      BY <1>2, <1>5
    <2> HIDE DEF D
    <2> QED
      BY <2>1, <1>0, <1>2, InsideFacts
  <1>11. l = Root \/ l \in ToSet(F[p])
    BY <1>3, <1>8, <1>10
  <1>12. p \notin D
    OBVIOUS
  <1> DEFINE Y == ToSet(s) \cup ToSet(F[p])
  <1>13. Regrouped(E, F, p, Y)
    <2>1. Y = ToSet(s) \cup ToSet(F[p]) /\ ToSet(s) \cap ToSet(F[p]) = {}
      BY <1>2, <1>3, <1>8
    <2> HIDE DEF Y
    <2> QED
      BY ONLY E = Behind(F, p, l, s), <1>3, <1>4, <1>9, <1>11, <2>1, BehindFacts
  <1>14. /\ E \in [Nodes -> Seq(Ids)] /\ IsInjective(E[p]) /\ ToSet(E[p]) = X \cup ToSet(F[p])
         /\ \A q \in Nodes : q # p => E[q] = F[q]
    BY <1>2, <1>13 DEF Regrouped
  <1>15. AllInjective(E)
    BY <1>8, <1>14 DEF AllInjective
  <1>16. ASSUME NEW r \in Nodes, NEW x
         PROVE  x \in ToSet(E[r]) <=> (x \in ToSet(K[r]) /\ x \notin X) \/ (r = p /\ x \in X)
    <2>1. CASE r = p
      BY <2>1, <1>3, <1>8, <1>14
    <2>2. CASE r # p
      BY <2>2, <1>8, <1>14
    <2> QED
      BY <2>1, <2>2
  <1>17. IsMoved(E, K, X, p)
    BY <1>14, <1>15, <1>16 DEF IsMoved
  <1>18. X \in SUBSET ToSet(K[o])
    BY <1>2, <1>5
  <1> HIDE DEF D
  <1> QED
    BY ONLY GoodKids(K), p = Root \/ p \in Placed(K), <1>0, <1>10, <1>12, <1>17, <1>18, MovedUnder

\* From last child to last child.
LastStep(K, c) == IF K[c] = <<>> THEN c ELSE Last(K[c])

\* From last child to last child one stays among the blocks.
LEMMA LastBelowIn ==
    ASSUME NEW K, GoodKids(K), NEW c \in Ids
    PROVE  LastBelow(K, c) \in Under(K, c)
  <1> DEFINE n == MaxBlocks
             D == Under(K, c)
             Is(f) == f = [k \in 0..n |-> IF k = 0 THEN c ELSE LastStep(K, f[k - 1])]
             G == [k \in 1..n |-> [x \in D |-> LastStep(K, x)]]
             F == CHOOSE f : Is(f)
  <1>0. n \in Nat /\ 0 \in 0..n /\ n \in 0..n
    BY BlocksAssumption
  <1>a. c \in D /\ D \subseteq Ids /\ \A x \in D : ToSet(K[x]) \subseteq D
    BY UnderFacts
  <1> HIDE DEF D
  <1>1. ASSUME NEW x \in D PROVE LastStep(K, x) \in D
    <2>1. K[x] \in Seq(Ids) /\ DOMAIN K[x] = 1..Len(K[x]) /\ Len(K[x]) \in Nat
      BY <1>a, GoodHas, RootIsNoBlock
    <2>2. CASE K[x] = <<>>
      BY <2>2 DEF LastStep
    <2>3. CASE K[x] # <<>>
      <3>1. Len(K[x]) \in DOMAIN K[x]
        BY <2>1, <2>3, EmptySeq
      <3>2. Last(K[x]) \in ToSet(K[x])
        BY <3>1 DEF Last, ToSet
      <3> QED
        BY <3>2, <2>3, <1>a DEF LastStep
    <2> QED
      BY <2>2, <2>3
  <1>2. G \in [1..n -> [D -> D]]
    BY <1>1
  <1>3. PICK f : IsLoop(f, D, c, G, n)
    <2> HIDE DEF n, G
    <2> QED
      BY <1>0, <1>a, <1>2, LoopExists
  <1>4. f \in [0..n -> D] /\ f[0] = c /\ \A k \in 1..n : f[k] = G[k][f[k - 1]]
    BY <1>3 DEF IsLoop
  <1>5. ASSUME NEW k \in 0..n PROVE f[k] = IF k = 0 THEN c ELSE LastStep(K, f[k - 1])
    <2>1. CASE k = 0
      BY <1>4, <2>1
    <2>2. CASE k # 0
      <3>1. k \in 1..n /\ k - 1 \in 0..n
        BY <1>0, <2>2
      <3>2. f[k - 1] \in D
        BY <1>4, <3>1
      <3>3. G[k][f[k - 1]] = LastStep(K, f[k - 1])
        BY <3>1, <3>2
      <3> HIDE DEF G
      <3> QED
        BY <1>4, <3>1, <3>3, <2>2
    <2> QED
      BY <2>1, <2>2
  <1>6. Is(f)
    BY <1>4, <1>5
  <1>7. Is(F)
    BY <1>6
  <1> HIDE DEF G
  <1>8. LastBelow(K, c) = F[n]
    BY DEF LastBelow, LastStep
  <1> HIDE DEF F
  <1>9. F[0] = c /\ \A k \in 1..n : F[k] = LastStep(K, F[k - 1])
    BY <1>0, <1>7
  <1>10. \A k \in 0..n : F[k] \in D
    <2> DEFINE B == {k \in 0..n : F[k] \notin D}
    <2> SUFFICES ASSUME B # {} PROVE FALSE
      OBVIOUS
    <2>1. PICK k \in B : k = 0 \/ (k \in 1..n /\ k - 1 \in 0..n /\ k - 1 \notin B)
      BY <1>0, LeastIndex
    <2>2. k # 0
      BY <1>a, <1>9, <2>1
    <2>3. F[k - 1] \in D /\ k \in 1..n
      BY <2>1, <2>2
    <2> QED
      BY <1>1, <1>9, <2>1, <2>3
  <1> QED
    BY <1>0, <1>8, <1>10 DEF D

-----------------------------------------------------------------------------
\* The documents, with the tree told by its sets.
GoodDoc(d) ==
    /\ d \in Documents /\ GoodKids(d.kids) /\ Blocks(d) # {}
    /\ \A b \in Ids \ Blocks(d) : d.words[b] = <<>> /\ b \notin d.headings

\* The documents of the proofs are the documents of the model ...
LEMMA GoodIsDocument == ASSUME NEW d, GoodDoc(d) PROVE IsDocument(d)
  <1>1. IsTree(d.kids)
    BY GoodIsTree DEF GoodDoc
  <1>2. d.kids[Root] # <<>>
    BY RootHasKids DEF GoodDoc, Blocks
  <1> QED
    BY <1>1, <1>2 DEF GoodDoc, IsDocument

\* ... and the other way round.
LEMMA DocumentIsGood == ASSUME NEW d, IsDocument(d) PROVE GoodDoc(d)
  <1>0. d \in Documents /\ d.kids \in [Nodes -> Seq(Ids)] /\ d.kids[Root] \in Seq(Ids)
    BY RootIsNoBlock DEF IsDocument, Documents
  <1>1. GoodKids(d.kids)
    BY <1>0, TreeIsGood DEF IsDocument
  <1>2. Blocks(d) # {}
    <2>1. ToSet(d.kids[Root]) # {}
      BY <1>0, ToSetEmpty DEF IsDocument
    <2> QED
      BY <2>1, <1>0, PlacedIn, RootIsNoBlock DEF Blocks
  <1> QED
    BY <1>0, <1>1, <1>2 DEF GoodDoc, IsDocument

\* What an edit of d may leave: a document, with no other new block than n ...
Shows(e, d, n) == GoodDoc(e) /\ Blocks(e) \subseteq Blocks(d) \cup {n}

\* ... and, but for a drag, with the children that stay in their order.
Edited(e, d, n) == Shows(e, d, n) /\ Kept(e.kids, d.kids)

\* To leave the document as it is is an edit too.
LEMMA Unedited == ASSUME NEW d, GoodDoc(d), NEW n PROVE Edited(d, d, n)
  BY KeptSelf DEF Edited, Shows, Kept

\* The parts of a document.
LEMMA DocFacts ==
    ASSUME NEW d, GoodDoc(d)
    PROVE  /\ d = [kids |-> d.kids, words |-> d.words, headings |-> d.headings]
           /\ d.kids \in [Nodes -> Seq(Ids)] /\ d.words \in [Ids -> Seq(Nat)] /\ d.headings \in SUBSET Ids
           /\ GoodKids(d.kids) /\ Blocks(d) = Placed(d.kids) /\ Blocks(d) # {} /\ Blocks(d) \subseteq Ids
           /\ \A b \in Ids \ Blocks(d) : d.words[b] = <<>> /\ b \notin d.headings
  <1>1. d \in Documents /\ GoodKids(d.kids) /\ Blocks(d) = Placed(d.kids) /\ Blocks(d) # {}
    BY DEF GoodDoc, Blocks
  <1>2. Blocks(d) \subseteq Ids
    BY <1>1, GoodHas
  <1> QED
    BY <1>1, <1>2 DEF Documents, GoodDoc

\* Blocks outside the tree have no words and are no headings.
NothingOutside(K, W, H) == \A b \in Ids : b \notin Placed(K) => W[b] = <<>> /\ b \notin H

IsMade(e, K, W, H) == e = [kids |-> K, words |-> W, headings |-> H]

MayPlace(K, d, n) == Placed(K) # {} /\ Placed(K) \subseteq Placed(d.kids) \cup {n}

\* A document made of a tree, words and headings.
LEMMA DocMade ==
    ASSUME NEW d, GoodDoc(d), NEW K, GoodKids(K), NEW W \in [Ids -> Seq(Nat)], NEW H \in SUBSET Ids,
           NEW n, MayPlace(K, d, n),
           NothingOutside(K, W, H), NEW e, IsMade(e, K, W, H)
    PROVE  Shows(e, d, n) /\ e.kids = K /\ Blocks(e) = Placed(K) /\ (Kept(K, d.kids) => Edited(e, d, n))
  <1>0. K \in [Nodes -> Seq(Ids)]
    BY GoodHas
  <1>1. e \in Documents /\ e.kids = K /\ e.words = W /\ e.headings = H
    BY <1>0 DEF Documents, IsMade
  <1>2. Blocks(e) = Placed(K) /\ Blocks(d) = Placed(d.kids)
    BY <1>1 DEF Blocks
  <1> QED
    BY <1>1, <1>2 DEF GoodDoc, Shows, Edited, NothingOutside, MayPlace

\* Another tree, with the blocks there were and maybe n.
LEMMA KidsMade ==
    ASSUME NEW d, GoodDoc(d), NEW K, GoodKids(K), NEW n,
           Placed(K) = Placed(d.kids) \/ Placed(K) = Placed(d.kids) \cup {n},
           NEW e, e = [d EXCEPT !.kids = K]
    PROVE  Shows(e, d, n) /\ e.kids = K /\ Blocks(e) = Placed(K) /\ (Kept(K, d.kids) => Edited(e, d, n))
  <1> DEFINE W == d.words
             H == d.headings
  <1>1. d = [kids |-> d.kids, words |-> W, headings |-> H] /\ W \in [Ids -> Seq(Nat)] /\ H \in SUBSET Ids
    BY DocFacts
  <1>2. IsMade(e, K, W, H)
    BY <1>1 DEF IsMade
  <1>3. MayPlace(K, d, n)
    BY DocFacts DEF MayPlace
  <1>4. NothingOutside(K, W, H)
    BY DocFacts DEF NothingOutside
  <1>5. W \in [Ids -> Seq(Nat)] /\ H \in SUBSET Ids
    BY <1>1
  <1> HIDE DEF W, H
  <1> QED
    BY ONLY GoodDoc(d), GoodKids(K), <1>2, <1>3, <1>4, <1>5, DocMade

\* BNCreateBlockBefore and BNCreateBlockAfter leave a document.
LEMMA CreatesBlock ==
    ASSUME NEW d, GoodDoc(d), NEW b \in Blocks(d), NEW n \in Ids, n \notin Blocks(d)
    PROVE  Edited(BNCreateBlockBefore(d, b, n), d, n) /\ Edited(BNCreateBlockAfter(d, b, n), d, n)
  <1> DEFINE K == d.kids
  <1>0. GoodKids(K) /\ b \in Placed(K) /\ n \notin Placed(K) /\ K = d.kids
    BY DocFacts
  <1>1. ASSUME NEW s, s = <<n, b>> \/ s = <<b, n>> PROVE Edited([d EXCEPT !.kids = InPlaceOf(@, b, s)], d, n)
    <2> DEFINE E == InPlaceOf(K, b, s)
               e == [d EXCEPT !.kids = InPlaceOf(@, b, s)]
    <2>1. e = [d EXCEPT !.kids = E]
      OBVIOUS
    <2>2. E = InPlaceOf(K, b, s)
      OBVIOUS
    <2> HIDE DEF K, E, e
    <2>3. GoodKids(E) /\ Placed(E) = Placed(K) \cup {n} /\ Kept(E, K)
      BY <1>0, <1>1, <2>2, CreatedBeside
    <2>4. Edited(e, d, n)
      BY <1>0, <2>1, <2>3, KidsMade
    <2> QED
      BY <2>4 DEF e
  <1> QED
    BY <1>1 DEF BNCreateBlockBefore, BNCreateBlockAfter

\* A new first child leaves a document.
LEMMA InsertsNested ==
    ASSUME NEW d, GoodDoc(d), NEW b \in Blocks(d), NEW n \in Ids, n \notin Blocks(d),
           NEW e, e = [d EXCEPT !.kids[b] = <<n>> \o @]
    PROVE  Edited(e, d, n)
  <1> DEFINE K == d.kids
             E == [K EXCEPT ![b] = <<n>> \o @]
  <1>0. GoodKids(K) /\ b \in Placed(K) /\ n \notin Placed(K) /\ K = d.kids /\ HasNested(E, K, b, n)
    BY DocFacts DEF HasNested
  <1>1. e = [d EXCEPT !.kids = E]
    OBVIOUS
  <1> HIDE DEF K, E
  <1>2. GoodKids(E) /\ Placed(E) = Placed(K) \cup {n} /\ Kept(E, K)
    BY <1>0, NestedFirst
  <1> QED
    BY <1>0, <1>1, <1>2, KidsMade

\* Words and headings change inside the tree only.
LEMMA TextMade ==
    ASSUME NEW d, GoodDoc(d), NEW n, NEW W \in [Ids -> Seq(Nat)], NEW H \in SUBSET Ids,
           \A x \in Ids : x \notin Blocks(d) => W[x] = d.words[x] /\ (x \in H <=> x \in d.headings),
           NEW e, IsMade(e, d.kids, W, H)
    PROVE  Edited(e, d, n)
  <1> DEFINE K == d.kids
  <1>1. GoodKids(K) /\ MayPlace(K, d, n) /\ IsMade(e, K, W, H)
    BY DocFacts DEF MayPlace
  <1>2. NothingOutside(K, W, H)
    BY DocFacts DEF NothingOutside
  <1>3. Kept(K, d.kids)
    BY KeptSelf DEF Kept
  <1> HIDE DEF K
  <1> QED
    BY <1>1, <1>2, <1>3, DocMade

\* BNUpdateBlock leaves a document.
LEMMA UpdatesBlock ==
    ASSUME NEW d, GoodDoc(d), NEW b \in Blocks(d), NEW h \in BOOLEAN, NEW n
    PROVE  Edited(BNUpdateBlock(d, b, h), d, n)
  <1> DEFINE e == BNUpdateBlock(d, b, h)
             W == d.words
             H == IF h THEN d.headings \cup {b} ELSE d.headings \ {b}
  <1>0. d = [kids |-> d.kids, words |-> d.words, headings |-> d.headings] /\ b \in Ids
    BY DocFacts
  <1>1. IsMade(e, d.kids, W, H)
    BY <1>0 DEF IsMade, BNUpdateBlock
  <1>2. W \in [Ids -> Seq(Nat)] /\ H \in SUBSET Ids
    BY DocFacts
  <1>3. \A x \in Ids : x \notin Blocks(d) => W[x] = d.words[x] /\ (x \in H <=> x \in d.headings)
    OBVIOUS
  <1> HIDE DEF e, W, H
  <1>4. Edited(e, d, n)
    BY <1>1, <1>2, <1>3, TextMade
  <1> QED
    BY <1>4 DEF e

\* Typing leaves a document.
LEMMA Types ==
    ASSUME NEW d, GoodDoc(d), NEW b \in Blocks(d), NEW w \in Nat, NEW n
    PROVE  Edited([d EXCEPT !.words[b] = Append(@, w)], d, n)
  <1> DEFINE e == [d EXCEPT !.words[b] = Append(@, w)]
             W == [d.words EXCEPT ![b] = Append(@, w)]
             H == d.headings
  <1>0. d = [kids |-> d.kids, words |-> d.words, headings |-> d.headings] /\ b \in Ids
    BY DocFacts
  <1>1. IsMade(e, d.kids, W, H)
    <2>1. e = [d EXCEPT !.words = W]
      OBVIOUS
    <2> HIDE DEF e, W
    <2> QED
      BY <1>0, <2>1 DEF IsMade
  <1>2. W \in [Ids -> Seq(Nat)] /\ H \in SUBSET Ids
    <2>1. d.words \in [Ids -> Seq(Nat)] /\ H \in SUBSET Ids
      BY DocFacts
    <2>2. Append(d.words[b], w) \in Seq(Nat)
      BY <2>1, <1>0
    <2> QED
      BY <2>1, <2>2, <1>0
  <1>3. \A x \in Ids : x \notin Blocks(d) => W[x] = d.words[x] /\ (x \in H <=> x \in d.headings)
    BY DocFacts
  <1> HIDE DEF e, W, H
  <1>4. Edited(e, d, n)
    BY <1>1, <1>2, <1>3, TextMade
  <1> QED
    BY <1>4 DEF e

\* What Cut leaves of a document.
LEMMA CutMade ==
    ASSUME NEW d, NEW K, NEW W, NEW H, IsMade(d, K, W, H), NEW gone
    PROVE  IsMade(Cut(d, gone), CutKids(K, gone), [x \in Ids |-> IF x \in gone THEN <<>> ELSE W[x]], H \ gone)
  BY DEF IsMade, Cut, CutKids

\* BNDeleteBlock removes what is under the block; if anything is left it is
\* a document.
LEMMA DeletesBlock ==
    ASSUME NEW d, GoodDoc(d), NEW b \in Blocks(d), NEW n
    PROVE  /\ Blocks(BNDeleteBlock(d, b)) = Blocks(d) \ Under(d.kids, b)
           /\ Blocks(BNDeleteBlock(d, b)) # {} => Edited(BNDeleteBlock(d, b), d, n)
  <1> DEFINE K == d.kids
             D == Under(K, b)
             F == InPlaceOf(K, b, <<>>)
             c == [d EXCEPT !.kids = InPlaceOf(@, b, <<>>)]
             e == BNDeleteBlock(d, b)
             E == CutKids(F, D)
             W == [x \in Ids |-> IF x \in D THEN <<>> ELSE d.words[x]]
             H == d.headings \ D
  <1>0. /\ d = [kids |-> K, words |-> d.words, headings |-> d.headings]
        /\ GoodKids(K) /\ Blocks(d) = Placed(K) /\ d.words \in [Ids -> Seq(Nat)] /\ d.headings \in SUBSET Ids
    BY DocFacts
  <1>1. e = Cut(c, D)
    BY DEF BNDeleteBlock, Under
  <1>2. IsMade(c, F, d.words, d.headings)
    BY <1>0 DEF IsMade
  <1>3. IsMade(e, E, W, H)
    <2> DEFINE V == d.words
               G == d.headings
    <2> HIDE DEF F, c, e, D, V, G
    <2>1. IsMade(Cut(c, D), CutKids(F, D), [x \in Ids |-> IF x \in D THEN <<>> ELSE V[x]], G \ D)
      BY <1>2, CutMade DEF V, G
    <2> QED
      BY <1>1, <2>1 DEF V, G
  <1>4. GoodKids(E) /\ Placed(E) = Placed(K) \ D /\ Kept(E, K)
    <2>1. E = CutKids(InPlaceOf(K, b, <<>>), D) /\ D = Under(K, b) /\ b \in Placed(K)
      BY <1>0
    <2> HIDE DEF E, D, K, F
    <2> QED
      BY <1>0, <2>1, DeletedList
  <1>5. Blocks(e) = Placed(E)
    <2>1. e.kids = E
      BY <1>3 DEF IsMade
    <2> QED
      BY <2>1 DEF Blocks
  <1>6. W \in [Ids -> Seq(Nat)] /\ H \in SUBSET Ids
    BY <1>0
  <1>7. NothingOutside(E, W, H)
    <2> SUFFICES ASSUME NEW x \in Ids, x \notin Placed(K) \ D PROVE W[x] = <<>> /\ x \notin H
      BY <1>4 DEF NothingOutside
    <2> QED
      BY DocFacts
  <1>8. ASSUME Blocks(e) # {} PROVE Edited(e, d, n)
    <2>1. MayPlace(E, d, n)
      BY <1>4, <1>5, <1>8 DEF MayPlace
    <2>2. Kept(E, d.kids)
      BY <1>4
    <2> HIDE DEF e, E, W, H, K, D
    <2> QED
      BY <1>3, <1>4, <1>6, <1>7, <2>1, <2>2, DocMade
  <1> QED
    BY <1>0, <1>4, <1>5, <1>8

\* A block dissolved into another that is not under it leaves a document.
LEMMA AppendsTo ==
    ASSUME NEW d, GoodDoc(d), NEW b \in Blocks(d), NEW y \in Blocks(d), y # b, NEW n
    PROVE  Edited(AppendTo(d, b, y), d, n)
  <1> DEFINE K == d.kids
             s == K[b]
             D == {b}
             F == InPlaceOf(K, b, s)
             V == [d.words EXCEPT ![y] = @ \o d.words[b]]
             G == d.headings
             c == [d EXCEPT !.kids = InPlaceOf(@, b, d.kids[b]), !.words[y] = @ \o d.words[b]]
             e == AppendTo(d, b, y)
             E == CutKids(F, D)
             W == [x \in Ids |-> IF x \in D THEN <<>> ELSE V[x]]
             H == G \ D
  <1>0. /\ d = [kids |-> K, words |-> d.words, headings |-> d.headings]
        /\ GoodKids(K) /\ Blocks(d) = Placed(K) /\ d.words \in [Ids -> Seq(Nat)] /\ d.headings \in SUBSET Ids
        /\ Placed(K) \subseteq Ids
    BY DocFacts
  <1>1. e = Cut(c, D)
    BY DEF AppendTo
  <1>2. IsMade(c, F, V, G)
    <2>1. c = [d EXCEPT !.kids = F, !.words = V]
      OBVIOUS
    <2> HIDE DEF c, F, V
    <2> QED
      BY <1>0, <2>1 DEF IsMade
  <1>3. IsMade(e, E, W, H)
    <2> HIDE DEF F, c, e, D, V, G
    <2>1. IsMade(Cut(c, D), CutKids(F, D), [x \in Ids |-> IF x \in D THEN <<>> ELSE V[x]], G \ D)
      BY <1>2, CutMade
    <2> QED
      BY <1>1, <2>1
  <1>4. GoodKids(E) /\ Placed(E) = Placed(K) \ {b} /\ Kept(E, K)
    <2>1. E = CutKids(InPlaceOf(K, b, s), {b}) /\ s = K[b] /\ b \in Placed(K)
      BY <1>0
    <2> HIDE DEF E, D, K, F, s
    <2> QED
      BY <1>0, <2>1, DissolvedList
  <1>6. W \in [Ids -> Seq(Nat)] /\ H \in SUBSET Ids
    <2>1. d.words[y] \in Seq(Nat) /\ d.words[b] \in Seq(Nat)
      BY <1>0
    <2>2. d.words[y] \o d.words[b] \in Seq(Nat)
      BY <2>1
    <2>3. V \in [Ids -> Seq(Nat)]
      BY <1>0, <2>2
    <2> HIDE DEF V
    <2> QED
      BY <1>0, <2>3
  <1>7. NothingOutside(E, W, H)
    <2> SUFFICES ASSUME NEW x \in Ids, x \notin Placed(K) \ {b} PROVE W[x] = <<>> /\ x \notin H
      BY <1>4 DEF NothingOutside
    <2>1. CASE x = b
      BY <2>1
    <2>2. CASE x # b
      <3>1. x \notin Placed(K) /\ x # y
        BY <2>2, <1>0
      <3>2. d.words[x] = <<>> /\ x \notin d.headings
        BY <3>1, DocFacts
      <3> QED
        BY <2>2, <3>1, <3>2, <1>0
    <2> QED
      BY <2>1, <2>2
  <1>8. MayPlace(E, d, n)
    BY <1>0, <1>4 DEF MayPlace
  <1>9. Edited(e, d, n)
    <2>1. Kept(E, d.kids)
      BY <1>4
    <2> HIDE DEF e, E, W, H, K
    <2> QED
      BY <1>3, <1>4, <1>6, <1>7, <1>8, <2>1, DocMade
  <1> QED
    BY <1>9 DEF e

\* BNMergeBlocks leaves a document: the block above is not under b.
LEMMA MergesBlocks ==
    ASSUME NEW d, GoodDoc(d), NEW b \in Blocks(d), Left(d.kids, b) # Root, NEW n
    PROVE  Edited(BNMergeBlocks(d, b), d, n)
  <1> DEFINE K == d.kids
             l == Left(K, b)
             p == Parent(K, b)
             y == LastBelow(K, l)
  <1>0. GoodKids(K) /\ Apart(K) /\ Blocks(d) = Placed(K) /\ b \in Placed(K) /\ l # Root
    BY DocFacts DEF GoodKids
  <1>e. BNMergeBlocks(d, b) = AppendTo(d, b, y)
    BY DEF BNMergeBlocks
  <1>1. l \in ToSet(K[p]) /\ l # b /\ p \in Nodes /\ b \in ToSet(K[p])
    BY <1>0, LeftOf, ParentPlaced
  <1> HIDE DEF K, p, l, y
  <1>2. l \in Placed(K) /\ l \in Ids
    BY <1>0, <1>1, GoodHas
  <1>3. y \in Under(K, l)
    BY <1>0, <1>2, LastBelowIn DEF y
  <1>4. b \notin Under(K, l)
    BY <1>0, <1>1, ParentNotUnder
  <1>5. y \in Placed(K)
    <2>1. y = l \/ \E q \in Under(K, l) : y \in ToSet(K[q])
      BY <1>0, <1>2, <1>3, UnderFacts
    <2>2. Under(K, l) \subseteq Nodes
      BY <1>0, <1>2, UnderFacts, RootIsNoBlock
    <2> QED
      BY <2>1, <2>2, <1>0, <1>2, GoodHas
  <1>6. y \in Blocks(d) /\ y # b
    BY <1>0, <1>3, <1>4, <1>5
  <1> QED
    BY <1>6, <1>e, AppendsTo

\* The first k words, and the others.
LEMMA WordsSplit ==
    ASSUME NEW w \in Seq(Nat), NEW k \in 0..Len(w)
    PROVE  SubSeq(w, 1, k) \in Seq(Nat) /\ SubSeq(w, k + 1, Len(w)) \in Seq(Nat)
  <1>1. Len(w) \in Nat
    OBVIOUS
  <1> QED
    BY <1>1

HasMoved(e, d, E, b, k, n) ==
    e = [d EXCEPT !.kids = E, !.words[b] = SubSeq(@, 1, k),
                  !.words[n] = SubSeq(d.words[b], k + 1, Len(d.words[b]))]

\* Words moved to a new block leave a document.
LEMMA WordsMoved ==
    ASSUME NEW d, GoodDoc(d), NEW b \in Blocks(d), NEW n \in Ids, n \notin Blocks(d),
           NEW k \in 0..Len(d.words[b]), NEW E, GoodKids(E), Placed(E) = Placed(d.kids) \cup {n},
           Kept(E, d.kids), NEW e, HasMoved(e, d, E, b, k, n)
    PROVE  Edited(e, d, n) /\ e.kids = E /\ Blocks(e) = Placed(E)
  <1> DEFINE v == SubSeq(d.words[b], 1, k)
             z == SubSeq(d.words[b], k + 1, Len(d.words[b]))
             W == [d.words EXCEPT ![b] = v, ![n] = z]
             H == d.headings
  <1>0. /\ d = [kids |-> d.kids, words |-> d.words, headings |-> d.headings]
        /\ Blocks(d) = Placed(d.kids) /\ d.words \in [Ids -> Seq(Nat)] /\ d.headings \in SUBSET Ids
        /\ b \in Ids /\ b # n
    BY DocFacts
  <1>1. v \in Seq(Nat) /\ z \in Seq(Nat)
    BY <1>0, WordsSplit
  <1>2. e = [d EXCEPT !.kids = E, !.words = W]
    BY <1>0 DEF HasMoved
  <1> HIDE DEF v, z
  <1>3. W \in [Ids -> Seq(Nat)] /\ H \in SUBSET Ids
    BY <1>0, <1>1
  <1>4. NothingOutside(E, W, H)
    <2> SUFFICES ASSUME NEW x \in Ids, x \notin Placed(E) PROVE W[x] = <<>> /\ x \notin H
      BY DEF NothingOutside
    <2>1. x # n /\ x # b /\ x \notin Blocks(d)
      BY <1>0
    <2>2. d.words[x] = <<>> /\ x \notin d.headings
      BY <2>1, DocFacts
    <2> QED
      BY <2>1, <2>2, <1>0
  <1> HIDE DEF W, H
  <1>5. IsMade(e, E, W, H)
    BY <1>0, <1>2 DEF IsMade, H
  <1>6. MayPlace(E, d, n)
    BY DEF MayPlace
  <1> QED
    BY ONLY GoodDoc(d), GoodKids(E), Kept(E, d.kids), <1>3, <1>4, <1>5, <1>6, DocMade

\* BNSplitBlock leaves a document.
LEMMA SplitsBlock ==
    ASSUME NEW d, GoodDoc(d), NEW b \in Blocks(d), NEW n \in Ids, n \notin Blocks(d),
           NEW k \in 0..Len(d.words[b]), NEW e, e = BNSplitBlock(d, b, k, n)
    PROVE  Edited(e, d, n) /\ n \in Blocks(e)
  <1> DEFINE K == d.kids
             E == [InPlaceOf(K, b, <<b, n>>) EXCEPT ![b] = <<>>, ![n] = K[b]]
  <1>0. GoodKids(K) /\ Blocks(d) = Placed(K) /\ b \in Placed(K) /\ n \notin Placed(K) /\ K = d.kids
    BY DocFacts
  <1>1. E = [InPlaceOf(K, b, <<b, n>>) EXCEPT ![b] = <<>>, ![n] = K[b]]
    OBVIOUS
  <1>2. HasMoved(e, d, E, b, k, n)
    BY DEF BNSplitBlock, HasMoved
  <1> HIDE DEF E, K
  <1>3. GoodKids(E) /\ Placed(E) = Placed(K) \cup {n} /\ Kept(E, K)
    BY <1>0, <1>1, SplitOff
  <1>4. Edited(e, d, n) /\ Blocks(e) = Placed(E)
    BY <1>0, <1>2, <1>3, WordsMoved
  <1> QED
    BY <1>3, <1>4

\* sinkListItem leaves a document.
LEMMA SinksItem ==
    ASSUME NEW d, GoodDoc(d), NEW b \in Blocks(d), NEW n
    PROVE  Edited(sinkListItem(d, b), d, n) /\ GetsOnly(sinkListItem(d, b).kids, d.kids, b)
  <1> DEFINE K == d.kids
             l == Left(K, b)
             E == [InPlaceOf(K, b, <<>>) EXCEPT ![l] = Append(@, b)]
             e == sinkListItem(d, b)
  <1>0. GoodKids(K) /\ b \in Placed(K) /\ K = d.kids /\ l = Left(K, b)
    BY DocFacts
  <1>1. CASE l = Root
    BY <1>1, Unedited DEF sinkListItem, GetsOnly
  <1>2. CASE l # Root
    <2>1. e = [d EXCEPT !.kids = E]
      BY <1>2 DEF sinkListItem
    <2>2. E = [InPlaceOf(K, b, <<>>) EXCEPT ![l] = Append(@, b)]
      OBVIOUS
    <2> HIDE DEF E, K, l, e
    <2>3. GoodKids(E) /\ Placed(E) = Placed(K) /\ Kept(E, K) /\ GetsOnly(E, K, b)
      BY <1>0, <1>2, <2>2, SunkInto
    <2>4. Edited(e, d, n) /\ e.kids = E
      BY <1>0, <2>1, <2>3, KidsMade
    <2> QED
      BY <1>0, <2>3, <2>4 DEF e
  <1> QED
    BY <1>1, <1>2

\* liftListItem leaves a document.
LEMMA LiftsItem ==
    ASSUME NEW d, GoodDoc(d), NEW b \in Blocks(d), NEW n
    PROVE  Edited(liftListItem(d, b), d, n)
  <1> DEFINE K == d.kids
             p == Parent(K, b)
             z == Following(K, b)
             E == [InPlaceOf(K, p, <<p, b>>) EXCEPT ![p] = SubSeq(@, 1, Index(K, b) - 1), ![b] = @ \o z]
             e == liftListItem(d, b)
  <1>0. GoodKids(K) /\ b \in Placed(K) /\ K = d.kids /\ p = Parent(K, b) /\ z = Following(K, b)
    BY DocFacts
  <1>1. e = IF p = Root \/ (K[b] # <<>> /\ z # <<>>) THEN d ELSE [d EXCEPT !.kids = E]
    BY DEF liftListItem
  <1>2. HasLifted(E, K, b, p, z)
    BY DEF HasLifted
  <1> HIDE DEF E, K, p, z, e
  <1>3. CASE e = d
    BY <1>3, Unedited DEF e
  <1>4. CASE p # Root /\ e = [d EXCEPT !.kids = E]
    <2>3. GoodKids(E) /\ Placed(E) = Placed(K) /\ Kept(E, K)
      BY <1>0, <1>2, <1>4, LiftedList
    <2>4. Edited(e, d, n)
      BY <1>0, <1>4, <2>3, KidsMade
    <2> QED
      BY <2>4 DEF e
  <1> QED
    BY <1>1, <1>3, <1>4

\* BNSplitHeadingBlock leaves a document.
LEMMA SplitsHeading ==
    ASSUME NEW d, GoodDoc(d), NEW b \in Blocks(d), NEW n \in Ids, n \notin Blocks(d),
           NEW k \in 0..Len(d.words[b]), NEW e, e = BNSplitHeadingBlock(d, b, k, n)
    PROVE  Edited(e, d, n)
  <1>1. CASE d.kids[b] = <<>>
    <2> DEFINE c == BNSplitBlock(d, b, k, n)
    <2>1. e = sinkListItem(c, n)
      BY <1>1 DEF BNSplitHeadingBlock
    <2>2. c = BNSplitBlock(d, b, k, n)
      OBVIOUS
    <2> HIDE DEF c
    <2>3. Edited(c, d, n) /\ n \in Blocks(c)
      BY <2>2, SplitsBlock
    <2>a. GoodDoc(c)
      BY <2>3 DEF Edited, Shows
    <2>4. Edited(e, c, n)
      BY ONLY <2>1, <2>3, <2>a, SinksItem
    <2>5. Shows(e, d, n)
      BY <2>3, <2>4 DEF Edited, Shows
    \* Only n leaves its parent for another.
    <2>6. ASSUME NEW r \in Nodes, NEW x \in ToSet(e.kids[r]), x \in ToSet(d.kids[r]) PROVE x \in ToSet(c.kids[r])
      <3>0. GetsOnly(e.kids, c.kids, n)
        BY ONLY <2>1, <2>3, <2>a, SinksItem
      <3>1. x \in ToSet(c.kids[r]) \/ x = n
        BY <3>0 DEF GetsOnly
      <3>2. x # n
        BY <2>6, DocFacts, GoodHas
      <3> QED
        BY <3>1, <3>2
    <2>7. Kept(e.kids, d.kids)
      <3> SUFFICES ASSUME NEW r \in Nodes PROVE KeptList(e.kids[r], d.kids[r])
        BY DEF Kept
      <3>1. d.kids[r] \in Seq(Ids)
        BY DocFacts
      <3>2. KeptList(c.kids[r], d.kids[r]) /\ KeptList(e.kids[r], c.kids[r])
        BY <2>3, <2>4 DEF Edited, Kept
      <3> QED
        BY <2>6, <3>1, <3>2, KeptTwice
    <2> QED
      BY <2>5, <2>7 DEF Edited
  <1>2. CASE d.kids[b] # <<>>
    <2> DEFINE K == d.kids
               E == [K EXCEPT ![b] = <<n>> \o @]
    <2>0. GoodKids(K) /\ Blocks(d) = Placed(K) /\ b \in Placed(K) /\ n \notin Placed(K) /\ K = d.kids
          /\ HasNested(E, K, b, n)
      BY DocFacts DEF HasNested
    <2>1. HasMoved(e, d, E, b, k, n)
      BY <1>2 DEF BNSplitHeadingBlock, HasMoved
    <2> HIDE DEF K, E
    <2>2. GoodKids(E) /\ Placed(E) = Placed(K) \cup {n} /\ Kept(E, K)
      BY ONLY n \in Ids, <2>0, NestedFirst
    <2> QED
      BY <2>0, <2>1, <2>2, WordsMoved
  <1> QED
    BY <1>1, <1>2

\* Whatever Backspace does leaves a document.
LEMMA BackspaceEdits ==
    ASSUME NEW d, GoodDoc(d), NEW b \in Blocks(d), NEW n
    PROVE  Edited(handleBackspace(d, b), d, n)
  <1> DEFINE K == d.kids
             p == Parent(K, b)
             l == Left(K, b)
             e == handleBackspace(d, b)
  <1>0. GoodKids(K) /\ Apart(K) /\ Blocks(d) = Placed(K) /\ b \in Placed(K) /\ FALSE \in BOOLEAN
    BY DocFacts DEF GoodKids
  <1>1. CASE b \in d.headings
    <2>1. e = BNUpdateBlock(d, b, FALSE)
      BY <1>1 DEF handleBackspace
    <2> QED
      BY <2>1, <1>0, UpdatesBlock
  <1>2. CASE b \notin d.headings /\ l = Root /\ p \in d.headings
    <2>1. e = AppendTo(d, b, p)
      BY <1>2 DEF handleBackspace
    <2>2. p \in Blocks(d)
      BY <1>2, DocFacts
    <2>3. p # b
      BY <1>2
    <2> HIDE DEF e, p
    <2>4. Edited(e, d, n)
      BY <2>1, <2>2, <2>3, AppendsTo
    <2> QED
      BY <2>4 DEF e
  <1>3. CASE b \notin d.headings /\ l = Root /\ p \notin d.headings
    <2>1. e = liftListItem(d, b)
      BY <1>3 DEF handleBackspace
    <2> QED
      BY <2>1, LiftsItem
  <1>4. CASE b \notin d.headings /\ l # Root /\ textContent(d, b) # <<>> /\ textContent(d, l) = <<>>
    <2>1. e = BNDeleteBlock(d, l)
      BY <1>4 DEF handleBackspace
    <2>2. l \in ToSet(K[p]) /\ l # b
      BY <1>0, <1>4, LeftOf
    <2>3. p \in Nodes /\ b \in ToSet(K[p])
      BY <1>0, ParentPlaced
    <2> HIDE DEF e, p, l
    <2>4. l \in Blocks(d)
      BY <1>0, <2>2, <2>3, GoodHas
    <2>5. b \notin Under(K, l)
      BY <1>0, <2>2, <2>3, ParentNotUnder
    <2>6. Blocks(e) # {}
      BY <2>1, <2>4, <2>5, DeletesBlock
    <2>7. Edited(e, d, n)
      BY <2>1, <2>4, <2>6, DeletesBlock
    <2> QED
      BY <2>7 DEF e
  <1>5. CASE b \notin d.headings /\ l # Root /\ ~(textContent(d, b) # <<>> /\ textContent(d, l) = <<>>)
    <2>1. e = BNMergeBlocks(d, b)
      BY <1>5 DEF handleBackspace
    <2> QED
      BY <2>1, <1>5, MergesBlocks
  <1> QED
    BY <1>1, <1>2, <1>3, <1>4, <1>5

\* Whatever Enter does leaves a document, with at most one new block.
LEMMA EnterEdits ==
    ASSUME NEW d, GoodDoc(d), NEW b \in Blocks(d), NEW n \in Ids, n \notin Blocks(d),
           NEW k \in 0..Len(d.words[b])
    PROVE  Edited(handleEnter(d, b, k, n), d, n)
  <1> DEFINE empty == textContent(d, b) = <<>>
             last == Parent(d.kids, b) # Root /\ Following(d.kids, b) = <<>>
             e == handleEnter(d, b, k, n)
  <1>0. k \in Nat
    OBVIOUS
  <1>1. CASE k = 0 /\ ~empty
    <2>1. e = BNCreateBlockBefore(d, b, n)
      BY <1>1 DEF handleEnter
    <2> QED
      BY <2>1, CreatesBlock
  <1>2. CASE k = 0 /\ empty /\ last
    <2>1. e = liftListItem(d, b)
      BY <1>2 DEF handleEnter
    <2> QED
      BY <2>1, LiftsItem
  <1>3. CASE k = 0 /\ empty /\ ~last
    <2>1. e = BNCreateBlockAfter(d, b, n)
      BY <1>3 DEF handleEnter
    <2> QED
      BY <2>1, CreatesBlock
  <1>4. CASE k > 0 /\ b \in d.headings
    <2>1. e = BNSplitHeadingBlock(d, b, k, n)
      BY <1>4 DEF handleEnter
    <2> QED
      BY <2>1, SplitsHeading
  <1>5. CASE k > 0 /\ b \notin d.headings
    <2>1. e = BNSplitBlock(d, b, k, n)
      BY <1>5 DEF handleEnter
    <2> QED
      BY <2>1, SplitsBlock
  <1> QED
    BY <1>0, <1>1, <1>2, <1>3, <1>4, <1>5

\* Blocks dropped outside of themselves leave a document.
LEMMA DropEdits ==
    ASSUME NEW d, GoodDoc(d), NEW b \in Blocks(d), NEW c, c = b \/ c \in ToSet(Following(d.kids, b)),
           NEW s, s = Dragged(d.kids, b, c), NEW p, p = Root \/ p \in Blocks(d),
           NEW l, l = Root \/ l \in ToSet(d.kids[p]),
           p \notin Inside(d.kids, s), l \notin Inside(d.kids, s), NEW n
    PROVE  Shows(dropBlocks(d, s, p, l), d, n)
  <1> DEFINE K == d.kids
             F == [K EXCEPT ![Parent(K, b)] = ReplaceSubSeqAt(Index(K, b), <<>>, s, @)]
             E == Behind(F, p, l, s)
             e == dropBlocks(d, s, p, l)
             o == Parent(K, b)
             i == Index(K, b)
             m == Index(K, c) - i + 1
  <1>0. GoodKids(K) /\ Apart(K) /\ Blocks(d) = Placed(K) /\ b \in Placed(K) /\ K = d.kids
    BY DocFacts DEF GoodKids
  <1>1. s[1] = b
    <2>1. o = Parent(K, b) /\ i = Index(K, b) /\ m = Index(K, c) - i + 1 /\ (c = b \/ c \in ToSet(Following(K, b)))
          /\ s = Dragged(K, b, c)
      OBVIOUS
    <2>2. IsPlace(K, b, o, i)
      BY <1>0, PlaceOf
    <2> HIDE DEF o, i, m, K
    <2>3. m \in Nat \ {0} /\ i \in Nat \ {0} /\ i + m <= Len(K[o]) + 1 /\ IsPart(s, K[o], i, m)
      BY ONLY <1>0, <2>1, DraggedFacts
    <2>4. 1 \in 1..m /\ i + 1 - 1 = i
      BY ONLY <2>3
    <2>5. s[1] = K[o][i + 1 - 1]
      BY <2>3, <2>4 DEF IsPart
    <2> QED
      BY <2>2, <2>4, <2>5 DEF IsPlace
  <1>2. e = [d EXCEPT !.kids = E]
    BY <1>1 DEF dropBlocks
  <1>3. F = [K EXCEPT ![Parent(K, b)] = ReplaceSubSeqAt(Index(K, b), <<>>, s, @)] /\ E = Behind(F, p, l, s)
    OBVIOUS
  <1>4. /\ c = b \/ c \in ToSet(Following(K, b))
        /\ s = Dragged(K, b, c) /\ (p = Root \/ p \in Placed(K)) /\ (l = Root \/ l \in ToSet(K[p]))
        /\ p \notin Inside(K, s) /\ l \notin Inside(K, s)
    BY <1>0
  <1> HIDE DEF K, F, E, e
  <1>5. GoodKids(E) /\ Placed(E) = Placed(K)
    BY ONLY <1>0, <1>3, <1>4, DroppedList
  <1>6. Shows(e, d, n)
    BY <1>0, <1>2, <1>5, KidsMade
  <1> QED
    BY <1>6 DEF e

-----------------------------------------------------------------------------
\* What the daemon keeps between two changes.
Store(s) == s \in StoredDocuments /\ Apart(s.kids) /\ s.trash \cap Blocks(s) = {}

Contents == [words : Seq(Nat), heading : BOOLEAN, listLevel : BOOLEAN]

\* The parts of a stored document.
LEMMA StoreFacts ==
    ASSUME NEW s, Store(s)
    PROVE  /\ s = [kids |-> s.kids, trash |-> s.trash, content |-> s.content]
           /\ s.kids \in [Nodes -> Seq(Ids)] /\ s.trash \in SUBSET Ids /\ s.content \in [Ids -> Contents]
           /\ Apart(s.kids) /\ Blocks(s) = Placed(s.kids) /\ Blocks(s) \subseteq Ids /\ s.trash \cap Blocks(s) = {}
  <1>1. s \in StoredDocuments /\ Apart(s.kids) /\ Blocks(s) = Placed(s.kids) /\ s.trash \cap Blocks(s) = {}
    BY DEF Store, Blocks
  <1>2. s.kids \in [Nodes -> Seq(Ids)]
    BY <1>1 DEF Apart
  <1>3. Blocks(s) \subseteq Ids
    BY <1>1, <1>2, PlacedIn
  <1> QED
    BY <1>1, <1>2, <1>3 DEF StoredDocuments, Contents

IsStored(t, K, T, C) == t = [kids |-> K, trash |-> T, content |-> C]

\* A stored document made of lists, trash and contents.
LEMMA StoreMade ==
    ASSUME NEW K, Apart(K), NEW T \in SUBSET Ids, NEW C \in [Ids -> Contents], T \cap Placed(K) = {},
           NEW t, IsStored(t, K, T, C)
    PROVE  Store(t) /\ t.kids = K /\ t.content = C /\ Blocks(t) = Placed(K)
  <1>0. K \in [Nodes -> Seq(Ids)]
    BY DEF Apart
  <1>1. t \in StoredDocuments /\ t.kids = K /\ t.trash = T /\ t.content = C
    BY <1>0 DEF IsStored, StoredDocuments, Contents
  <1> QED
    BY <1>1 DEF Store, Blocks

\* The lists K without b.
LacksOnly(E, K, b) ==
    /\ Apart(E) /\ Kept(E, K)
    /\ \A r \in Nodes : \A x : x \in ToSet(E[r]) <=> x \in ToSet(K[r]) /\ x # b

\* A block taken out of its place, when it has one.
LEMMA TakenAway ==
    ASSUME NEW K, Apart(K), NEW b \in Ids,
           NEW E, E = IF b \in Placed(K) THEN InPlaceOf(K, b, <<>>) ELSE K
    PROVE  LacksOnly(E, K, b)
  <1>0. K \in [Nodes -> Seq(Ids)]
    BY DEF Apart
  <1>1. CASE b \notin Placed(K)
    <2>1. \A r \in Nodes : b \notin ToSet(K[r])
      BY <1>0, <1>1, PlacedIn
    <2>2. Kept(E, K)
      BY <1>1, KeptSelf DEF Kept
    <2> QED
      BY <2>1, <2>2, <1>1 DEF LacksOnly
  <1>2. CASE b \in Placed(K)
    <2> DEFINE p == Parent(K, b)
               s == <<>>
               X == ToSet(K[p]) \ {b}
    <2>1. p \in Nodes /\ b \in ToSet(K[p]) /\ \A q \in Nodes : b \in ToSet(K[q]) => q = p
      BY <1>2, PlaceOf DEF IsPlace
    <2>2. Regrouped(E, K, p, X)
      <3>1. s \in Seq(Ids) /\ IsInjective(s) /\ ToSet(s) \cap (ToSet(K[p]) \ {b}) = {}
            /\ p = Parent(K, b) /\ E = InPlaceOf(K, b, s) /\ X = ToSet(s) \cup (ToSet(K[p]) \ {b})
        BY <1>2, EmptyList
      <3> HIDE DEF p, X, s
      <3> QED
        BY ONLY Apart(K), <1>2, <3>1, InPlaceOfFacts
    <2>3. /\ E \in [Nodes -> Seq(Ids)] /\ IsInjective(E[p]) /\ ToSet(E[p]) = ToSet(K[p]) \ {b}
          /\ \A q \in Nodes : q # p => E[q] = K[q]
      BY <2>2 DEF Regrouped
    <2> HIDE DEF p
    <2>4. \A r \in Nodes : \A x : x \in ToSet(E[r]) <=> x \in ToSet(K[r]) /\ x # b
      <3> TAKE r \in Nodes
      <3>1. CASE r = p
        BY <3>1, <2>3
      <3>2. CASE r # p
        BY <3>2, <2>1, <2>3
      <3> QED
        BY <3>1, <3>2
    <2>5. \A r \in Nodes : IsInjective(E[r])
      BY <2>3 DEF Apart
    <2>6. ASSUME NEW r \in Nodes, NEW q \in Nodes, r # q PROVE ToSet(E[r]) \cap ToSet(E[q]) = {}
      BY <2>4, <2>6 DEF Apart
    <2>7. Apart(E)
      BY <2>3, <2>5, <2>6 DEF Apart
    <2>8. Kept(E, K)
      BY <2>2, RegroupedKept
    <2> QED
      BY <2>4, <2>7, <2>8 DEF LacksOnly
  <1> QED
    BY <1>1, <1>2

\* The lists K with b under p.
PutUnder(E, K, b, p) ==
    /\ Apart(E)
    /\ \A r \in Nodes : \A x : x \in ToSet(E[r]) <=> (x \in ToSet(K[r]) /\ x # b) \/ (x = b /\ r = p)

\* Behind l, with the others in their order.
PutInOrder(E, K, b, p, l) == KeptBut(E, K, b) /\ Parent(E, b) = p /\ Left(E, b) = l

\* Where Behind puts a block.
LEMMA BehindLeft ==
    ASSUME NEW F, Apart(F), NEW b \in Ids, NEW p \in Nodes, NEW l, l = Root \/ l \in ToSet(F[p]),
           NEW E, E = Behind(F, p, l, <<b>>), Apart(E), b \in ToSet(E[p])
    PROVE  Parent(E, b) = p /\ Left(E, b) = l
  <1> DEFINE s == <<b>>
  <1>a. s \in Seq(Ids) /\ Len(s) = 1 /\ s[1] = b
    OBVIOUS
  <1>b. /\ F \in [Nodes -> Seq(Ids)] /\ F[p] \in Seq(Ids)
        /\ E \in [Nodes -> Seq(Ids)] /\ E[p] \in Seq(Ids)
    BY DEF Apart
  <1>0. /\ F \in [Nodes -> Seq(Ids)] /\ F[p] \in Seq(Ids) /\ s \in Seq(Ids) /\ Len(s) = 1 /\ s[1] = b
        /\ E \in [Nodes -> Seq(Ids)] /\ E[p] \in Seq(Ids)
    BY <1>a, <1>b
  <1>1. b \in Placed(E)
    BY <1>0, PlacedIn
  <1>2. Parent(E, b) = p
    BY <1>1, PlaceOf
  <1>3. \A j \in DOMAIN E[p] : E[p][j] = b => j = Index(E, b)
    BY <1>1, <1>2, PlaceOf
  <1>4. Left(E, b) = IF Index(E, b) = 1 THEN Root ELSE E[p][Index(E, b) - 1]
    BY <1>2 DEF Left
  <1>5. CASE l = Root
    <2> DEFINE a == s \o F[p]
    <2>1. E[p] = a
      BY <1>0, <1>5 DEF Behind
    <2>2. IsConcat(a, s, F[p])
      <3>1. a = s \o F[p]
        OBVIOUS
      <3> HIDE DEF a, s
      <3> QED
        BY <1>0, <3>1, ConcatFacts
    <2> HIDE DEF a, s
    <2>3. a[1] = b /\ Len(a) = 1 + Len(F[p]) /\ Len(F[p]) \in Nat
      BY <1>0, <2>2 DEF IsConcat
    <2>4. 1 \in DOMAIN E[p]
      BY <1>0, <2>1, <2>3
    <2>5. Index(E, b) = 1
      BY <1>3, <2>1, <2>3, <2>4
    <2> QED
      BY <1>2, <1>4, <1>5, <2>5
  <1>6. CASE l # Root
    <2> DEFINE a == <<l>> \o s
               one == <<l>>
               i == Index(F, l)
               m == 1
               q == ReplaceSubSeqAt(i, a, one, F[p])
    <2>1. l \in ToSet(F[p]) /\ l \in Placed(F) /\ l \in Ids
      BY <1>0, <1>6, PlacedIn
    <2>2. Parent(F, l) = p /\ i \in 1..Len(F[p]) /\ Len(F[p]) \in Nat
      <3>1. Parent(F, l) = p
        BY <2>1, PlaceOf
      <3>2. IsPlace(F, l, Parent(F, l), Index(F, l))
        BY <2>1, PlaceOf
      <3> QED
        BY <1>0, <3>1, <3>2 DEF IsPlace
    <2>3. a \in Seq(Ids) /\ Len(a) = 2 /\ a[1] = l /\ a[2] = b
      <3>1. a = <<l, b>>
        BY TwoInARow
      <3> HIDE DEF a
      <3> QED
        BY <2>1, <3>1
    <2>4. E[p] = q
      BY <1>0, <1>6, <2>2 DEF Behind, InPlaceOf
    <2>5. i \in Nat \ {0} /\ Len(one) = m /\ m \in Nat /\ i + m <= Len(F[p]) + 1
      BY <2>2
    <2>6. q \in Seq(Ids) /\ IsReplaced(q, i, a, m, F[p])
      <3>1. q = ReplaceSubSeqAt(i, a, one, F[p])
        OBVIOUS
      <3> HIDE DEF q, a, one, i, m
      <3> QED
        BY <1>0, <2>3, <2>5, <3>1, ReplaceFacts
    <2> HIDE DEF q, a, one, i
    <2>7. Len(q) = Len(F[p]) - 1 + 2 /\ q[i - 1 + 1] = l /\ q[i - 1 + 2] = b
      BY <2>3, <2>6 DEF IsReplaced
    <2>8. i - 1 + 1 = i /\ i - 1 + 2 = i + 1 /\ i + 1 \in 1..Len(q) /\ i + 1 # 1 /\ (i + 1) - 1 = i
      BY <2>2, <2>7
    <2>9. q[i] = l /\ q[i + 1] = b
      BY <2>7, <2>8
    <2>10. Index(E, b) = i + 1
      BY <1>3, <2>4, <2>6, <2>8, <2>9
    <2> QED
      BY <1>2, <1>4, <2>4, <2>8, <2>9, <2>10
  <1> QED
    BY <1>5, <1>6

\* A block put behind its left sibling.
LEMMA PutBehind ==
    ASSUME NEW K, NEW b \in Ids, NEW F, LacksOnly(F, K, b), NEW p \in Nodes,
           NEW l, l = Root \/ (l \in ToSet(K[p]) /\ l # b), NEW E, E = Behind(F, p, l, <<b>>)
    PROVE  PutUnder(E, K, b, p) /\ PutInOrder(E, K, b, p, l)
  <1> DEFINE s == <<b>>
             X == ToSet(s) \cup ToSet(F[p])
  <1>0. Apart(F) /\ \A r \in Nodes : \A x : x \in ToSet(F[r]) <=> x \in ToSet(K[r]) /\ x # b
    BY DEF LacksOnly
  <1>1. s \in Seq(Ids) /\ IsInjective(s) /\ ToSet(s) = {b}
    BY DEF IsInjective, ToSet
  <1>2. ToSet(s) \cap ToSet(F[p]) = {} /\ (l = Root \/ l \in ToSet(F[p]))
    BY <1>0, <1>1
  <1>3. Regrouped(E, F, p, X)
    <2>1. X = ToSet(s) \cup ToSet(F[p]) /\ E = Behind(F, p, l, s)
      OBVIOUS
    <2> HIDE DEF X, s
    <2> QED
      BY <1>0, <1>1, <1>2, <2>1, BehindFacts
  <1> HIDE DEF s
  <1>4. /\ E \in [Nodes -> Seq(Ids)] /\ IsInjective(E[p]) /\ ToSet(E[p]) = {b} \cup ToSet(F[p])
        /\ \A q \in Nodes : q # p => E[q] = F[q]
    BY <1>1, <1>3 DEF Regrouped
  <1>5. \A r \in Nodes : \A x : x \in ToSet(E[r]) <=> (x \in ToSet(K[r]) /\ x # b) \/ (x = b /\ r = p)
    <2> TAKE r \in Nodes
    <2>1. CASE r = p
      BY <2>1, <1>0, <1>4
    <2>2. CASE r # p
      BY <2>2, <1>0, <1>4
    <2> QED
      BY <2>1, <2>2
  <1>6. \A r \in Nodes : IsInjective(E[r])
    BY <1>0, <1>4 DEF Apart
  <1>7. ASSUME NEW r \in Nodes, NEW q \in Nodes, r # q PROVE ToSet(E[r]) \cap ToSet(E[q]) = {}
    <2> SUFFICES ASSUME NEW x, x \in ToSet(E[r]), x \in ToSet(E[q]) PROVE FALSE
      OBVIOUS
    <2>1. CASE x = b
      BY <2>1, <1>5, <1>7
    <2>2. CASE x # b
      <3>1. x \in ToSet(F[r]) /\ x \in ToSet(F[q])
        BY <2>2, <1>0, <1>5
      <3> QED
        BY <3>1, <1>0, <1>7 DEF Apart
    <2> QED
      BY <2>1, <2>2
  <1>8. Apart(E)
    BY <1>4, <1>6, <1>7 DEF Apart
  <1>9. Parent(E, b) = p /\ Left(E, b) = l
    <2>1. b \in ToSet(E[p])
      BY <1>5
    <2> QED
      BY <1>0, <1>2, <1>8, <2>1, BehindLeft
  <1>10. KeptBut(E, K, b)
    <2> SUFFICES ASSUME NEW r \in Nodes, NEW x \in ToSet(E[r]) \ {b}, NEW y \in ToSet(E[r]) \ {b}, Ahead(K[r], x, y)
                 PROVE  Ahead(E[r], x, y)
      BY DEF KeptBut
    <2>1. Kept(F, K) /\ Kept(E, F)
      BY <1>3, RegroupedKept DEF LacksOnly
    <2>2. x \in ToSet(F[r]) /\ y \in ToSet(F[r])
      BY <1>0, <1>5
    <2>3. Ahead(F[r], x, y)
      BY <2>1, <2>2 DEF Kept, KeptList
    <2> QED
      BY <2>1, <2>3 DEF Kept, KeptList
  <1> QED
    BY <1>5, <1>8, <1>9, <1>10 DEF PutUnder, PutInOrder

\* A drag of one block keeps the order of the others.
LEMMA DropInOrder ==
    ASSUME NEW d, GoodDoc(d), NEW b \in Blocks(d), NEW c, c = b \/ c \in ToSet(Following(d.kids, b)),
           NEW s, s = Dragged(d.kids, b, c), ~(Len(s) > 1), NEW p, p = Root \/ p \in Blocks(d),
           NEW l, l = Root \/ l \in ToSet(d.kids[p]),
           p \notin Inside(d.kids, s), l \notin Inside(d.kids, s)
    PROVE  KeptBut(dropBlocks(d, s, p, l).kids, d.kids, b)
  <1> DEFINE K == d.kids
             o == Parent(K, b)
             i == Index(K, b)
             m == Index(K, c) - i + 1
             one == <<b>>
             F == InPlaceOf(K, b, <<>>)
             E == Behind(F, p, l, one)
  <1>0. GoodKids(K) /\ Apart(K) /\ b \in Placed(K) /\ b \in Ids /\ p \in Nodes
    BY DocFacts, RootIsNoBlock, GoodHas DEF GoodKids
  <1>1. s \in Seq(Ids) /\ Len(s) = 1 /\ s[1] = b
    <2>1. o = Parent(K, b) /\ i = Index(K, b) /\ m = Index(K, c) - i + 1 /\ (c = b \/ c \in ToSet(Following(K, b)))
          /\ s = Dragged(K, b, c)
      OBVIOUS
    <2>2. IsPlace(K, b, o, i)
      BY <1>0, PlaceOf
    <2> HIDE DEF o, i, m, K
    <2>3. m \in Nat \ {0} /\ i \in Nat \ {0} /\ IsPart(s, K[o], i, m)
      BY ONLY <1>0, <2>1, DraggedFacts
    <2>4. s \in Seq(Ids) /\ Len(s) = m /\ \A j \in 1..m : s[j] = K[o][i + j - 1]
      BY <2>3 DEF IsPart
    <2>5. m = 1 /\ 1 \in 1..m /\ i + 1 - 1 = i
      BY <2>3, <2>4
    <2> QED
      BY <2>2, <2>4, <2>5 DEF IsPlace
  <1>2. s = one
    <2>1. one \in Seq(Ids) /\ Len(one) = 1 /\ one[1] = b
      BY <1>0
    <2> HIDE DEF one
    <2>2. s \in [1..1 -> Ids] /\ one \in [1..1 -> Ids] /\ \A k \in 1..1 : s[k] = one[k]
      BY <1>1, <2>1
    <2> QED
      BY <2>2, SameFunction
  <1>3. l # b
    <2>1. b \in Under(K, b) /\ b \in ToSet(s)
      BY <1>1 DEF Under, ToSet
    <2> QED
      BY <2>1 DEF Inside
  <1>4. dropBlocks(d, s, p, l).kids = E
    <2>1. dropBlocks(d, s, p, l) = [d EXCEPT !.kids = E]
      BY <1>1, <1>2 DEF dropBlocks, InPlaceOf
    <2>2. d = [kids |-> d.kids, words |-> d.words, headings |-> d.headings]
      BY DocFacts
    <2> HIDE DEF E
    <2> QED
      BY <2>1, <2>2
  <1>5. F = (IF b \in Placed(K) THEN InPlaceOf(K, b, <<>>) ELSE K) /\ E = Behind(F, p, l, <<b>>)
        /\ (l = Root \/ (l \in ToSet(K[p]) /\ l # b))
    BY <1>0, <1>3
  <1> HIDE DEF F, E, K
  <1>6. LacksOnly(F, K, b)
    BY <1>0, <1>5, TakenAway
  <1>7. PutInOrder(E, K, b, p, l)
    BY ONLY <1>0, <1>5, <1>6, PutBehind
  <1> QED
    BY <1>4, <1>7 DEF PutInOrder, K

\* The document without b, as a record.
LEMMA WithoutFacts ==
    ASSUME NEW s, Store(s), NEW b,
           NEW F, F = IF b \in Placed(s.kids) THEN InPlaceOf(s.kids, b, <<>>) ELSE s.kids,
           NEW T, T = s.trash \ {b}, NEW C, C = s.content
    PROVE  IsStored(Without(s, b), F, T, C)
  <1>0. s = [kids |-> s.kids, trash |-> s.trash, content |-> s.content]
    BY StoreFacts
  <1>1. Without(s, b) = [s EXCEPT !.kids = F, !.trash = T]
    <2>1. Blocks(s) = Placed(s.kids)
      BY DEF Blocks
    <2> QED
      BY <2>1 DEF Without
  <1> QED
    BY ONLY <1>0, <1>1, C = s.content DEF IsStored

\* treeMutation.move, when it is not refused.
LEMMA MoveFacts ==
    ASSUME NEW s, Store(s), NEW b \in Ids, NEW p \in Nodes, NEW l, l = Root \/ (l \in ToSet(s.kids[p]) /\ l # b),
           NEW t, t = move(s, MoveBlock(b, p, l))
    PROVE  Store(t) /\ PutUnder(t.kids, s.kids, b, p) /\ PutInOrder(t.kids, s.kids, b, p, l) /\ t.content = s.content
  <1> DEFINE K == s.kids
             F == IF b \in Placed(K) THEN InPlaceOf(K, b, <<>>) ELSE K
             E == Behind(F, p, l, <<b>>)
             T == s.trash \ {b}
             C == s.content
  <1>0. /\ s = [kids |-> s.kids, trash |-> s.trash, content |-> s.content]
        /\ s.trash \in SUBSET Ids /\ s.content \in [Ids -> Contents]
        /\ Apart(s.kids) /\ Blocks(s) = Placed(s.kids) /\ s.trash \cap Blocks(s) = {}
    BY StoreFacts
  <1>1. IsStored(Without(s, b), F, T, C)
    <2>1. F = (IF b \in Placed(s.kids) THEN InPlaceOf(s.kids, b, <<>>) ELSE s.kids) /\ T = s.trash \ {b} /\ C = s.content
      OBVIOUS
    <2> HIDE DEF K, F, T, C
    <2> QED
      BY ONLY Store(s), <2>1, WithoutFacts
  <1>2. IsStored(t, E, T, C)
    <2> DEFINE c == MoveBlock(b, p, l)
               w == Without(s, b)
    <2>1. c.block = b /\ c.parent = p /\ c.left = l
      BY DEF MoveBlock
    <2>2. t = [w EXCEPT !.kids = Behind(@, p, l, <<b>>)]
      BY <2>1 DEF move
    <2>3. w = [kids |-> F, trash |-> T, content |-> C]
      BY <1>1 DEF IsStored
    <2> HIDE DEF w, F, T, C
    <2> QED
      BY <2>2, <2>3 DEF IsStored
  <1>3. F = (IF b \in Placed(K) THEN InPlaceOf(K, b, <<>>) ELSE K) /\ Apart(K) /\ E = Behind(F, p, l, <<b>>)
        /\ (l = Root \/ (l \in ToSet(K[p]) /\ l # b))
    BY <1>0
  <1>4. T \in SUBSET Ids /\ C \in [Ids -> Contents] /\ b \notin T /\ T \cap Placed(K) = {} /\ K = s.kids /\ C = s.content
    BY <1>0
  <1> HIDE DEF K, F, E, T, C
  <1>5. LacksOnly(F, K, b)
    BY <1>3, TakenAway
  <1>6. PutUnder(E, K, b, p) /\ PutInOrder(E, K, b, p, l)
    BY <1>3, <1>5, PutBehind
  <1>7. Apart(E) /\ T \cap Placed(E) = {}
    <2>1. Apart(E) /\ E \in [Nodes -> Seq(Ids)] /\ K \in [Nodes -> Seq(Ids)]
      BY <1>3, <1>6 DEF PutUnder, Apart
    <2>2. ASSUME NEW x \in Placed(E) PROVE x \notin T
      <3>1. PICK r \in Nodes : x \in ToSet(E[r])
        BY <2>1, PlacedIn
      <3>2. x = b \/ x \in ToSet(K[r])
        BY <3>1, <1>6 DEF PutUnder
      <3>3. x = b \/ x \in Placed(K)
        BY <3>2, <2>1, PlacedIn
      <3> QED
        BY <3>3, <1>4
    <2> QED
      BY <2>1, <2>2
  <1>8. Store(t) /\ t.kids = E /\ t.content = C
    BY <1>2, <1>4, <1>7, StoreMade
  <1> QED
    BY <1>4, <1>6, <1>8

\* treeMutation.move to the trash.
LEMMA DeleteFacts ==
    ASSUME NEW s, Store(s), NEW b \in Ids, NEW t, t = delete(s, DeleteBlock(b))
    PROVE  Store(t) /\ LacksOnly(t.kids, s.kids, b) /\ t.content = s.content
  <1> DEFINE K == s.kids
             F == IF b \in Placed(K) THEN InPlaceOf(K, b, <<>>) ELSE K
             T == (s.trash \ {b}) \cup {b}
             C == s.content
  <1>0. /\ s = [kids |-> s.kids, trash |-> s.trash, content |-> s.content]
        /\ s.trash \in SUBSET Ids /\ s.content \in [Ids -> Contents]
        /\ Apart(s.kids) /\ Blocks(s) = Placed(s.kids) /\ s.trash \cap Blocks(s) = {}
    BY StoreFacts
  <1>1. Without(s, b) = [kids |-> F, trash |-> s.trash \ {b}, content |-> C]
    <2> DEFINE U == s.trash \ {b}
    <2>1. F = (IF b \in Placed(s.kids) THEN InPlaceOf(s.kids, b, <<>>) ELSE s.kids) /\ U = s.trash \ {b} /\ C = s.content
      OBVIOUS
    <2> HIDE DEF K, F, U, C
    <2>2. IsStored(Without(s, b), F, U, C)
      BY ONLY Store(s), <2>1, WithoutFacts
    <2> QED
      BY <2>2 DEF U, IsStored
  <1>2. IsStored(t, F, T, C)
    <2> DEFINE c == DeleteBlock(b)
               w == Without(s, b)
               U == s.trash \ {b}
    <2>1. c.block = b
      BY DEF DeleteBlock
    <2>2. t = [w EXCEPT !.trash = @ \cup {b}]
      BY <2>1 DEF delete
    <2>3. w = [kids |-> F, trash |-> U, content |-> C] /\ T = U \cup {b}
      BY <1>1
    <2> HIDE DEF w, F, U, C, T
    <2> QED
      BY <2>2, <2>3 DEF IsStored
  <1>3. F = (IF b \in Placed(K) THEN InPlaceOf(K, b, <<>>) ELSE K) /\ Apart(K)
    BY <1>0
  <1>4. T \in SUBSET Ids /\ C \in [Ids -> Contents] /\ (\A x \in T : x = b \/ x \notin Placed(K)) /\ K = s.kids /\ C = s.content
    BY <1>0
  <1> HIDE DEF K, F, T, C
  <1>5. LacksOnly(F, K, b)
    BY <1>3, TakenAway
  <1>7. Apart(F) /\ T \cap Placed(F) = {}
    <2>1. Apart(F) /\ F \in [Nodes -> Seq(Ids)] /\ K \in [Nodes -> Seq(Ids)]
      BY <1>3, <1>5 DEF LacksOnly, Apart
    <2>2. ASSUME NEW x \in Placed(F) PROVE x \notin T
      <3>1. PICK r \in Nodes : x \in ToSet(F[r])
        BY <2>1, PlacedIn
      <3>2. x # b /\ x \in ToSet(K[r])
        BY <3>1, <1>5 DEF LacksOnly
      <3>3. x \in Placed(K)
        BY <3>2, <2>1, PlacedIn
      <3> QED
        BY <3>2, <3>3, <1>4
    <2> QED
      BY <2>1, <2>2
  <1>8. Store(t) /\ t.kids = F /\ t.content = C
    BY <1>2, <1>4, <1>7, StoreMade
  <1> QED
    BY <1>4, <1>5, <1>8

\* A replaced block has the new content, the others keep theirs.
LEMMA ReplaceBlockFacts ==
    ASSUME NEW s, Store(s), NEW b \in Ids, NEW c \in Contents, NEW t, t = replace(s, ReplaceBlock(b, c))
    PROVE  Store(t) /\ t.kids = s.kids /\ t.content[b] = c /\ \A x \in Ids : x # b => t.content[x] = s.content[x]
  <1> DEFINE C == [s.content EXCEPT ![b] = c]
             K == s.kids
             T == s.trash
  <1>0. /\ s = [kids |-> s.kids, trash |-> s.trash, content |-> s.content]
        /\ s.trash \in SUBSET Ids /\ s.content \in [Ids -> Contents]
        /\ Apart(s.kids) /\ Blocks(s) = Placed(s.kids) /\ s.trash \cap Blocks(s) = {}
    BY StoreFacts
  <1>1. t = [s EXCEPT !.content = C]
    <2>1. ReplaceBlock(b, c).block = b /\ ReplaceBlock(b, c).content = c
      BY DEF ReplaceBlock
    <2> QED
      BY <2>1 DEF replace
  <1>2. C \in [Ids -> Contents] /\ C[b] = c /\ \A x \in Ids : x # b => C[x] = s.content[x]
    BY <1>0
  <1> HIDE DEF C
  <1>3. IsStored(t, K, T, C)
    BY <1>0, <1>1 DEF IsStored
  <1>4. Apart(K) /\ T \in SUBSET Ids /\ T \cap Placed(K) = {} /\ K = s.kids
    BY <1>0
  <1> HIDE DEF K, T
  <1>5. Store(t) /\ t.kids = K /\ t.content = C
    BY <1>2, <1>3, <1>4, StoreMade
  <1> QED
    BY <1>2, <1>4, <1>5

-----------------------------------------------------------------------------
\* The elements of a finite set, one after the other.
LEMMA SetToSeqFacts ==
    ASSUME NEW S, S \in SUBSET Ids, NEW c, c = SetToSeq(S)
    PROVE  c \in Seq(Ids) /\ DOMAIN c = 1..Len(c) /\ Len(c) \in Nat /\ IsInjective(c) /\ ToSet(c) = S
  <1> DEFINE n == Cardinality(S)
  <1>0. IsFiniteSet(Ids)
    BY BlocksAssumption, FS_Interval DEF Ids
  <1>1. IsFiniteSet(S) /\ n \in Nat
    BY <1>0, FS_Subset, FS_CardinalityType
  <1>2. c = CHOOSE f \in [1..n -> S] : IsInjective(f)
    BY DEF SetToSeq
  <1>3. IsFiniteSet(1..n) /\ Cardinality(1..n) = n
    <2>1. 1 \in Int /\ n \in Int
      BY <1>1
    <2>2. Cardinality(1..n) = IF 1 > n THEN 0 ELSE n - 1 + 1
      BY <2>1, FS_Interval
    <2>3. IsFiniteSet(1..n)
      BY <2>1, FS_Interval
    <2> HIDE DEF n
    <2> QED
      BY <2>2, <2>3, <1>1
  <1>4. \E f \in [1..n -> S] : IsInjective(f)
    <2>1. ExistsBijection(1..n, S)
      BY <1>1, FS_CardinalityType
    <2>2. PICK f : f \in Bijection(1..n, S)
      BY <2>1 DEF ExistsBijection
    <2> HIDE DEF n
    <2> QED
      BY <2>2 DEF Bijection, Injection, IsInjective
  <1> HIDE DEF n
  <1>5. c \in [1..n -> S] /\ IsInjective(c)
    BY <1>2, <1>4
  <1>6. c \in Injection(1..n, S)
    BY <1>5 DEF Injection, IsInjective
  <1>7. c \in Surjection(1..n, S)
    BY <1>1, <1>3, <1>6, FS_Injection DEF n
  <1>8. c \in Seq(Ids) /\ Len(c) = n /\ DOMAIN c = 1..n
    BY <1>1, <1>5
  <1>9. ToSet(c) = S
    BY <1>7, <1>8 DEF Surjection, ToSet
  <1> QED
    BY <1>1, <1>5, <1>8, <1>9

\* At most two changes in a row.
LEMMA AppliedChanges ==
    ASSUME NEW r, NEW cs, NEW n, n = Len(cs), n \in 0..2
    PROVE  applyChanges(r, cs) = IF n = 0 THEN r
                                 ELSE IF n = 1 THEN applyChange(r, cs[1])
                                 ELSE applyChange(applyChange(r, cs[1]), cs[2])
  <1> DEFINE Is(f) == f = [k \in 0..n |-> IF k = 0 THEN r ELSE applyChange(f[k - 1], cs[k])]
             F == CHOOSE f : Is(f)
             one == applyChange(r, cs[1])
             two == applyChange(one, cs[2])
             g == [k \in 0..n |-> IF k = 0 THEN r ELSE IF k = 1 THEN one ELSE two]
  <1>1. ASSUME NEW k \in 0..n PROVE g[k] = IF k = 0 THEN r ELSE applyChange(g[k - 1], cs[k])
    <2>1. CASE k = 0
      BY <2>1
    <2>2. CASE k = 1
      <3>1. 0 \in 0..n /\ k - 1 = 0
        BY <2>2
      <3>2. g[0] = r
        BY <3>1
      <3> QED
        BY <2>2, <3>1, <3>2
    <2>3. CASE k = 2
      <3>1. 1 \in 0..n /\ k - 1 = 1
        BY <2>3
      <3>2. g[1] = one
        BY <3>1
      <3> QED
        BY <2>3, <3>1, <3>2
    <2> QED
      BY <2>1, <2>2, <2>3
  <1>2. Is(g)
    BY <1>1
  <1> HIDE DEF g
  <1>3. Is(F)
    BY <1>2
  <1>4. applyChanges(r, cs) = F[n]
    BY DEF applyChanges
  <1> HIDE DEF F
  <1>5. \A k \in 0..n : F[k] = IF k = 0 THEN r ELSE applyChange(F[k - 1], cs[k])
    BY <1>3
  <1>6. F[0] = r
    <2>1. 0 \in 0..n
      OBVIOUS
    <2> QED
      BY <1>5, <2>1
  <1>7. n # 0 => F[1] = one
    <2> SUFFICES ASSUME n # 0 PROVE F[1] = one
      OBVIOUS
    <2>1. 1 \in 0..n /\ 1 - 1 = 0 /\ 1 # 0
      OBVIOUS
    <2>2. F[1] = IF 1 = 0 THEN r ELSE applyChange(F[1 - 1], cs[1])
      BY ONLY <1>5, <2>1
    <2> QED
      BY <2>1, <2>2, <1>6
  <1>8. n = 2 => F[2] = two
    <2> SUFFICES ASSUME n = 2 PROVE F[2] = two
      OBVIOUS
    <2>1. 2 \in 0..n /\ 2 - 1 = 1 /\ 2 # 0 /\ n # 0
      OBVIOUS
    <2>2. F[2] = IF 2 = 0 THEN r ELSE applyChange(F[2 - 1], cs[2])
      BY ONLY <1>5, <2>1
    <2> QED
      BY <2>1, <2>2, <1>7
  <1> QED
    BY <1>4, <1>6, <1>7, <1>8

\* The answers on the way, block after block.
Answers(f, s, cs) ==
    /\ f[0] = [doc |-> s, refused |-> FALSE]
    /\ \A k \in 1..Len(cs) : f[k] = applyChanges(f[k - 1], cs[k])

AnswersTo(f, s, cs, m) ==
    f = [k \in 0..m |-> IF k = 0 THEN [doc |-> s, refused |-> FALSE] ELSE applyChanges(f[k - 1], cs[k])]

\* The loop over the changes has its answers.
LEMMA AnswersExist ==
    ASSUME NEW s, NEW cs, NEW n \in Nat
    PROVE  \E f : AnswersTo(f, s, cs, n)
  <1> DEFINE B == {m \in 0..n : ~ \E f : AnswersTo(f, s, cs, m)}
             x == [doc |-> s, refused |-> FALSE]
  <1>0. n \in 0..n
    OBVIOUS
  <1> SUFFICES ASSUME B # {} PROVE FALSE
    BY <1>0
  <1>1. PICK m \in B : m = 0 \/ (m \in 1..n /\ m - 1 \in 0..n /\ m - 1 \notin B)
    BY LeastIndex
  <1> HIDE DEF x
  <1>2. CASE m = 0
    <2> DEFINE g == [k \in 0..0 |-> x]
    <2>1. g = [k \in 0..0 |-> IF k = 0 THEN x ELSE applyChanges(g[k - 1], cs[k])]
      OBVIOUS
    <2>2. AnswersTo(g, s, cs, 0)
      BY <2>1 DEF AnswersTo, x
    <2> QED
      BY <1>1, <1>2, <2>2
  <1>3. CASE m # 0
    <2>1. m \in 1..n /\ m - 1 \in 0..n /\ m - 1 \in Nat
      BY <1>1, <1>3
    <2>2. PICK f : AnswersTo(f, s, cs, m - 1)
      BY <1>1, <1>3
    <2>3. \A k \in 0..(m - 1) : f[k] = IF k = 0 THEN x ELSE applyChanges(f[k - 1], cs[k])
      <3>1. f = [k \in 0..(m - 1) |-> IF k = 0 THEN x ELSE applyChanges(f[k - 1], cs[k])]
        BY <2>2 DEF AnswersTo, x
      <3> QED
        BY <3>1
    <2> DEFINE g == [k \in 0..m |-> IF k = m THEN applyChanges(f[m - 1], cs[m]) ELSE f[k]]
    <2>6. ASSUME NEW k \in 0..m PROVE g[k] = IF k = 0 THEN x ELSE applyChanges(g[k - 1], cs[k])
      <3>1. CASE k = 0
        <4>1. 0 \in 0..m /\ 0 # m /\ 0 \in 0..(m - 1)
          BY <2>1
        <4>2. g[0] = f[0]
          BY <4>1
        <4>3. f[0] = x
          BY <2>3, <4>1
        <4> HIDE DEF g
        <4> QED
          BY <3>1, <4>2, <4>3
      <3>2. CASE k # 0
        <4>1. k - 1 \in 0..m /\ k - 1 # m
          BY <2>1, <3>2
        <4>2. g[k - 1] = f[k - 1]
          BY <4>1
        <4>3. CASE k = m
          BY <3>2, <4>2, <4>3
        <4>4. CASE k # m
          <5>1. k \in 0..(m - 1) /\ g[k] = f[k]
            BY <2>1, <4>4
          <5>2. f[k] = applyChanges(f[k - 1], cs[k])
            BY <5>1, <2>3, <3>2
          <5> HIDE DEF g
          <5> QED
            BY <3>2, <4>2, <5>1, <5>2
        <4> QED
          BY <4>3, <4>4
      <3> QED
        BY <3>1, <3>2
    <2>7. g = [k \in 0..m |-> IF k = 0 THEN x ELSE applyChanges(g[k - 1], cs[k])]
      BY <2>6
    <2>8. AnswersTo(g, s, cs, m)
      <3> HIDE DEF g
      <3> QED
        BY <2>7 DEF AnswersTo, x
    <2> QED
      BY <1>1, <2>8
  <1> QED
    BY <1>2, <1>3

\* UpdateDraft returns the last answer, when it is not refused.
LEMMA UpdateLoop ==
    ASSUME NEW s, NEW cs, NEW n \in Nat, n = Len(cs)
    PROVE  \E f : Answers(f, s, cs) /\ (~f[n].refused => UpdateDraft(s, cs) = f[n])
  <1> DEFINE F == CHOOSE f : AnswersTo(f, s, cs, n)
             x == [doc |-> s, refused |-> FALSE]
  <1>1. AnswersTo(F, s, cs, n)
    BY AnswersExist
  <1>2. UpdateDraft(s, cs) = IF F[n].refused THEN [doc |-> s, refused |-> TRUE] ELSE F[n]
    BY DEF UpdateDraft, AnswersTo
  <1> HIDE DEF F
  <1>3. \A k \in 0..n : F[k] = IF k = 0 THEN x ELSE applyChanges(F[k - 1], cs[k])
    <2> HIDE DEF x
    <2>1. F = [k \in 0..n |-> IF k = 0 THEN x ELSE applyChanges(F[k - 1], cs[k])]
      BY <1>1 DEF AnswersTo, x
    <2> QED
      BY <2>1
  <1> HIDE DEF x
  <1>4. 0 \in 0..n /\ \A k \in 1..n : k \in 0..n /\ k # 0
    OBVIOUS
  <1>5. F[0] = x /\ \A k \in 1..n : F[k] = applyChanges(F[k - 1], cs[k])
    BY ONLY <1>3, <1>4
  <1>6. Answers(F, s, cs)
    BY <1>5 DEF Answers, x
  <1> QED
    BY <1>2, <1>6

\* The blocks P of K that are in place: with a block its parent.
UpClosed(K, P) == \A x \in P : x \in Placed(K) /\ (Parent(K, x) = Root \/ Parent(K, x) \in P)

\* From a block in place the parents are in place.
LEMMA NoAncestor ==
    ASSUME NEW t, Store(t), NEW K, GoodKids(K), NEW P, UpClosed(K, P), InTheirPlace(t.kids, K, P),
           NEW p, p = Root \/ p \in P, NEW b, b # Root, b \notin P
    PROVE  ~isAncestor(t, b, p)
  <1> DEFINE n == MaxBlocks
             J == t.kids
             A == Blocks(t)
             S == Nodes
             Up(x) == IF x \in A THEN Parent(J, x) ELSE Root
             Is(f) == f = [k \in 0..n |-> IF k = 0 THEN p ELSE IF f[k - 1] \in Blocks(t) THEN Parent(t.kids, f[k - 1]) ELSE Root]
             F == CHOOSE f : Is(f)
             G == [k \in 1..n |-> [x \in S |-> Up(x)]]
  <1>0. n \in Nat /\ J \in [Nodes -> Seq(Ids)] /\ Apart(J) /\ A = Placed(J) /\ A \subseteq Ids /\ Root \notin Ids /\ Root \in Nodes
    BY StoreFacts, BlocksAssumption, RootIsNoBlock
  <1>1. \A x \in S : Up(x) \in S
    BY <1>0, PlaceOf DEF IsPlace
  <1>2. p \in S
    BY <1>0, GoodHas, RootIsNoBlock DEF UpClosed
  <1>3. G \in [1..n -> [S -> S]]
    BY <1>1
  <1>4. PICK f : IsLoop(f, S, p, G, n)
    <2> HIDE DEF n, S, G
    <2> QED
      BY <1>0, <1>2, <1>3, LoopExists
  <1>5. f \in [0..n -> S] /\ f[0] = p /\ \A k \in 1..n : f[k] = G[k][f[k - 1]]
    BY <1>4 DEF IsLoop
  <1>6. ASSUME NEW k \in 0..n PROVE f[k] = IF k = 0 THEN p ELSE Up(f[k - 1])
    <2>1. CASE k = 0
      BY <1>5, <2>1
    <2>2. CASE k # 0
      <3>1. k \in 1..n /\ k - 1 \in 0..n
        BY <1>0, <2>2
      <3>2. f[k - 1] \in S
        BY <1>5, <3>1
      <3>3. G[k][f[k - 1]] = Up(f[k - 1])
        BY <3>1, <3>2
      <3> HIDE DEF G
      <3> QED
        BY <1>5, <3>1, <3>3, <2>2
    <2> QED
      BY <2>1, <2>2
  <1>7. Is(f)
    BY <1>5, <1>6
  <1>8. Is(F)
    BY <1>7
  <1>9. isAncestor(t, b, p) <=> \E k \in 1..n : F[k] = b
    BY DEF isAncestor
  <1> HIDE DEF F, G
  <1>10. \A k \in 0..n : F[k] = IF k = 0 THEN p ELSE Up(F[k - 1])
    BY <1>8
  <1>11. ASSUME NEW x, x = Root \/ x \in P PROVE Up(x) = Root \/ Up(x) \in P
    <2>1. CASE x \in P
      <3>1. x \in Placed(K) /\ x \in ToSet(J[Parent(K, x)])
        BY <2>1 DEF UpClosed, InTheirPlace
      <3>2. Parent(K, x) \in Nodes
        BY <3>1, ParentPlaced
      <3>3. x \in Placed(J)
        BY <3>1, <3>2, <1>0, PlacedIn
      <3>4. Parent(J, x) = Parent(K, x)
        BY <3>1, <3>2, <3>3, <1>0, PlaceOf
      <3> QED
        BY <2>1, <3>3, <3>4, <1>0 DEF UpClosed
    <2>2. CASE x = Root
      BY <2>2, <1>0
    <2> QED
      BY <1>11, <2>1, <2>2
  <1> HIDE DEF Up
  <1> DEFINE B == {k \in 0..n : ~(F[k] = Root \/ F[k] \in P)}
  <1>12. B = {}
    <2> SUFFICES ASSUME B # {} PROVE FALSE
      OBVIOUS
    <2> HIDE DEF n
    <2>1. PICK k \in B : k = 0 \/ (k \in 1..n /\ k - 1 \in 0..n /\ k - 1 \notin B)
      BY <1>0, LeastIndex
    <2>2. CASE k = 0
      BY <1>10, <2>1, <2>2
    <2>3. CASE k # 0
      <3>1. F[k - 1] = Root \/ F[k - 1] \in P
        BY <2>1, <2>3
      <3>2. F[k] = Up(F[k - 1])
        BY <1>10, <2>1, <2>3
      <3> QED
        BY <3>1, <3>2, <1>11, <2>1
    <2> QED
      BY <2>2, <2>3
  <1>13. \A k \in 1..n : k \in 0..n
    BY <1>0
  <1> QED
    BY <1>9, <1>12, <1>13

-----------------------------------------------------------------------------
\* The daemon's document t on the way from s to d: the blocks P are done,
\* the blocks Q are deleted, the others are as they were.
Unchanged(t, s, X) ==
    \A x \in X : (\A r \in Nodes : x \in ToSet(t.kids[r]) <=> x \in ToSet(s.kids[r])) /\ t.content[x] = s.content[x]
Written(t, d, P) == \A x \in P : t.content[x] = fromHMBlock(d, x)
Absent(t, Q) == \A x \in Q : \A r \in Nodes : x \notin ToSet(t.kids[r])

\* If the blocks that are not to be moved were in order, they are in order
\* with the blocks P.
InOrder(t, s, d, P) ==
    Orderly(s.kids, d.kids, Unmoved(s.kids, d.kids)) => Orderly(t.kids, d.kids, P \cup Unmoved(s.kids, d.kids))

Progress(t, s, d, P, Q) ==
    /\ Store(t) /\ InOrder(t, s, d, P)
    /\ InTheirPlace(t.kids, d.kids, P) /\ Written(t, d, P)
    /\ Unchanged(t, s, Ids \ (P \cup Q)) /\ Absent(t, Q)

\* A block whose parent and left sibling are in place can be moved.
LEMMA MoveIsAccepted ==
    ASSUME NEW t, Store(t), NEW K, GoodKids(K), NEW P, UpClosed(K, P), InTheirPlace(t.kids, K, P),
           NEW b \in Placed(K), b \notin P, NEW p, p = Parent(K, b), NEW l, l = Left(K, b),
           p = Root \/ p \in P, l = Root \/ l \in P
    PROVE  /\ ~MoveRefused(t, MoveBlock(b, p, l))
           /\ p \in Nodes /\ b \in Ids /\ (l = Root \/ (l \in ToSet(t.kids[p]) /\ l # b))
  <1> DEFINE c == MoveBlock(b, p, l)
  <1>0. c.block = b /\ c.parent = p /\ c.left = l
    BY DEF MoveBlock
  <1>1. p \in Nodes /\ b \in ToSet(K[p]) /\ b \in Ids /\ p # b /\ b # Root /\ Apart(K)
    BY ParentPlaced, RootIsNoBlock DEF GoodKids
  <1>2. l = Root \/ (l \in ToSet(K[p]) /\ l # b)
    BY <1>1, LeftOf
  <1>3. ASSUME l # Root PROVE l \in ToSet(t.kids[p]) /\ l # b /\ l # p
    <2>1. l \in P /\ l \in ToSet(K[p]) /\ l # b
      BY <1>2, <1>3
    <2>2. l \in Placed(K)
      BY <2>1, <1>1, GoodHas
    <2>3. Parent(K, l) = p
      BY <2>1, <2>2, <1>1, PlaceOf
    <2>4. l \in ToSet(t.kids[p])
      BY <2>1, <2>3 DEF InTheirPlace
    <2>5. l # p
      BY <2>1, <1>1, NotItsOwn
    <2> QED
      BY <2>1, <2>4, <2>5
  <1>4. b # l
    BY <1>1, <1>3
  <1>5. ASSUME p # Root PROVE p \in Known(t)
    <2>1. p \in P /\ p \in Placed(K)
      BY <1>5 DEF UpClosed
    <2>2. p \in ToSet(t.kids[Parent(K, p)]) /\ Parent(K, p) \in Nodes
      BY <2>1, ParentPlaced DEF InTheirPlace
    <2>3. p \in Blocks(t)
      BY <2>2, StoreFacts, PlacedIn
    <2> QED
      BY <2>3 DEF Known
  <1>6. ~isAncestor(t, b, p)
    BY <1>1, NoAncestor
  <1>7. p # Root => p # l
    BY <1>3
  <1> HIDE DEF c
  <1>8. ~MoveRefused(t, c)
    BY <1>0, <1>3, <1>4, <1>5, <1>6, <1>7 DEF MoveRefused
  <1> QED
    BY <1>1, <1>3, <1>8 DEF c

Accepted(t) == [doc |-> t, refused |-> FALSE]

\* A move that is not refused is applied ...
LEMMA AppliedMove ==
    ASSUME NEW t, NEW b, NEW p, NEW l, ~MoveRefused(t, MoveBlock(b, p, l))
    PROVE  applyChange(Accepted(t), MoveBlock(b, p, l)) = Accepted(move(t, MoveBlock(b, p, l)))
  <1> DEFINE c == MoveBlock(b, p, l)
             u == move(t, c)
             r == Accepted(t)
  <1>1. c.op = "moveBlock" /\ c.op # "replaceBlock" /\ c.op # "deleteBlock"
    BY DEF MoveBlock
  <1>2. r = [doc |-> t, refused |-> FALSE] /\ ~MoveRefused(t, c)
    BY DEF Accepted
  <1>3. r.refused = FALSE /\ r.doc = t
    BY <1>2
  <1> HIDE DEF c, r
  <1>4. applyChange(r, c) = [r EXCEPT !.doc = u]
    BY <1>1, <1>2, <1>3 DEF applyChange
  <1> HIDE DEF u
  <1> QED
    BY <1>2, <1>4 DEF Accepted, u, c, r

\* ... and so are a replacement
LEMMA AppliedReplace ==
    ASSUME NEW t, NEW b, NEW x
    PROVE  applyChange(Accepted(t), ReplaceBlock(b, x)) = Accepted(replace(t, ReplaceBlock(b, x)))
  <1> DEFINE c == ReplaceBlock(b, x)
             u == replace(t, c)
             r == Accepted(t)
  <1>1. c.op = "replaceBlock" /\ c.op # "moveBlock" /\ c.op # "deleteBlock"
    BY DEF ReplaceBlock
  <1>2. r = [doc |-> t, refused |-> FALSE]
    BY DEF Accepted
  <1>3. r.refused = FALSE /\ r.doc = t
    BY <1>2
  <1> HIDE DEF c, r
  <1>4. applyChange(r, c) = [r EXCEPT !.doc = u]
    BY <1>1, <1>2, <1>3 DEF applyChange
  <1> HIDE DEF u
  <1> QED
    BY <1>2, <1>4 DEF Accepted, u, c, r

\* and a deletion.
LEMMA AppliedDelete ==
    ASSUME NEW t, NEW b
    PROVE  applyChange(Accepted(t), DeleteBlock(b)) = Accepted(delete(t, DeleteBlock(b)))
  <1> DEFINE c == DeleteBlock(b)
             u == delete(t, c)
             r == Accepted(t)
  <1>1. c.op = "deleteBlock" /\ c.op # "moveBlock" /\ c.op # "replaceBlock"
    BY DEF DeleteBlock
  <1>2. r = [doc |-> t, refused |-> FALSE]
    BY DEF Accepted
  <1>3. r.refused = FALSE /\ r.doc = t
    BY <1>2
  <1> HIDE DEF c, r
  <1>4. applyChange(r, c) = [r EXCEPT !.doc = u]
    BY <1>1, <1>2, <1>3 DEF applyChange
  <1> HIDE DEF u
  <1> QED
    BY <1>2, <1>4 DEF Accepted, u, c, r

-----------------------------------------------------------------------------
\* b is in place too, with the content that it had.
MovedOnly(t, s, d, P, Q, b) ==
    /\ Store(t) /\ InOrder(t, s, d, P \cup {b})
    /\ InTheirPlace(t.kids, d.kids, P \cup {b}) /\ Written(t, d, P)
    /\ Unchanged(t, s, Ids \ (P \cup {b} \cup Q)) /\ Absent(t, Q)
    /\ t.content[b] = s.content[b]

\* A block that has its parent and its left sibling is not moved.
LEMMA StayStep ==
    ASSUME NEW t, NEW s, Store(s), NEW d, NEW P, NEW Q, Progress(t, s, d, P, Q),
           NEW b \in Ids, b \notin P \cup Q, Parent(d.kids, b) \in Nodes, b \in Unmoved(s.kids, d.kids)
    PROVE  MovedOnly(t, s, d, P, Q, b)
  <1>0. b \in ToSet(s.kids[Parent(d.kids, b)])
    <2>1. b \in Placed(s.kids) /\ Parent(s.kids, b) = Parent(d.kids, b)
      BY DEF Unmoved
    <2> QED
      BY <2>1, StoreFacts, PlaceOf DEF IsPlace
  <1>1. b \in Ids \ (P \cup Q)
    OBVIOUS
  <1>2. b \in ToSet(t.kids[Parent(d.kids, b)]) /\ t.content[b] = s.content[b]
    BY <1>0, <1>1 DEF Progress, Unchanged
  <1>3. InTheirPlace(t.kids, d.kids, P \cup {b})
    BY <1>2 DEF Progress, InTheirPlace
  <1>4. Unchanged(t, s, Ids \ (P \cup {b} \cup Q))
    BY DEF Progress, Unchanged
  <1>5. InOrder(t, s, d, P \cup {b})
    <2> DEFINE U == Unmoved(s.kids, d.kids)
    <2>1. (P \cup {b}) \cup U = P \cup U
      OBVIOUS
    <2> QED
      BY <2>1 DEF Progress, InOrder
  <1> QED
    BY <1>2, <1>3, <1>4, <1>5 DEF Progress, MovedOnly

\* A moved block is in place, and no other block has left its own.
LEMMA MoveStep ==
    ASSUME NEW t, NEW s, NEW d, GoodDoc(d), NEW P, UpClosed(d.kids, P), NEW Q, Progress(t, s, d, P, Q),
           NEW b \in Blocks(d), b \in Ids, b \notin P \cup Q, NEW p \in Nodes, p = Parent(d.kids, b),
           NEW l, l = Left(d.kids, b), l = Root \/ l \in P,
           NEW u, Store(u), PutUnder(u.kids, t.kids, b, p), PutInOrder(u.kids, t.kids, b, p, l), u.content = t.content
    PROVE  MovedOnly(u, s, d, P, Q, b)
  <1> DEFINE K == d.kids
             J == t.kids
             E == u.kids
  <1>0. \A r \in Nodes : \A x : x \in ToSet(E[r]) <=> (x \in ToSet(J[r]) /\ x # b) \/ (x = b /\ r = p)
    BY DEF PutUnder
  <1>1. \A x \in P : Parent(K, x) \in Nodes
    <2>1. GoodKids(K)
      BY DocFacts
    <2> QED
      BY <2>1, ParentPlaced DEF UpClosed
  <1>2. InTheirPlace(E, K, P \cup {b})
    <2> SUFFICES ASSUME NEW x \in P \cup {b} PROVE x \in ToSet(E[Parent(K, x)])
      BY DEF InTheirPlace
    <2>1. CASE x = b
      BY <2>1, <1>0
    <2>2. CASE x # b
      <3>1. x \in P /\ x \in ToSet(J[Parent(K, x)])
        BY <2>2 DEF Progress, InTheirPlace
      <3> QED
        BY <2>2, <3>1, <1>0, <1>1
    <2> QED
      BY <2>1, <2>2
  <1>3. Written(u, d, P)
    BY DEF Progress, Written
  <1>4. Unchanged(u, s, Ids \ (P \cup {b} \cup Q))
    <2> SUFFICES ASSUME NEW x \in Ids \ (P \cup {b} \cup Q)
                 PROVE  (\A r \in Nodes : x \in ToSet(u.kids[r]) <=> x \in ToSet(s.kids[r])) /\ u.content[x] = s.content[x]
      BY DEF Unchanged
    <2>1. x # b /\ x \in Ids \ (P \cup Q)
      OBVIOUS
    <2>2. (\A r \in Nodes : x \in ToSet(t.kids[r]) <=> x \in ToSet(s.kids[r])) /\ t.content[x] = s.content[x]
      BY <2>1 DEF Progress, Unchanged
    <2> QED
      BY <2>1, <2>2, <1>0
  <1>5. Absent(u, Q)
    <2> SUFFICES ASSUME NEW x \in Q, NEW r \in Nodes PROVE x \notin ToSet(u.kids[r])
      BY DEF Absent
    <2>1. x # b /\ x \notin ToSet(t.kids[r])
      BY DEF Progress, Absent
    <2> QED
      BY <2>1, <1>0
  <1>6. u.content[b] = s.content[b]
    BY DEF Progress, Unchanged
  <1>7. InOrder(u, s, d, P \cup {b})
    <2> DEFINE U == Unmoved(s.kids, K)
               W == P \cup U
    <2> SUFFICES ASSUME Orderly(s.kids, K, U) PROVE Orderly(E, K, (P \cup {b}) \cup U)
      BY DEF InOrder
    <2>1. Apart(K) /\ Apart(E) /\ J \in [Nodes -> Seq(Ids)] /\ b \in Placed(K)
      BY DocFacts, StoreFacts DEF GoodKids, Progress
    <2>2. W \in SUBSET Placed(K)
      BY DEF UpClosed, Unmoved
    <2>3. Orderly(J, K, W)
      BY DEF Progress, InOrder
    <2>4. KeptBut(E, J, b) /\ Parent(E, b) = p /\ Left(E, b) = l
      BY DEF PutInOrder
    <2>5. \A r \in Nodes : \A x \in ToSet(J[r]) : x # b => x \in ToSet(E[r])
      BY <1>0
    <2>6. b \in Placed(E)
      <3>1. b \in ToSet(E[p]) /\ E \in [Nodes -> Seq(Ids)]
        BY <1>0, <2>1 DEF Apart
      <3> QED
        BY <3>1, PlacedIn
    <2>7. b \in Unmoved(E, K)
      BY <2>1, <2>4, <2>6 DEF Unmoved
    <2>8. (P \cup {b}) \cup U = (W \ {b}) \cup {b} /\ l = Left(K, b)
      OBVIOUS
    <2>9. l = Root \/ l \in W \ {b}
      OBVIOUS
    <2> DEFINE V == W \ {b}
    <2> HIDE DEF W, U, K, J, E
    <2>10. Orderly(E, K, W \ {b})
      BY ONLY <2>1, <2>2, <2>3, <2>4, <2>5, KeepsOrder
    <2>11. V \in SUBSET Placed(K) /\ Orderly(E, K, V) /\ (l = Root \/ l \in V)
      BY <2>2, <2>9, <2>10
    <2> HIDE DEF V
    <2>12. Orderly(E, K, V \cup {b})
      BY ONLY <2>1, <2>7, <2>8, <2>11, OrderlyWith
    <2> QED
      BY <2>8, <2>12 DEF V
  <1> QED
    BY <1>2, <1>3, <1>4, <1>5, <1>6, <1>7 DEF MovedOnly

\* A block that has its content is not replaced.
LEMMA KeepStep ==
    ASSUME NEW t, NEW s, NEW d, NEW P, NEW Q, NEW b, MovedOnly(t, s, d, P, Q, b), s.content[b] = fromHMBlock(d, b)
    PROVE  Progress(t, s, d, P \cup {b}, Q)
  <1>1. Written(t, d, P \cup {b})
    BY DEF MovedOnly, Written
  <1> QED
    BY <1>1 DEF MovedOnly, Progress

\* What fromHMBlock returns.
LEMMA HMBlockIn == ASSUME NEW d, GoodDoc(d), NEW b \in Ids PROVE fromHMBlock(d, b) \in Contents
  <1>1. d.words[b] \in Seq(Nat)
    BY DocFacts
  <1>2. (b \in d.headings) \in BOOLEAN /\ (d.kids[b] # <<>>) \in BOOLEAN
    OBVIOUS
  <1> QED
    BY <1>1, <1>2 DEF fromHMBlock, Contents

\* A replaced block is done.
LEMMA WriteStep ==
    ASSUME NEW t, NEW s, NEW d, NEW P, NEW Q, NEW b \in Ids, b \notin P, MovedOnly(t, s, d, P, Q, b), P \subseteq Ids,
           NEW c, c = fromHMBlock(d, b), NEW u, Store(u), u.kids = t.kids, u.content[b] = c,
           \A x \in Ids : x # b => u.content[x] = t.content[x]
    PROVE  Progress(u, s, d, P \cup {b}, Q)
  <1>1. InTheirPlace(u.kids, d.kids, P \cup {b}) /\ Absent(u, Q)
    BY DEF MovedOnly, Absent
  <1>2. Written(u, d, P \cup {b})
    <2> SUFFICES ASSUME NEW x \in P \cup {b} PROVE u.content[x] = fromHMBlock(d, x)
      BY DEF Written
    <2>1. CASE x = b
      BY <2>1
    <2>2. CASE x # b
      BY <2>2 DEF MovedOnly, Written
    <2> QED
      BY <2>1, <2>2
  <1>3. Unchanged(u, s, Ids \ (P \cup {b} \cup Q))
    BY DEF MovedOnly, Unchanged
  <1>4. InOrder(u, s, d, P \cup {b})
    BY DEF MovedOnly, InOrder
  <1> QED
    BY <1>1, <1>2, <1>3, <1>4 DEF Progress

Stays(s, d, b) == b \in Unmoved(s.kids, d.kids)
Keeps(s, d, b) == s.content[b] = fromHMBlock(d, b)

\* compareBlock: what is not sent needs no change.
LEMMA ComparedBlock ==
    ASSUME NEW d, GoodDoc(d), NEW s, Store(s), NEW b \in Blocks(d),
           NEW M, M = MoveBlock(b, Parent(d.kids, b), Left(d.kids, b)),
           NEW R, R = ReplaceBlock(b, fromHMBlock(d, b)),
           NEW call, NEW cs, cs = compareBlock(d, createBlocksMap(s), b, call)
    PROVE  \/ cs = <<>> /\ Stays(s, d, b) /\ Keeps(s, d, b)
           \/ cs = <<M>> /\ Keeps(s, d, b)
           \/ cs = <<R>> /\ Stays(s, d, b)
           \/ cs = <<M, R>>
  <1> DEFINE map == createBlocksMap(s)
             block == fromHMBlock(d, b)
             new == b \notin DOMAIN map \/ (call = "update" /\ map[b].block.listLevel # block.listLevel)
             moved == new \/ map[b].left # Left(d.kids, b) \/ map[b].parent # Parent(d.kids, b)
             replaced == new \/ map[b].block # block
  <1>1. cs = (IF moved THEN <<M>> ELSE <<>>) \o (IF replaced THEN <<R>> ELSE <<>>)
    BY DEF compareBlock
  <1>2. DOMAIN map = Blocks(s)
    BY DEF createBlocksMap
  <1>3. ASSUME b \in Blocks(s)
        PROVE  map[b].parent = Parent(s.kids, b) /\ map[b].left = Left(s.kids, b) /\ map[b].block = s.content[b]
    BY <1>3 DEF createBlocksMap
  <1>4. ~moved => Stays(s, d, b)
    <2> SUFFICES ASSUME ~moved PROVE Stays(s, d, b)
      OBVIOUS
    <2>1. b \in Blocks(s) /\ map[b].parent = Parent(d.kids, b) /\ map[b].left = Left(d.kids, b)
      BY <1>2
    <2>2. Parent(s.kids, b) = Parent(d.kids, b) /\ Left(s.kids, b) = Left(d.kids, b)
      BY <2>1, <1>3
    <2>3. b \in Placed(s.kids) /\ b \in Placed(d.kids)
      BY <2>1 DEF Blocks
    <2> QED
      BY <2>2, <2>3 DEF Stays, Unmoved
  <1>5. ~replaced => Keeps(s, d, b)
    BY <1>2, <1>3 DEF Keeps
  <1> HIDE DEF moved, replaced
  <1>6. <<M>> \o <<R>> = <<M, R>>
    BY TwoInARow
  <1>7. <<M>> \o <<>> = <<M>> /\ <<>> \o <<R>> = <<R>>
    OBVIOUS
  <1>8. CASE moved /\ replaced
    BY <1>1, <1>6, <1>8
  <1>9. CASE moved /\ ~replaced
    BY <1>1, <1>5, <1>7, <1>9
  <1>10. CASE ~moved /\ replaced
    BY <1>1, <1>4, <1>7, <1>10
  <1>11. CASE ~moved /\ ~replaced
    BY <1>1, <1>4, <1>5, <1>11
  <1> QED
    BY <1>8, <1>9, <1>10, <1>11

\* The changes cs are accepted, and then b is done.
Does(cs, t, s, d, P, Q, b) ==
    \E u : applyChanges(Accepted(t), cs) = Accepted(u) /\ Progress(u, s, d, P \cup {b}, Q)

\* So are the changes of one block.
LEMMA BlockStep ==
    ASSUME NEW d, GoodDoc(d), NEW s, Store(s), NEW P, UpClosed(d.kids, P), NEW Q, NEW t, Progress(t, s, d, P, Q),
           NEW b \in Blocks(d), b \notin P \cup Q,
           Parent(d.kids, b) = Root \/ Parent(d.kids, b) \in P, Left(d.kids, b) = Root \/ Left(d.kids, b) \in P,
           NEW call
    PROVE  Does(compareBlock(d, createBlocksMap(s), b, call), t, s, d, P, Q, b)
  <1> SUFFICES \E u : /\ applyChanges(Accepted(t), compareBlock(d, createBlocksMap(s), b, call)) = Accepted(u)
                     /\ Progress(u, s, d, P \cup {b}, Q)
    BY DEF Does
  <1> DEFINE K == d.kids
             p == Parent(K, b)
             l == Left(K, b)
             c == fromHMBlock(d, b)
             M == MoveBlock(b, p, l)
             R == ReplaceBlock(b, c)
             cs == compareBlock(d, createBlocksMap(s), b, call)
             stays == Stays(s, d, b)
             keeps == Keeps(s, d, b)
             r == Accepted(t)
             v == move(t, M)
  <1>0. /\ GoodKids(K) /\ b \in Placed(K) /\ b \in Ids /\ p \in Nodes /\ Store(t) /\ InTheirPlace(t.kids, K, P)
        /\ c \in Contents /\ P \subseteq Ids
    <2>1. GoodKids(K) /\ b \in Placed(K) /\ b \in Ids
      BY DocFacts
    <2>2. p \in Nodes
      BY <2>1, ParentPlaced
    <2>3. c \in Contents
      BY <2>1, HMBlockIn
    <2>4. P \subseteq Ids
      BY <2>1, GoodHas DEF UpClosed
    <2> QED
      BY <2>1, <2>2, <2>3, <2>4 DEF Progress
  <1>1. ~MoveRefused(t, M) /\ (l = Root \/ (l \in ToSet(t.kids[p]) /\ l # b))
    <2>1. K = d.kids /\ p = Parent(K, b) /\ l = Left(K, b) /\ UpClosed(K, P) /\ (p = Root \/ p \in P) /\ (l = Root \/ l \in P)
          /\ b \notin P
      OBVIOUS
    <2> HIDE DEF K, p, l
    <2> QED
      BY <1>0, <2>1, MoveIsAccepted
  <1>2. \/ cs = <<>> /\ stays /\ keeps
        \/ cs = <<M>> /\ keeps
        \/ cs = <<R>> /\ stays
        \/ cs = <<M, R>>
    <2>1. M = MoveBlock(b, Parent(d.kids, b), Left(d.kids, b)) /\ R = ReplaceBlock(b, fromHMBlock(d, b))
      OBVIOUS
    <2> HIDE DEF M, R
    <2> QED
      BY <2>1, ComparedBlock
  <1>3. applyChange(r, M) = Accepted(v)
    BY <1>1, AppliedMove
  <1>4. MovedOnly(v, s, d, P, Q, b)
    <2>1. Store(v) /\ PutUnder(v.kids, t.kids, b, p) /\ PutInOrder(v.kids, t.kids, b, p, l) /\ v.content = t.content
      <3>1. v = move(t, MoveBlock(b, p, l))
        OBVIOUS
      <3> HIDE DEF v, p, l
      <3> QED
        BY <1>0, <1>1, <3>1, MoveFacts
    <2>2. p = Parent(d.kids, b) /\ l = Left(d.kids, b) /\ (l = Root \/ l \in P)
      OBVIOUS
    <2> HIDE DEF p, v, l
    <2> QED
      BY <1>0, <2>1, <2>2, MoveStep
  <1>5. stays => MovedOnly(t, s, d, P, Q, b)
    BY <1>0, StayStep DEF Stays
  <1>6. ASSUME NEW w, MovedOnly(w, s, d, P, Q, b)
        PROVE  \E u : applyChange(Accepted(w), R) = Accepted(u) /\ Progress(u, s, d, P \cup {b}, Q)
    <2> DEFINE u == replace(w, R)
    <2>1. applyChange(Accepted(w), R) = Accepted(u)
      BY AppliedReplace
    <2>2. Store(u) /\ u.kids = w.kids /\ u.content[b] = c /\ \A x \in Ids : x # b => u.content[x] = w.content[x]
      <3>1. u = replace(w, ReplaceBlock(b, c)) /\ Store(w)
        BY <1>6 DEF MovedOnly
      <3> HIDE DEF u, c
      <3> QED
        BY <1>0, <3>1, ReplaceBlockFacts
    <2>3. Progress(u, s, d, P \cup {b}, Q)
      <3>1. c = fromHMBlock(d, b)
        OBVIOUS
      <3> HIDE DEF u, c
      <3> QED
        BY <1>0, <1>6, <2>2, <3>1, WriteStep
    <2> QED
      BY <2>1, <2>3
  <1>7. applyChanges(r, cs) = IF Len(cs) = 0 THEN r
                              ELSE IF Len(cs) = 1 THEN applyChange(r, cs[1])
                              ELSE applyChange(applyChange(r, cs[1]), cs[2])
    <2>1. Len(cs) \in 0..2
      <3> HIDE DEF cs, M, R
      <3> QED
        BY <1>2
    <2> HIDE DEF cs, r
    <2> QED
      BY <2>1, AppliedChanges
  <1> HIDE DEF M, R, cs, r, v
  <1>8. CASE cs = <<>> /\ stays /\ keeps
    <2>1. applyChanges(r, cs) = Accepted(t)
      BY <1>7, <1>8 DEF r
    <2>2. Progress(t, s, d, P \cup {b}, Q)
      BY <1>5, <1>8, KeepStep DEF Keeps
    <2> QED
      BY <2>1, <2>2 DEF cs, r
  <1>9. CASE cs = <<M>> /\ keeps
    <2>1. Len(cs) = 1 /\ cs[1] = M
      BY <1>9
    <2>2. applyChanges(r, cs) = Accepted(v)
      BY <1>3, <1>7, <2>1
    <2>3. Progress(v, s, d, P \cup {b}, Q)
      BY <1>4, <1>9, KeepStep DEF Keeps
    <2> QED
      BY <2>2, <2>3 DEF cs, r
  <1>10. CASE cs = <<R>> /\ stays
    <2>1. Len(cs) = 1 /\ cs[1] = R
      BY <1>10
    <2>2. applyChanges(r, cs) = applyChange(Accepted(t), R)
      BY <1>7, <2>1 DEF r
    <2> QED
      BY <1>5, <1>6, <1>10, <2>2 DEF cs, r
  <1>11. CASE cs = <<M, R>>
    <2>1. Len(cs) = 2 /\ cs[1] = M /\ cs[2] = R
      BY <1>11
    <2>2. applyChanges(r, cs) = applyChange(Accepted(v), R)
      BY <1>3, <1>7, <2>1
    <2> QED
      BY <1>4, <1>6, <2>2 DEF cs, r
  <1> QED
    BY <1>2, <1>8, <1>9, <1>10, <1>11

\* A deletion is accepted, and then the block is gone.
LEMMA DeleteStep ==
    ASSUME NEW d, GoodDoc(d), NEW s, NEW P, UpClosed(d.kids, P), NEW Q, NEW t, Progress(t, s, d, P, Q),
           NEW b \in Ids, b \notin P, b \notin Blocks(d)
    PROVE  \E u : /\ applyChanges(Accepted(t), <<DeleteBlock(b)>>) = Accepted(u)
                  /\ Progress(u, s, d, P, Q \cup {b})
  <1> DEFINE u == delete(t, DeleteBlock(b))
             cs == <<DeleteBlock(b)>>
             r == Accepted(t)
  <1>1. applyChanges(r, cs) = Accepted(u)
    <2>1. Len(cs) = 1 /\ cs[1] = DeleteBlock(b) /\ Len(cs) \in 0..2
      OBVIOUS
    <2>2. applyChange(r, DeleteBlock(b)) = Accepted(u)
      BY AppliedDelete
    <2> HIDE DEF cs, r, u
    <2>3. applyChanges(r, cs) = IF Len(cs) = 0 THEN r
                              ELSE IF Len(cs) = 1 THEN applyChange(r, cs[1])
                              ELSE applyChange(applyChange(r, cs[1]), cs[2])
      BY <2>1, AppliedChanges
    <2> QED
      BY <2>1, <2>2, <2>3
  <1>2. Store(u) /\ LacksOnly(u.kids, t.kids, b) /\ u.content = t.content
    BY DeleteFacts DEF Progress
  <1> HIDE DEF u
  <1>3. \A x \in P : Parent(d.kids, x) \in Nodes
    <2>1. GoodKids(d.kids)
      BY DocFacts
    <2> QED
      BY <2>1, ParentPlaced DEF UpClosed
  <1>4. InTheirPlace(u.kids, d.kids, P)
    BY <1>2, <1>3 DEF InTheirPlace, LacksOnly, Progress
  <1>5. Written(u, d, P)
    BY <1>2 DEF Progress, Written
  <1>6. Unchanged(u, s, Ids \ (P \cup (Q \cup {b})))
    <2> SUFFICES ASSUME NEW x \in Ids \ (P \cup (Q \cup {b}))
                 PROVE  (\A z \in Nodes : x \in ToSet(u.kids[z]) <=> x \in ToSet(s.kids[z])) /\ u.content[x] = s.content[x]
      BY DEF Unchanged
    <2>1. x # b /\ x \in Ids \ (P \cup Q)
      OBVIOUS
    <2>2. (\A z \in Nodes : x \in ToSet(t.kids[z]) <=> x \in ToSet(s.kids[z])) /\ t.content[x] = s.content[x]
      BY <2>1 DEF Progress, Unchanged
    <2> QED
      BY <2>1, <2>2, <1>2 DEF LacksOnly
  <1>7. Absent(u, Q \cup {b})
    BY <1>2 DEF LacksOnly, Progress, Absent
  <1>9. InOrder(u, s, d, P)
    <2> DEFINE K == d.kids
               J == t.kids
               E == u.kids
               U == Unmoved(s.kids, K)
               W == P \cup U
    <2> SUFFICES ASSUME Orderly(s.kids, K, U) PROVE Orderly(E, K, W)
      BY DEF InOrder
    <2>1. Apart(K) /\ J \in [Nodes -> Seq(Ids)] /\ b \notin Placed(K)
      BY DocFacts, StoreFacts DEF GoodKids, Progress
    <2>2. W \in SUBSET Placed(K)
      BY DEF UpClosed, Unmoved
    <2>3. Orderly(J, K, W)
      BY DEF Progress, InOrder
    <2>4. KeptBut(E, J, b)
      BY <1>2 DEF LacksOnly, Kept, KeptList, KeptBut
    <2>5. \A n \in Nodes : \A x \in ToSet(J[n]) : x # b => x \in ToSet(E[n])
      BY <1>2 DEF LacksOnly
    <2>6. W \ {b} = W
      BY <2>1, <2>2
    <2> HIDE DEF W, U, K, J, E
    <2>7. Orderly(E, K, W \ {b})
      BY ONLY <2>1, <2>2, <2>3, <2>4, <2>5, KeepsOrder
    <2> QED
      BY <2>6, <2>7
  <1>8. Progress(u, s, d, P, Q \cup {b})
    BY <1>2, <1>4, <1>5, <1>6, <1>7, <1>9 DEF Progress
  <1> QED
    BY <1>1, <1>8

-----------------------------------------------------------------------------
\* The first k elements of c.
DoneTo(c, k) == {x \in ToSet(c) : \E j \in 1..Len(c) : j <= k /\ c[j] = x}

\* One element more with every round, all of them at the end.
LEMMA DoneFacts ==
    ASSUME NEW c \in Seq(Ids), IsInjective(c), NEW k \in Int
    PROVE  /\ k <= 0 => DoneTo(c, k) = {}
           /\ k >= Len(c) => DoneTo(c, k) = ToSet(c)
           /\ k \in 1..Len(c) => /\ DoneTo(c, k) = DoneTo(c, k - 1) \cup {c[k]}
                                 /\ c[k] \notin DoneTo(c, k - 1) /\ c[k] \in ToSet(c)
  <1>0. Len(c) \in Nat /\ DOMAIN c = 1..Len(c)
    OBVIOUS
  <1>1. k <= 0 => DoneTo(c, k) = {}
    BY <1>0 DEF DoneTo
  <1>2. ASSUME k >= Len(c) PROVE DoneTo(c, k) = ToSet(c)
    <2>1. \A j \in 1..Len(c) : j <= k
      BY <1>0, <1>2
    <2> QED
      BY <1>0, <2>1 DEF DoneTo, ToSet
  <1>3. ASSUME k \in 1..Len(c) PROVE c[k] \notin DoneTo(c, k - 1) /\ c[k] \in ToSet(c)
    <2>1. \A j \in 1..Len(c) : c[j] = c[k] => j = k
      BY <1>0, <1>3 DEF IsInjective
    <2>2. \A j \in 1..Len(c) : j <= k - 1 => j # k
      BY <1>0
    <2> QED
      BY <1>0, <1>3, <2>1, <2>2 DEF DoneTo, ToSet
  <1>4. ASSUME k \in 1..Len(c) PROVE DoneTo(c, k) = DoneTo(c, k - 1) \cup {c[k]}
    <2>1. \A j \in 1..Len(c) : j <= k <=> j <= k - 1 \/ j = k
      BY <1>0
    <2>2. k <= k
      OBVIOUS
    <2> QED
      BY <1>3, <1>4, <2>1, <2>2 DEF DoneTo
  <1> QED
    BY <1>1, <1>2, <1>3, <1>4

\* In the order of the editor every block comes after its parent and its
\* left sibling.
LEMMA OrderFacts ==
    ASSUME NEW K, GoodKids(K), NEW c, c = Below(K, Root)
    PROVE  /\ c \in Seq(Ids) /\ IsInjective(c) /\ ToSet(c) = Placed(K)
           /\ \A i \in 1..Len(c) : /\ Parent(K, c[i]) = Root \/ \E j \in 1..Len(c) : j < i /\ c[j] = Parent(K, c[i])
                                   /\ Left(K, c[i]) = Root \/ \E j \in 1..Len(c) : j < i /\ c[j] = Left(K, c[i])
  <1>0. Apart(K) /\ Root \in Nodes /\ NoWayBack(K, Root)
    BY RootIsNoBlock, NoWayBackFromRoot DEF GoodKids
  <1>1. /\ c \in Seq(Ids) /\ IsInjective(c)
        /\ \A i \in 1..Len(c) : c[i] \in ToSet(K[Root]) \/ \E j \in 1..Len(c) : j < i /\ c[i] \in ToSet(K[c[j]])
        /\ LeftsFirst(K, c)
    BY <1>0, BelowSet
  <1>2. ToSet(c) = Placed(K)
    BY GoodIsReached
  <1>3. ASSUME NEW i \in 1..Len(c)
        PROVE  /\ Parent(K, c[i]) = Root \/ \E j \in 1..Len(c) : j < i /\ c[j] = Parent(K, c[i])
               /\ Left(K, c[i]) = Root \/ \E j \in 1..Len(c) : j < i /\ c[j] = Left(K, c[i])
    <2> DEFINE b == c[i]
               p == Parent(K, b)
               m == Index(K, b)
    <2>0. b \in Placed(K)
      BY <1>1, <1>2 DEF ToSet
    <2>1. IsPlace(K, b, p, m) /\ \A q \in Nodes : b \in ToSet(K[q]) => q = p
      BY <1>0, <2>0, PlaceOf
    <2>2. p = Root \/ \E j \in 1..Len(c) : j < i /\ c[j] = p
      <3>1. CASE b \in ToSet(K[Root])
        BY <3>1, <2>1, <1>0
      <3>2. CASE b \notin ToSet(K[Root])
        <4>1. PICK j \in 1..Len(c) : j < i /\ b \in ToSet(K[c[j]])
          BY <3>2, <1>1
        <4>2. c[j] \in Nodes
          BY <1>1, RootIsNoBlock
        <4> QED
          BY <4>1, <4>2, <2>1
      <3> QED
        BY <3>1, <3>2
    <2>3. Left(K, b) = Root \/ \E j \in 1..Len(c) : j < i /\ c[j] = Left(K, b)
      <3> SUFFICES ASSUME Left(K, b) # Root PROVE \E j \in 1..Len(c) : j < i /\ c[j] = Left(K, b)
        OBVIOUS
      <3>1. m \in 2..Len(K[p]) /\ Left(K, b) = K[p][m - 1]
        BY <1>0, <2>0, LeftOf
      <3>2. p \in Nodes /\ K[p][m] = b
        BY <2>1 DEF IsPlace
      <3>3. c[i] = K[p][m]
        BY <3>2
      <3> HIDE DEF p, m, b
      <3>4. \E j \in 1..Len(c) : j < i /\ c[j] = K[p][m - 1]
        BY <3>1, <3>2, <3>3, <1>1 DEF LeftsFirst
      <3> QED
        BY <3>1, <3>4
    <2> QED
      BY <2>2, <2>3
  <1> QED
    BY <1>1, <1>2, <1>3

\* With a block its parent and its left sibling are done.
LEMMA DoneIsClosed ==
    ASSUME NEW K, GoodKids(K), NEW c, c = Below(K, Root), NEW k \in Nat
    PROVE  /\ UpClosed(K, DoneTo(c, k))
           /\ \A i \in 1..Len(c) : i <= k + 1 => /\ Parent(K, c[i]) = Root \/ Parent(K, c[i]) \in DoneTo(c, k)
                                                 /\ Left(K, c[i]) = Root \/ Left(K, c[i]) \in DoneTo(c, k)
  <1>1. /\ c \in Seq(Ids) /\ IsInjective(c) /\ ToSet(c) = Placed(K)
        /\ \A i \in 1..Len(c) : /\ Parent(K, c[i]) = Root \/ \E j \in 1..Len(c) : j < i /\ c[j] = Parent(K, c[i])
                                /\ Left(K, c[i]) = Root \/ \E j \in 1..Len(c) : j < i /\ c[j] = Left(K, c[i])
    BY OrderFacts
  <1>0. Len(c) \in Nat /\ DOMAIN c = 1..Len(c)
    BY <1>1
  <1>2. ASSUME NEW i \in 1..Len(c), i <= k + 1, NEW j \in 1..Len(c), j < i PROVE c[j] \in DoneTo(c, k)
    <2>1. j <= k
      BY <1>0, <1>2
    <2> QED
      BY <2>1, <1>0 DEF DoneTo, ToSet
  <1>3. ASSUME NEW i \in 1..Len(c), i <= k + 1
        PROVE  /\ Parent(K, c[i]) = Root \/ Parent(K, c[i]) \in DoneTo(c, k)
               /\ Left(K, c[i]) = Root \/ Left(K, c[i]) \in DoneTo(c, k)
    BY <1>1, <1>2, <1>3
  <1>4. ASSUME NEW x \in DoneTo(c, k) PROVE x \in Placed(K) /\ (Parent(K, x) = Root \/ Parent(K, x) \in DoneTo(c, k))
    <2>1. PICK i \in 1..Len(c) : i <= k /\ c[i] = x
      BY DEF DoneTo
    <2>2. i <= k + 1
      BY <2>1, <1>0
    <2>3. x \in Placed(K)
      BY <2>1, <1>0, <1>1 DEF ToSet
    <2> QED
      BY <2>1, <2>2, <2>3, <1>3
  <1> QED
    BY <1>3, <1>4 DEF UpClosed

\* A function on the first numbers is a list.
LEMMA ListOf == ASSUME NEW S, NEW n \in Nat, NEW f \in [1..n -> S] PROVE f \in Seq(S) /\ Len(f) = n
  OBVIOUS

\* The list that is sent.
IsSent(cs, d, s, c, g, call) ==
    /\ Len(cs) = Len(c) + Len(g)
    /\ \A k \in 1..Len(c) : cs[k] = compareBlock(d, createBlocksMap(s), c[k], call)
    /\ \A k \in 1..Len(g) : cs[Len(c) + k] = <<DeleteBlock(g[k])>>

\* The list of a save and of a restore.
Changes(d, map, call) == IF call = "update" THEN updateDraft(d, map) ELSE restoreDraft(d, map)

\* updateDraft and restoreDraft: the changes of the blocks in their order, then
\* the deletions.
LEMMA SentFacts ==
    ASSUME NEW d, NEW s, NEW c, c = Below(d.kids, Root), c \in Seq(Ids),
           NEW g, g = SetToSeq(Blocks(s) \ Blocks(d)), g \in Seq(Ids),
           NEW call \in {"update", "restore"}, NEW cs, cs = Changes(d, createBlocksMap(s), call)
    PROVE  IsSent(cs, d, s, c, g, call)
  <1> DEFINE map == createBlocksMap(s)
             a == [i \in DOMAIN c |-> compareBlock(d, map, c[i], call)]
             r == [i \in DOMAIN g |-> <<DeleteBlock(g[i])>>]
             S == {a[i] : i \in DOMAIN c} \cup {r[i] : i \in DOMAIN g}
  <1>0. Len(c) \in Nat /\ DOMAIN c = 1..Len(c) /\ Len(g) \in Nat /\ DOMAIN g = 1..Len(g)
    OBVIOUS
  <1>1. DOMAIN map = Blocks(s)
    BY DEF createBlocksMap
  <1>2. IF call = "update" THEN compareBlocksWithMap(d, map) = a ELSE compareDraftWithMap(d, map) = a
    <2>1. CASE call = "update"
      BY <2>1 DEF compareBlocksWithMap
    <2>2. CASE call = "restore"
      BY <2>2 DEF compareDraftWithMap
    <2> QED
      BY <2>1, <2>2
  <1>3. extractDeletes(d, map) = r
    BY <1>1 DEF extractDeletes
  <1>4. cs = a \o r
    BY <1>2, <1>3 DEF Changes, updateDraft, restoreDraft
  <1>5. a \in [1..Len(c) -> S] /\ r \in [1..Len(g) -> S]
    BY <1>0
  <1>6. /\ \A k \in 1..Len(c) : a[k] = compareBlock(d, map, c[k], call)
        /\ \A k \in 1..Len(g) : r[k] = <<DeleteBlock(g[k])>>
    BY <1>0
  <1> HIDE DEF a, r, S, map
  <1>7. a \in Seq(S) /\ Len(a) = Len(c) /\ r \in Seq(S) /\ Len(r) = Len(g)
    BY ONLY <1>0, <1>5, ListOf
  <1>8. IsConcat(cs, a, r)
    BY <1>4, <1>7, ConcatFacts
  <1>9. /\ Len(cs) = Len(c) + Len(g)
        /\ \A j \in 1..Len(c) : cs[j] = a[j]
        /\ \A j \in 1..Len(g) : cs[Len(c) + j] = r[j]
    BY <1>7, <1>8 DEF IsConcat
  <1> QED
    BY <1>6, <1>9 DEF IsSent, map

\* What is accepted after k lists of changes.
DoneAfter(r, s, d, c, g, k) ==
    \E t : r = Accepted(t) /\ Progress(t, s, d, DoneTo(c, k), DoneTo(g, k - Len(c)))

\* Before the first list of changes nothing is done.
LEMMA DoneAtFirst ==
    ASSUME NEW d, NEW s, Store(s), NEW c \in Seq(Ids), IsInjective(c), NEW g \in Seq(Ids), IsInjective(g),
           NEW r, r = [doc |-> s, refused |-> FALSE]
    PROVE  DoneAfter(r, s, d, c, g, 0)
  <1>1. Len(c) \in Nat /\ 0 - Len(c) \in Int /\ 0 - Len(c) <= 0
    OBVIOUS
  <1>2. DoneTo(c, 0) = {} /\ DoneTo(g, 0 - Len(c)) = {}
    BY <1>1, DoneFacts
  <1>3. Progress(s, s, d, {}, {})
    BY DEF Progress, InOrder, InTheirPlace, Written, Unchanged, Absent
  <1> QED
    BY <1>2, <1>3 DEF DoneAfter, Accepted

\* Every list of changes is accepted, and does one block more.
LEMMA DoneNext ==
    ASSUME NEW d, GoodDoc(d), NEW s, Store(s), NEW c, c = Below(d.kids, Root),
           NEW g, g = SetToSeq(Blocks(s) \ Blocks(d)),
           NEW call \in {"update", "restore"}, NEW cs, IsSent(cs, d, s, c, g, call), NEW k \in 1..Len(cs),
           NEW r, DoneAfter(r, s, d, c, g, k - 1), NEW q, q = applyChanges(r, cs[k])
    PROVE  DoneAfter(q, s, d, c, g, k)
  <1> DEFINE n == Len(c)
             P == DoneTo(c, k - 1)
             Q == DoneTo(g, k - 1 - n)
             K == d.kids
  <1>1. GoodKids(K) /\ Blocks(d) = Placed(K)
    BY DocFacts
  <1>2. c \in Seq(Ids) /\ IsInjective(c) /\ ToSet(c) = Blocks(d) /\ n \in Nat /\ DOMAIN c = 1..n
    BY <1>1, OrderFacts
  <1>3. g \in Seq(Ids) /\ IsInjective(g) /\ ToSet(g) = Blocks(s) \ Blocks(d) /\ Len(g) \in Nat /\ DOMAIN g = 1..Len(g)
    <2>1. Blocks(s) \ Blocks(d) \in SUBSET Ids
      BY StoreFacts
    <2> QED
      BY <2>1, SetToSeqFacts
  <1>4. k \in 1..(n + Len(g)) /\ k - 1 \in Nat /\ k - 1 - n \in Int /\ k \in Int /\ k - n \in Int
    BY <1>2, <1>3 DEF IsSent
  <1>5. PICK t : r = Accepted(t) /\ Progress(t, s, d, P, Q)
    BY DEF DoneAfter
  <1>6. UpClosed(K, P)
    BY <1>1, <1>4, DoneIsClosed
  <1>7. CASE k <= n
    <2> DEFINE b == c[k]
    <2>1. k \in 1..n /\ k - 1 - n <= 0 /\ k - n <= 0
      BY <1>2, <1>4, <1>7
    <2>2. Q = {} /\ DoneTo(g, k - n) = {}
      BY <1>3, <1>4, <2>1, DoneFacts
    <2>3. DoneTo(c, k) = P \cup {b} /\ b \notin P /\ b \in Blocks(d)
      BY <1>2, <1>4, <2>1, DoneFacts
    <2>4. (Parent(K, b) = Root \/ Parent(K, b) \in P) /\ (Left(K, b) = Root \/ Left(K, b) \in P)
      <3>1. k <= (k - 1) + 1
        BY <1>4
      <3> QED
        BY <3>1, <2>1, <1>1, <1>4, DoneIsClosed
    <2>5. cs[k] = compareBlock(d, createBlocksMap(s), b, call)
      BY <2>1 DEF IsSent
    <2>6. b \notin P \cup Q
      BY <2>2, <2>3
    <2> HIDE DEF b, P, Q
    <2>7. \E u : applyChanges(Accepted(t), cs[k]) = Accepted(u) /\ Progress(u, s, d, P \cup {b}, Q)
      <3>1. Does(compareBlock(d, createBlocksMap(s), b, call), t, s, d, P, Q, b)
        <4>1. /\ GoodDoc(d) /\ Store(s) /\ UpClosed(d.kids, P) /\ Progress(t, s, d, P, Q)
              /\ b \in Blocks(d) /\ b \notin P \cup Q
              /\ Parent(d.kids, b) = Root \/ Parent(d.kids, b) \in P
              /\ Left(d.kids, b) = Root \/ Left(d.kids, b) \in P
          BY <1>5, <1>6, <2>3, <2>4, <2>6
        <4> QED
          BY ONLY <4>1, BlockStep
      <3> QED
        BY <2>5, <3>1 DEF Does
    <2> QED
      BY <1>5, <2>2, <2>3, <2>7 DEF DoneAfter
  <1>8. CASE k > n
    <2> DEFINE j == k - n
               b == g[j]
    <2>1. j \in 1..Len(g) /\ n + j = k /\ j - 1 = k - 1 - n /\ k - 1 >= n /\ k >= n /\ j \in Int
      BY <1>2, <1>3, <1>4, <1>8
    <2>2. P = Blocks(d) /\ DoneTo(c, k) = Blocks(d)
      BY <1>2, <1>4, <2>1, DoneFacts
    <2>3. cs[n + j] = <<DeleteBlock(b)>>
      BY <2>1 DEF IsSent
    <2>4. DoneTo(g, j) = DoneTo(g, j - 1) \cup {b} /\ b \in ToSet(g)
      <3> HIDE DEF j
      <3> QED
        BY <1>3, <2>1, DoneFacts
    <2>5. b \in Ids /\ b \notin P /\ b \notin Blocks(d)
      BY <2>2, <2>4, <1>3, StoreFacts
    <2>6. DoneTo(g, k - n) = Q \cup {b} /\ cs[k] = <<DeleteBlock(b)>>
      BY <2>1, <2>3, <2>4
    <2> HIDE DEF b, P, Q, j
    <2>7. \E u : applyChanges(Accepted(t), cs[k]) = Accepted(u) /\ Progress(u, s, d, P, Q \cup {b})
      BY <1>5, <1>6, <2>5, <2>6, DeleteStep
    <2> QED
      BY <1>5, <2>2, <2>6, <2>7 DEF DoneAfter
  <1> QED
    BY <1>2, <1>4, <1>7, <1>8

\* The whole list is accepted.
LEMMA SaveFacts ==
    ASSUME NEW d, GoodDoc(d), NEW s, Store(s), NEW call \in {"update", "restore"}
    PROVE  \E t : /\ UpdateDraft(s, Changes(d, createBlocksMap(s), call)) = Accepted(t)
                  /\ Progress(t, s, d, Blocks(d), Blocks(s) \ Blocks(d))
  <1> DEFINE c == Below(d.kids, Root)
             g == SetToSeq(Blocks(s) \ Blocks(d))
             cs == Changes(d, createBlocksMap(s), call)
             n == Len(cs)
  <1>1. GoodKids(d.kids) /\ Blocks(d) = Placed(d.kids) /\ Blocks(s) \ Blocks(d) \in SUBSET Ids
    BY DocFacts, StoreFacts
  <1>2. c \in Seq(Ids) /\ IsInjective(c) /\ ToSet(c) = Blocks(d)
    BY <1>1, OrderFacts
  <1>3. g \in Seq(Ids) /\ IsInjective(g) /\ ToSet(g) = Blocks(s) \ Blocks(d)
    BY <1>1, SetToSeqFacts
  <1>4. c = Below(d.kids, Root) /\ g = SetToSeq(Blocks(s) \ Blocks(d)) /\ cs = Changes(d, createBlocksMap(s), call)
    OBVIOUS
  <1> HIDE DEF c, g, cs
  <1>5. IsSent(cs, d, s, c, g, call)
    BY <1>2, <1>3, <1>4, SentFacts
  <1>6. Len(c) \in Nat /\ Len(g) \in Nat /\ n = Len(c) + Len(g) /\ n \in Nat
    BY <1>2, <1>3, <1>5 DEF IsSent
  <1>7. PICK f : Answers(f, s, cs) /\ (~f[n].refused => UpdateDraft(s, cs) = f[n])
    BY <1>6, UpdateLoop
  <1> DEFINE B == {k \in 0..n : ~DoneAfter(f[k], s, d, c, g, k)}
  <1>8. B = {}
    <2> SUFFICES ASSUME B # {} PROVE FALSE
      OBVIOUS
    <2>1. PICK k \in B : k = 0 \/ (k \in 1..n /\ k - 1 \in 0..n /\ k - 1 \notin B)
      <3> HIDE DEF n
      <3> QED
        BY <1>6, LeastIndex
    <2>2. CASE k = 0
      <3>1. f[0] = [doc |-> s, refused |-> FALSE]
        BY <1>7 DEF Answers
      <3>2. DoneAfter(f[0], s, d, c, g, 0)
        BY <1>2, <1>3, <3>1, DoneAtFirst
      <3> QED
        BY <2>1, <2>2, <3>2
    <2>3. CASE k # 0
      <3>1. k \in 1..n /\ DoneAfter(f[k - 1], s, d, c, g, k - 1)
        BY <2>1, <2>3
      <3>2. f[k] = applyChanges(f[k - 1], cs[k])
        BY <1>7, <3>1 DEF Answers
      <3>3. DoneAfter(f[k], s, d, c, g, k)
        BY <1>4, <1>5, <3>1, <3>2, DoneNext
      <3> QED
        BY <2>1, <3>3
    <2> QED
      BY <2>2, <2>3
  <1>9. DoneAfter(f[n], s, d, c, g, n)
    BY <1>6, <1>8
  <1>10. DoneTo(c, n) = Blocks(d) /\ DoneTo(g, n - Len(c)) = Blocks(s) \ Blocks(d)
    <2>1. n >= Len(c) /\ n - Len(c) >= Len(g) /\ n \in Int /\ n - Len(c) \in Int
      BY <1>6
    <2> QED
      BY <2>1, <1>2, <1>3, DoneFacts
  <1>11. PICK t : f[n] = Accepted(t) /\ Progress(t, s, d, Blocks(d), Blocks(s) \ Blocks(d))
    BY <1>9, <1>10 DEF DoneAfter
  <1>12. ~f[n].refused
    BY <1>11 DEF Accepted
  <1>13. UpdateDraft(s, cs) = Accepted(t)
    BY <1>7, <1>11, <1>12
  <1> QED
    BY <1>11, <1>13 DEF cs

\* ... and leaves the tree of the editor.
LEMMA SavedIsTree ==
    ASSUME NEW d, GoodDoc(d), NEW s, Store(s), NEW t, Progress(t, s, d, Blocks(d), Blocks(s) \ Blocks(d))
    PROVE  /\ Store(t) /\ GoodKids(t.kids) /\ Blocks(t) = Blocks(d)
           /\ \A r \in Nodes : ToSet(t.kids[r]) = ToSet(d.kids[r])
           /\ Orderly(s.kids, d.kids, Unmoved(s.kids, d.kids)) => t.kids = d.kids
           /\ \A b \in Blocks(d) : Parent(t.kids, b) = Parent(d.kids, b) /\ t.content[b] = fromHMBlock(d, b)
  <1> DEFINE K == d.kids
             J == t.kids
             P == Blocks(d)
             Q == Blocks(s) \ Blocks(d)
  <1>1. GoodKids(K) /\ Apart(K) /\ P = Placed(K) /\ P \subseteq Ids
    BY DocFacts DEF GoodKids
  <1>2. Store(t) /\ InTheirPlace(J, K, P) /\ Written(t, d, P) /\ Unchanged(t, s, Ids \ (P \cup Q)) /\ Absent(t, Q)
    BY DEF Progress
  <1>3. Apart(J) /\ J \in [Nodes -> Seq(Ids)] /\ Blocks(t) = Placed(J)
    BY <1>2, StoreFacts
  <1>4. ASSUME NEW x \in P PROVE x \in ToSet(J[Parent(K, x)]) /\ Parent(K, x) \in Nodes /\ x \in ToSet(K[Parent(K, x)])
    BY <1>1, <1>2, ParentPlaced DEF InTheirPlace
  <1>5. ASSUME NEW x \in Ids, x \notin P, NEW r \in Nodes PROVE x \notin ToSet(J[r])
    <2>1. CASE x \in Q
      BY <2>1, <1>2 DEF Absent
    <2>2. CASE x \notin Q
      <3>1. x \in ToSet(J[r]) => x \in ToSet(s.kids[r])
        BY <2>2, <1>2, <1>5 DEF Unchanged
      <3>2. x \notin Blocks(s)
        BY <2>2, <1>5
      <3>3. x \notin ToSet(s.kids[r])
        BY <3>2, StoreFacts, PlacedIn
      <3> QED
        BY <3>1, <3>3
    <2> QED
      BY <2>1, <2>2
  <1>6. ASSUME NEW r \in Nodes PROVE ToSet(J[r]) = ToSet(K[r])
    <2>0. ToSet(J[r]) \subseteq Ids /\ ToSet(K[r]) \subseteq Placed(K)
      BY <1>1, <1>3, PlacedIn, GoodHas
    <2>1. ASSUME NEW x \in ToSet(J[r]) PROVE x \in ToSet(K[r])
      <3>1. x \in P
        BY <1>5, <2>0
      <3>2. Parent(K, x) = r
        BY <1>3, <1>4, <3>1 DEF Apart
      <3> QED
        BY <3>1, <3>2, <1>4
    <2>2. ASSUME NEW x \in ToSet(K[r]) PROVE x \in ToSet(J[r])
      <3>1. x \in P
        BY <1>1, <2>0
      <3>2. Parent(K, x) = r
        BY <1>1, <1>4, <3>1 DEF Apart
      <3> QED
        BY <3>1, <3>2, <1>4
    <2> QED
      BY <2>1, <2>2
  <1>7. Placed(J) = Placed(K)
    <2>1. \A b : b \in Placed(J) <=> \E r \in Nodes : b \in ToSet(J[r])
      BY <1>3, PlacedIn
    <2>2. \A b : b \in Placed(K) <=> \E r \in Nodes : b \in ToSet(K[r])
      BY <1>1, GoodHas
    <2> HIDE DEF J, K
    <2>3. \A b : b \in Placed(J) <=> b \in Placed(K)
      BY ONLY <1>6, <2>1, <2>2
    <2> QED
      BY <2>3
  <1>8. GoodKids(J)
    <2>1. AllInjective(J) /\ OneParent(J)
      BY <1>3 DEF AllInjective, OneParent, Apart
    <2>2. NothingHangs(J)
      BY <1>1, <1>6, <1>7, GoodHas, RootIsNoBlock DEF NothingHangs
    <2>3. NoCircle(J)
      <3> SUFFICES ASSUME NEW S \in SUBSET Ids, \A b \in S : \E q \in S : b \in ToSet(J[q]) PROVE S = {}
        BY DEF NoCircle
      <3>1. \A b \in S : \E q \in S : b \in ToSet(K[q])
        BY <1>6, RootIsNoBlock
      <3> HIDE DEF K
      <3> QED
        BY <1>1, <3>1, NoneInACircle
    <2> QED
      BY <1>3, <2>1, <2>2, <2>3, GoodWhen
  <1>9. ASSUME NEW b \in P PROVE Parent(J, b) = Parent(K, b) /\ t.content[b] = fromHMBlock(d, b)
    <2>1. b \in Placed(J)
      BY <1>1, <1>7
    <2> QED
      BY <1>2, <1>3, <1>4, <2>1, PlaceOf DEF Written
  <1>10. ASSUME Orderly(s.kids, K, Unmoved(s.kids, K)) PROVE J = K
    <2>1. Orderly(J, K, P \cup Unmoved(s.kids, K))
      BY <1>10 DEF Progress, InOrder
    <2>2. K \in [Nodes -> Seq(Ids)]
      BY <1>1 DEF Apart
    <2>3. ASSUME NEW r \in Nodes PROVE J[r] = K[r]
      <3>1. J[r] \in Seq(Ids) /\ K[r] \in Seq(Ids) /\ IsInjective(J[r]) /\ IsInjective(K[r]) /\ ToSet(J[r]) = ToSet(K[r])
        BY <1>1, <1>3, <1>6 DEF Apart
      <3>2. ASSUME NEW x, NEW y, Ahead(K[r], x, y) PROVE Ahead(J[r], x, y)
        <4>1. x \in P /\ y \in P
          BY <1>1, <2>2, <3>1, <3>2, AheadIn, PlacedIn
        <4> QED
          BY <2>1, <3>2, <4>1 DEF Orderly
      <3> HIDE DEF J, K
      <3> QED
        BY ONLY <3>1, <3>2, SameOrder
    <2> HIDE DEF J, K
    <2> QED
      BY <1>3, <2>2, <2>3, SameFunction
  <1> QED
    BY <1>1, <1>2, <1>3, <1>6, <1>7, <1>8, <1>9, <1>10

-----------------------------------------------------------------------------
\* What an edit of one block leaves: the blocks that have the parent and the
\* left sibling they had are in the order they had.
OneEdit(J, K) == Orderly(J, K, Unmoved(J, K))

\* The blocks of a stored document read as they were sent.
Readable(s) == GoodDoc(hmDocument(s)) /\ \A b \in Blocks(s) : s.content[b] = fromHMBlock(hmDocument(s), b)

\* A stored document with the nesting and the content of a document is readable.
LEMMA SameIsReadable ==
    ASSUME NEW d, GoodDoc(d), NEW t, Store(t), GoodKids(t.kids), Blocks(t) = Blocks(d),
           \A r \in Nodes : ToSet(t.kids[r]) = ToSet(d.kids[r]),
           \A b \in Blocks(d) : t.content[b] = fromHMBlock(d, b)
    PROVE  Readable(t)
  <1> DEFINE W == [b \in Ids |-> IF b \in Blocks(t) THEN t.content[b].words ELSE <<>>]
             H == {b \in Blocks(t) : t.content[b].heading}
             e == hmDocument(t)
  <1>1. t.kids \in [Nodes -> Seq(Ids)] /\ t.content \in [Ids -> Contents] /\ Blocks(t) \subseteq Ids
    BY StoreFacts
  <1>2. W \in [Ids -> Seq(Nat)] /\ H \in SUBSET Ids
    BY <1>1 DEF Contents
  <1>3. e.kids = t.kids /\ e.words = W /\ e.headings = H /\ e \in Documents
    BY <1>1, <1>2 DEF hmDocument, Documents
  <1>4. Blocks(e) = Blocks(t) /\ Blocks(t) # {}
    BY <1>3, DocFacts DEF Blocks
  <1>5. \A b \in Ids \ Blocks(e) : e.words[b] = <<>> /\ b \notin e.headings
    BY <1>3, <1>4
  <1>6. GoodDoc(e)
    BY <1>3, <1>4, <1>5 DEF GoodDoc
  <1>7. ASSUME NEW b \in Blocks(t) PROVE t.content[b] = fromHMBlock(e, b)
    <2>1. b \in Ids /\ t.content[b] = [words |-> d.words[b], heading |-> b \in d.headings, listLevel |-> d.kids[b] # <<>>]
      BY <1>1, <1>7 DEF fromHMBlock
    <2>2. b \in Nodes /\ d.kids[b] \in Seq(Ids) /\ t.kids[b] \in Seq(Ids) /\ ToSet(t.kids[b]) = ToSet(d.kids[b])
      BY <2>1, <1>1, DocFacts DEF Nodes
    <2>3. t.kids[b] # <<>> <=> d.kids[b] # <<>>
      BY <2>2, ToSetEmpty
    <2>4. e.words[b] = d.words[b] /\ (b \in e.headings <=> b \in d.headings)
      <3> DEFINE x == b \in d.headings
                 y == d.kids[b] # <<>>
                 r == [words |-> d.words[b], heading |-> x, listLevel |-> y]
      <3>1. t.content[b].words = d.words[b] /\ t.content[b].heading = x
        <4>1. t.content[b] = r
          BY <2>1
        <4> HIDE DEF x, y
        <4>2. r.words = d.words[b] /\ r.heading = x
          OBVIOUS
        <4> HIDE DEF r
        <4> QED
          BY <4>1, <4>2
      <3>2. W[b] = t.content[b].words /\ (b \in H <=> t.content[b].heading)
        BY <1>7, <2>1
      <3> HIDE DEF W, H, e
      <3> QED
        BY <1>3, <3>1, <3>2
    <2>5. fromHMBlock(e, b) = [words |-> d.words[b], heading |-> b \in d.headings, listLevel |-> d.kids[b] # <<>>]
      <3>1. fromHMBlock(e, b) = [words |-> e.words[b], heading |-> b \in e.headings, listLevel |-> e.kids[b] # <<>>]
        BY DEF fromHMBlock
      <3>2. (b \in e.headings) = (b \in d.headings) /\ (e.kids[b] # <<>>) = (d.kids[b] # <<>>)
        BY <1>3, <2>3, <2>4
      <3> HIDE DEF e
      <3> QED
        BY <2>4, <3>1, <3>2
    <2> QED
      BY <2>1, <2>5
  <1> QED
    BY <1>6, <1>7 DEF Readable

\* The draft created from a document.
LEMMA CreatedFacts ==
    ASSUME NEW d, GoodDoc(d), NEW t, t = createDraft(d)
    PROVE  /\ Store(t) /\ t.kids = d.kids /\ Blocks(t) = Blocks(d) /\ GoodKids(t.kids)
           /\ Readable(t)
  <1> DEFINE C == [b \in Ids |-> IF b \in Blocks(d) THEN fromHMBlock(d, b) ELSE NoContent]
             K == d.kids
             T == {}
  <1>1. GoodKids(K) /\ Apart(K) /\ Blocks(d) \subseteq Ids /\ Blocks(d) = Placed(K)
    BY DocFacts DEF GoodKids
  <1>2. C \in [Ids -> Contents]
    <2>1. \A b \in Ids : fromHMBlock(d, b) \in Contents
      BY HMBlockIn
    <2>2. NoContent \in Contents
      BY DEF NoContent, Contents
    <2> QED
      BY <2>1, <2>2
  <1>3. IsStored(t, K, T, C)
    BY DEF createDraft, IsStored
  <1>4. \A b \in Blocks(d) : C[b] = fromHMBlock(d, b)
    BY <1>1
  <1> HIDE DEF C, K
  <1>5. Store(t) /\ t.kids = K /\ t.content = C /\ Blocks(t) = Placed(K)
    BY <1>1, <1>2, <1>3, StoreMade
  <1>6. t.kids = d.kids /\ Blocks(t) = Blocks(d) /\ GoodKids(t.kids)
    BY <1>1, <1>5 DEF K
  <1>7. Readable(t)
    BY <1>4, <1>5, <1>6, SameIsReadable
  <1> QED
    BY <1>5, <1>6, <1>7

\* The inductive invariant: TypeOK, with the trees told by their sets, and
\* what the daemon has when at most one block was moved.
EditorInv ==
    /\ Readable(saved)
    /\ unsaved = "none" => saved.kids = doc.kids
    /\ unsaved = "one" => OneEdit(saved.kids, doc.kids)
    /\ GoodDoc(doc) /\ Blocks(doc) \subseteq 1..used
    /\ GoodDoc(undo) /\ Blocks(undo) \subseteq 1..used
    /\ Store(saved) /\ GoodKids(saved.kids)
    /\ used \in 0..MaxBlocks
    /\ edits \in 0..MaxEdits
    /\ unsaved \in {"none", "one", "many"}

\* The invariant is no weaker than the type invariant.
LEMMA InvImpliesType == EditorInv => TypeOK
  <1> SUFFICES ASSUME EditorInv PROVE TypeOK
    OBVIOUS
  <1>1. IsDocument(doc) /\ IsDocument(undo)
    BY GoodIsDocument DEF EditorInv
  <1>2. saved \in StoredDocuments /\ saved.trash \cap Blocks(saved) = {} /\ IsTree(saved.kids)
    BY GoodIsTree DEF EditorInv, Store
  <1>3. \A d \in {doc, undo} : IsDocument(d) /\ Blocks(d) \subseteq 1..used
    BY <1>1 DEF EditorInv
  <1> QED
    BY <1>2, <1>3 DEF EditorInv, TypeOK

\* The daemon starts with the document of the editor.
LEMMA InvHoldsAtFirst == Init => EditorInv
  <1> SUFFICES ASSUME Init PROVE EditorInv
    OBVIOUS
  <1>1. IsDocument(doc) /\ Blocks(doc) = 1..used /\ undo = doc
    BY EditorAssumption DEF Init
  <1>2. GoodDoc(doc)
    BY <1>1, DocumentIsGood
  <1>3. Blocks(doc) \subseteq Ids
    BY <1>2, DocFacts
  <1>4. used \in 0..MaxBlocks
    <2>1. IsFiniteSet(Ids) /\ Cardinality(Ids) = MaxBlocks
      <3>1. 1 \in Int /\ MaxBlocks \in Int /\ MaxBlocks \in Nat
        BY BlocksAssumption
      <3>2. Cardinality(1..MaxBlocks) = (IF 1 > MaxBlocks THEN 0 ELSE MaxBlocks - 1 + 1) /\ IsFiniteSet(1..MaxBlocks)
        BY <3>1, FS_Interval
      <3> QED
        BY <3>1, <3>2 DEF Ids
    <2>2. used = Cardinality(Blocks(doc))
      BY DEF Init
    <2>3. IsFiniteSet(Blocks(doc)) /\ Cardinality(Blocks(doc)) <= MaxBlocks
      BY <1>3, <2>1, FS_Subset
    <2>4. used \in Nat
      BY <2>2, <2>3, FS_CardinalityType
    <2> QED
      BY <2>2, <2>3, <2>4, BlocksAssumption
  <1>5. Store(saved) /\ GoodKids(saved.kids) /\ Readable(saved) /\ saved.kids = doc.kids
    BY <1>2, CreatedFacts DEF Init
  <1>6. edits \in 0..MaxEdits /\ unsaved = "none"
    BY EditorAssumption DEF Init
  <1> QED
    BY <1>1, <1>2, <1>4, <1>5, <1>6 DEF EditorInv

\* What an edit shows is a document with no block but one of those ids.
LEMMA EditKeepsInv ==
    ASSUME EditorInv, NEW e, GoodDoc(e), Blocks(e) \subseteq 1..(used + 1), NEW several, Edit(e, several),
           several \/ OneEdit(doc.kids, e.kids)
    PROVE  EditorInv'
  <1>1. /\ doc' = e /\ undo' = doc /\ saved' = saved /\ edits' = edits + 1 /\ edits < MaxEdits
        /\ used' = IF used + 1 \in Blocks(e) THEN used + 1 ELSE used
    BY DEF Edit
  <1>2. used \in 0..MaxBlocks /\ edits \in 0..MaxEdits /\ MaxEdits \in Nat /\ MaxBlocks \in Nat
    BY EditorAssumption, BlocksAssumption DEF EditorInv
  <1>3. used' \in 0..MaxBlocks
    <2>1. used + 1 \in Blocks(e) => used + 1 \in Ids
      BY DocFacts
    <2> QED
      BY <1>1, <1>2, <2>1 DEF Ids
  <1>4. Blocks(e) \subseteq 1..used'
    <2> SUFFICES ASSUME NEW x \in Blocks(e) PROVE x \in 1..used'
      OBVIOUS
    <2>1. x \in 1..(used + 1)
      OBVIOUS
    <2>2. CASE used + 1 \in Blocks(e)
      BY <1>1, <2>1, <2>2
    <2>3. CASE used + 1 \notin Blocks(e)
      <3>1. x # used + 1
        BY <2>3
      <3> QED
        BY <1>1, <1>2, <2>1, <2>3, <3>1
    <2> QED
      BY <2>2, <2>3
  <1>5. Blocks(doc) \subseteq 1..used'
    <2>1. \A x \in 1..used : x \in 1..used'
      BY <1>1, <1>2
    <2> QED
      BY <2>1 DEF EditorInv
  <1>6. edits' \in 0..MaxEdits
    BY <1>1, <1>2
  <1>7. Store(saved) /\ GoodKids(saved.kids) /\ GoodDoc(doc)
    BY DEF EditorInv
  <1>8. GoodDoc(doc') /\ Blocks(doc') \subseteq 1..used' /\ GoodDoc(undo') /\ Blocks(undo') \subseteq 1..used'
    BY <1>1, <1>4, <1>5, <1>7
  <1>9. Store(saved') /\ GoodKids(saved'.kids)
    BY <1>1, <1>7
  <1>10. CASE e.kids = doc.kids
    <2>1. unsaved' = unsaved
      BY <1>10 DEF Edit
    <2>2. (unsaved' = "none" => saved'.kids = doc'.kids) /\ (unsaved' = "one" => OneEdit(saved'.kids, doc'.kids))
      BY <1>1, <1>10, <2>1 DEF EditorInv
    <2>3. unsaved' \in {"none", "one", "many"} /\ Readable(saved')
      BY <1>1, <2>1 DEF EditorInv
    <2> QED
      BY <1>3, <1>6, <1>8, <1>9, <2>2, <2>3 DEF EditorInv
  <1>11. CASE e.kids # doc.kids
    <2>1. unsaved' \in {"one", "many"} /\ (unsaved' = "one" => unsaved = "none" /\ ~several)
      BY <1>11 DEF Edit
    <2>2. unsaved' = "one" => OneEdit(saved'.kids, doc'.kids)
      BY <1>1, <2>1 DEF EditorInv
    <2>3. Readable(saved')
      BY <1>1 DEF EditorInv
    <2> QED
      BY <1>3, <1>6, <1>8, <1>9, <2>1, <2>2, <2>3 DEF EditorInv
  <1> QED
    BY <1>10, <1>11

\* An edit with at most the fresh id, of several blocks or one, keeps the
\* invariant.
LEMMA EditedKeepsInv ==
    ASSUME EditorInv, NEW e, Shows(e, doc, New), NEW several, Edit(e, several),
           several \/ \E b : KeptBut(e.kids, doc.kids, b)
    PROVE  EditorInv'
  <1>1. used \in Nat /\ Blocks(doc) \subseteq 1..used
    BY DEF EditorInv
  <1>2. Blocks(e) \subseteq 1..(used + 1)
    <2>1. \A x \in 1..used : x \in 1..(used + 1)
      BY <1>1
    <2>2. used + 1 \in 1..(used + 1)
      BY <1>1
    <2> QED
      BY <1>1, <2>1, <2>2 DEF Shows, New
  <1>3. several \/ OneEdit(doc.kids, e.kids)
    <2> SUFFICES ASSUME ~several PROVE OneEdit(doc.kids, e.kids)
      OBVIOUS
    <2>1. PICK b : KeptBut(e.kids, doc.kids, b)
      OBVIOUS
    <2>2. Apart(doc.kids) /\ Apart(e.kids)
      BY DocFacts DEF EditorInv, Shows, GoodKids
    <2> QED
      BY <2>1, <2>2, KeptIsOrderly DEF OneEdit
  <1> QED
    BY <1>2, <1>3, EditKeepsInv DEF Shows

\* ... and so does one that keeps the order of all blocks.
LEMMA KeyKeepsInv ==
    ASSUME EditorInv, NEW e, Edited(e, doc, New), Edit(e, FALSE)
    PROVE  EditorInv'
  <1>1. KeptBut(e.kids, doc.kids, Root)
    BY DEF Edited, Kept, KeptList, KeptBut
  <1> QED
    BY <1>1, EditedKeepsInv DEF Edited

\* A fresh id is not in the document.
LEMMA NewIsNew == EditorInv => GoodDoc(doc) /\ New \notin Blocks(doc)
  <1>1. \A x \in 1..used : used \in Nat => x # used + 1
    OBVIOUS
  <1> QED
    BY <1>1 DEF EditorInv, New

\* Typing, the heading command, Backspace, Tab and Shift-Tab.
LEMMA KeysKeepInv ==
    ASSUME EditorInv, NEW b \in Blocks(doc),
           Type(b) \/ ToggleHeading(b) \/ Backspace(b) \/ Tab(b) \/ ShiftTab(b)
    PROVE  EditorInv'
  <1>0. GoodDoc(doc) /\ edits + 1 \in Nat
    BY DEF EditorInv
  <1>1. CASE Type(b)
    <2> DEFINE w == edits + 1
               e == [doc EXCEPT !.words[b] = Append(@, w)]
    <2>1. Edit(e, FALSE)
      BY <1>1 DEF Type
    <2>2. Edited(e, doc, New)
      <3> HIDE DEF w
      <3> QED
        BY <1>0, Types DEF w
    <2> HIDE DEF e
    <2> QED
      BY <2>1, <2>2, KeyKeepsInv
  <1>2. CASE ToggleHeading(b)
    <2> DEFINE h == b \notin doc.headings
               e == BNUpdateBlock(doc, b, h)
    <2>1. Edit(e, FALSE)
      BY <1>2 DEF ToggleHeading
    <2>2. Edited(e, doc, New)
      <3>1. h \in BOOLEAN
        OBVIOUS
      <3> HIDE DEF h
      <3> QED
        BY <1>0, <3>1, UpdatesBlock
    <2> HIDE DEF e
    <2> QED
      BY <2>1, <2>2, KeyKeepsInv
  <1>3. CASE Backspace(b)
    <2>1. Edit(handleBackspace(doc, b), FALSE) /\ Edited(handleBackspace(doc, b), doc, New)
      BY <1>0, <1>3, BackspaceEdits DEF Backspace
    <2> QED
      BY <2>1, KeyKeepsInv
  <1>4. CASE Tab(b)
    <2>1. Edit(sinkListItem(doc, b), FALSE) /\ Edited(sinkListItem(doc, b), doc, New)
      BY <1>0, <1>4, SinksItem DEF Tab
    <2> QED
      BY <2>1, KeyKeepsInv
  <1>5. CASE ShiftTab(b)
    <2>1. Edit(liftListItem(doc, b), FALSE) /\ Edited(liftListItem(doc, b), doc, New)
      BY <1>0, <1>5, LiftsItem DEF ShiftTab
    <2> QED
      BY <2>1, KeyKeepsInv
  <1> QED
    BY <1>1, <1>2, <1>3, <1>4, <1>5

\* The side menu.
LEMMA MenuKeepsInv ==
    ASSUME EditorInv, NEW b \in Blocks(doc), addBlock(b) \/ insertNested(b) \/ removeBlock(b)
    PROVE  EditorInv'
  <1>0. GoodDoc(doc) /\ New \notin Blocks(doc)
    BY NewIsNew
  <1>1. CASE addBlock(b)
    <2>1. New \in Ids /\ Edit(BNCreateBlockAfter(doc, b, New), FALSE)
      BY <1>1 DEF addBlock
    <2>2. Edited(BNCreateBlockAfter(doc, b, New), doc, New)
      BY <1>0, <2>1, CreatesBlock
    <2> QED
      BY <2>1, <2>2, KeyKeepsInv
  <1>2. CASE insertNested(b)
    <2> DEFINE e == [doc EXCEPT !.kids[b] = <<New>> \o @]
    <2>1. New \in Ids /\ Edit(e, FALSE) /\ e = [doc EXCEPT !.kids[b] = <<New>> \o @]
      BY <1>2 DEF insertNested
    <2> HIDE DEF e
    <2>2. Edited(e, doc, New)
      BY <1>0, <2>1, InsertsNested
    <2> QED
      BY <2>1, <2>2, KeyKeepsInv
  <1>3. CASE removeBlock(b)
    <2>1. Blocks(BNDeleteBlock(doc, b)) # {} /\ Edit(BNDeleteBlock(doc, b), FALSE)
      BY <1>3 DEF removeBlock
    <2>2. Edited(BNDeleteBlock(doc, b), doc, New)
      BY <1>0, <2>1, DeletesBlock
    <2> QED
      BY <2>1, <2>2, KeyKeepsInv
  <1> QED
    BY <1>1, <1>2, <1>3

\* Enter.
LEMMA EnterKeepsInv ==
    ASSUME EditorInv, NEW b \in Blocks(doc), NEW k \in 0..Len(doc.words[b]), Enter(b, k)
    PROVE  EditorInv'
  <1>0. GoodDoc(doc) /\ New \notin Blocks(doc)
    BY NewIsNew
  <1>1. New \in Ids /\ Edit(handleEnter(doc, b, k, New), FALSE)
    BY DEF Enter
  <1>2. Edited(handleEnter(doc, b, k, New), doc, New)
    BY <1>0, <1>1, EnterEdits
  <1> QED
    BY <1>1, <1>2, KeyKeepsInv

\* A drag.
LEMMA DragKeepsInv ==
    ASSUME EditorInv, NEW b \in Blocks(doc), NEW c \in {b} \cup ToSet(Following(doc.kids, b)),
           NEW p \in Blocks(doc) \cup {Root}, NEW l \in {Root} \cup ToSet(doc.kids[p]), Drag(b, c, p, l)
    PROVE  EditorInv'
  <1> DEFINE K == doc.kids
             s == Dragged(K, b, c)
  <1>1. GoodDoc(doc)
    BY DEF EditorInv
  <1>2. p \notin Inside(K, s) /\ l \notin Inside(K, s) /\ Edit(dropBlocks(doc, s, p, l), Len(s) > 1)
    BY DEF Drag, Dragged, Inside, Under
  <1> HIDE DEF s
  <1>3. Shows(dropBlocks(doc, s, p, l), doc, New) /\ (Len(s) > 1 \/ KeptBut(dropBlocks(doc, s, p, l).kids, doc.kids, b))
    <2>1. (c = b \/ c \in ToSet(Following(doc.kids, b))) /\ s = Dragged(doc.kids, b, c)
          /\ (p = Root \/ p \in Blocks(doc)) /\ (l = Root \/ l \in ToSet(doc.kids[p]))
      BY DEF s
    <2> QED
      BY <1>1, <1>2, <2>1, DropEdits, DropInOrder
  <1> QED
    BY <1>2, <1>3, EditedKeepsInv

\* Undo.
LEMMA UndoKeepsInv == ASSUME EditorInv, Undo PROVE EditorInv'
  <1>1. GoodDoc(undo) /\ Blocks(undo) \subseteq 1..used /\ used \in Nat
    BY DEF EditorInv
  <1>2. Blocks(undo) \subseteq 1..(used + 1)
    <2>1. \A x \in 1..used : x \in 1..(used + 1)
      BY <1>1
    <2> QED
      BY <1>1, <2>1
  <1>3. Edit(undo, TRUE)
    BY DEF Undo
  <1> QED
    BY <1>1, <1>2, <1>3, EditKeepsInv

\* A save that starts now is accepted and leaves the nesting of the editor.
LEMMA SavingFacts ==
    ASSUME EditorInv
    PROVE  \E t : /\ Saving = Accepted(t)
                  /\ Store(t) /\ GoodKids(t.kids) /\ Blocks(t) = Blocks(doc)
                  /\ \A r \in Nodes : ToSet(t.kids[r]) = ToSet(doc.kids[r])
                  /\ OneEdit(saved.kids, doc.kids) => t.kids = doc.kids
                  /\ \A b \in Blocks(doc) : Parent(t.kids, b) = Parent(doc.kids, b) /\ t.content[b] = fromHMBlock(doc, b)
  <1>1. GoodDoc(doc) /\ Store(saved)
    BY DEF EditorInv
  <1>2. PICK t : /\ UpdateDraft(saved, Changes(doc, createBlocksMap(saved), "update")) = Accepted(t)
                 /\ Progress(t, saved, doc, Blocks(doc), Blocks(saved) \ Blocks(doc))
    BY <1>1, SaveFacts
  <1>3. Saving = Accepted(t)
    BY <1>2 DEF Saving, Changes
  <1> QED
    BY <1>1, <1>2, <1>3, SavedIsTree DEF OneEdit

\* A save leaves a tree in the daemon.
LEMMA SaveKeepsInv == ASSUME EditorInv, Save PROVE EditorInv'
  <1>1. PICK t : /\ Saving = Accepted(t) /\ Store(t) /\ GoodKids(t.kids) /\ Blocks(t) = Blocks(doc)
                 /\ \A r \in Nodes : ToSet(t.kids[r]) = ToSet(doc.kids[r])
                 /\ \A b \in Blocks(doc) : t.content[b] = fromHMBlock(doc, b)
    BY SavingFacts
  <1>2. /\ saved' = Saving.doc /\ UNCHANGED <<doc, undo, used, edits>> /\ unsaved' \in {"none", "many"}
        /\ unsaved' = "none" => saved'.kids = doc.kids
    BY DEF Save, Saving
  <1>3. saved' = t
    BY <1>1, <1>2 DEF Accepted
  <1>4. Store(saved') /\ GoodKids(saved'.kids)
    BY <1>1, <1>3
  <1>5. Readable(saved')
    <2>1. GoodDoc(doc)
      BY DEF EditorInv
    <2>2. Readable(t)
      BY <1>1, <2>1, SameIsReadable
    <2> QED
      BY <1>3, <2>2
  <1> QED
    BY <1>2, <1>4, <1>5 DEF EditorInv

\* Every step keeps the invariant.
LEMMA NextKeepsInv == ASSUME EditorInv, [Next]_vars PROVE EditorInv'
  <1>1. CASE UNCHANGED vars
    BY <1>1 DEF vars, EditorInv
  <1>2. CASE Undo
    BY <1>2, UndoKeepsInv
  <1>3. CASE Save
    BY <1>3, SaveKeepsInv
  <1>4. ASSUME NEW b \in Blocks(doc),
               Type(b) \/ ToggleHeading(b) \/ Backspace(b) \/ Tab(b) \/ ShiftTab(b)
        PROVE  EditorInv'
    BY <1>4, KeysKeepInv
  <1>5. ASSUME NEW b \in Blocks(doc), addBlock(b) \/ insertNested(b) \/ removeBlock(b)
        PROVE  EditorInv'
    BY <1>5, MenuKeepsInv
  <1>6. ASSUME NEW b \in Blocks(doc), NEW k \in 0..Len(doc.words[b]), Enter(b, k)
        PROVE  EditorInv'
    BY <1>6, EnterKeepsInv
  <1>7. ASSUME NEW b \in Blocks(doc), NEW c \in {b} \cup ToSet(Following(doc.kids, b)),
               NEW p \in Blocks(doc) \cup {Root}, NEW l \in {Root} \cup ToSet(doc.kids[p]), Drag(b, c, p, l)
        PROVE  EditorInv'
    BY <1>7, DragKeepsInv
  <1> QED
    BY <1>1, <1>2, <1>3, <1>4, <1>5, <1>6, <1>7 DEF Next

-----------------------------------------------------------------------------
\* The invariant holds in every reachable state.
LEMMA InvHolds == Spec => []EditorInv
  <1>1. Init => EditorInv
    BY InvHoldsAtFirst
  <1>2. EditorInv /\ [Next]_vars => EditorInv'
    BY NextKeepsInv
  <1> QED
    BY <1>1, <1>2, PTL DEF Spec

\* Whatever is typed, split, merged, nested, lifted, dragged, undone and
\* saved: the blocks are a tree, in the editor (the commands of core) and in
\* the daemon (docmodel), and no id is handed out twice.
THEOREM EditorTypes == Spec => []TypeOK
  BY InvHolds, InvImpliesType, PTL

\* However many edits lie between two saves, treeMutation.move refuses none
\* of the changes that compareBlocksWithMap lists.
THEOREM SavesAreAcceptedTheorem == Spec => []SavesAreAccepted
  <1>1. EditorInv => SavesAreAccepted
    <2> SUFFICES ASSUME EditorInv PROVE SavesAreAccepted
      OBVIOUS
    <2>1. PICK t : Saving = Accepted(t)
      BY SavingFacts
    <2> QED
      BY <2>1 DEF SavesAreAccepted, Accepted
  <1> QED
    BY <1>1, InvHolds, PTL

\* A save loses no block and keeps none: in the daemon every block of the
\* editor is under its parent and has its content, and no other block is left.
THEOREM NestingIsSavedTheorem == Spec => []NestingIsSaved
  <1>1. EditorInv => NestingIsSaved
    <2> SUFFICES ASSUME EditorInv PROVE NestingIsSaved
      OBVIOUS
    <2>1. PICK t : /\ Saving = Accepted(t) /\ Blocks(t) = Blocks(doc)
                   /\ \A b \in Blocks(doc) : Parent(t.kids, b) = Parent(doc.kids, b) /\ t.content[b] = fromHMBlock(doc, b)
      BY SavingFacts
    <2>2. Saving.doc = t
      BY <2>1 DEF Accepted
    <2> QED
      BY <2>1, <2>2 DEF NestingIsSaved
  <1> QED
    BY <1>1, InvHolds, PTL

\* When at most one block was moved, inserted or removed since the daemon had
\* all blocks in their places, the save leaves it with every list of children
\* in the order of the editor (compareBlocksWithMap, treeMutation.move).
THEOREM OneEditIsSavedInOrderTheorem == Spec => []OneEditIsSavedInOrder
  <1>1. EditorInv => OneEditIsSavedInOrder
    <2> SUFFICES ASSUME EditorInv, unsaved \in {"none", "one"} PROVE Saving.doc.kids = doc.kids
      BY DEF OneEditIsSavedInOrder
    <2>1. PICK t : Saving = Accepted(t) /\ (OneEdit(saved.kids, doc.kids) => t.kids = doc.kids)
      BY SavingFacts
    <2>2. OneEdit(saved.kids, doc.kids)
      <3>1. CASE unsaved = "one"
        BY <3>1 DEF EditorInv
      <3>2. CASE unsaved = "none"
        <4>1. saved.kids = doc.kids /\ Apart(doc.kids) /\ KeptBut(doc.kids, doc.kids, Root)
          BY <3>2, DocFacts DEF EditorInv, GoodKids, KeptBut
        <4> QED
          BY <4>1, KeptIsOrderly DEF OneEdit
      <3> QED
        BY <3>1, <3>2
    <2> QED
      BY <2>1, <2>2 DEF Accepted
  <1> QED
    BY <1>1, InvHolds, PTL

\* However the draft differs from the publication its replacement is created
\* from, the changes that compareDraftWithMap lists are accepted and bring back
\* every block of the draft, under its parent and with its content, and no
\* other block.
THEOREM NestingIsRestoredTheorem == Spec => []NestingIsRestored
  <1>1. EditorInv => NestingIsRestored
    <2> SUFFICES ASSUME EditorInv, NEW d \in InitialDocs
                 PROVE  /\ ~Restoring(d).refused
                        /\ Blocks(Restoring(d).doc) = Blocks(saved)
                        /\ \A b \in Blocks(saved) : /\ Parent(Restoring(d).doc.kids, b) = Parent(saved.kids, b)
                                                     /\ Restoring(d).doc.content[b] = saved.content[b]
      BY DEF NestingIsRestored
    <2> DEFINE e == hmDocument(saved)
               s == createDraft(d)
    <2>1. GoodDoc(d) /\ GoodDoc(e) /\ \A b \in Blocks(saved) : saved.content[b] = fromHMBlock(e, b)
      BY EditorAssumption, DocumentIsGood DEF EditorInv, Readable
    <2>2. e.kids = saved.kids /\ Blocks(e) = Blocks(saved)
      BY DEF hmDocument, Blocks
    <2>3. Store(s)
      BY <2>1, CreatedFacts
    <2>4. Restoring(d) = UpdateDraft(s, Changes(e, createBlocksMap(s), "restore"))
      BY DEF Restoring, Changes
    <2> HIDE DEF e, s
    <2>5. PICK t : /\ UpdateDraft(s, Changes(e, createBlocksMap(s), "restore")) = Accepted(t)
                   /\ Progress(t, s, e, Blocks(e), Blocks(s) \ Blocks(e))
      BY <2>1, <2>3, SaveFacts
    <2>6. /\ Blocks(t) = Blocks(e)
          /\ \A b \in Blocks(e) : Parent(t.kids, b) = Parent(e.kids, b) /\ t.content[b] = fromHMBlock(e, b)
      BY <2>1, <2>3, <2>5, SavedIsTree
    <2>7. Restoring(d).doc = t /\ ~Restoring(d).refused
      <3>1. Restoring(d) = [doc |-> t, refused |-> FALSE]
        BY <2>4, <2>5 DEF Accepted
      <3> QED
        BY ONLY <3>1
    <2> QED
      BY <2>1, <2>2, <2>6, <2>7
  <1> QED
    BY <1>1, InvHolds, PTL
=============================================================================
