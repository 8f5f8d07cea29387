-------------------------- MODULE PendingEditsProofs --------------------------
(* Theorems about PendingEdits, for any paths, regions, texts and numbers  *)
(* of proposals, foreign changes and faults.                               *)
EXTENDS PendingEdits, SequenceTheorems, FiniteSetTheorems, TLAPS

Components == UNION {Range(p) : p \in Paths}

(* Every non-empty set of numbers has a least one: what induction is       *)
(* replaced by below.                                                      *)
LEMMA Least ==
  ASSUME NEW T, T \subseteq Nat, T # {}
  PROVE  \E m \in T : \A k \in T : m <= k
<1>1. PICK m \in T : \A k \in T : ~(<<k, m>> \in OpToRel(<, Nat))
  BY WFMin, NatLessThanWellFounded
<1>2. \A k \in T : ~(k < m)
  BY <1>1 DEF OpToRel
<1> QED BY <1>2

-----------------------------------------------------------------------------
(* Paths. *)

LEMMA PathType ==
  ASSUME NEW p \in Paths
  PROVE  p \in Seq(Components) /\ Len(p) \in Nat \ {0}
BY EditsAssumption, EmptySeq DEF Components

LEMMA UnderDef ==
  ASSUME NEW p \in Seq(Components), NEW q \in Seq(Components)
  PROVE  Under(p, q) <=> Len(p) <= Len(q) /\ \A i \in 1..Len(p) : p[i] = q[i]
<1>1. SubSeq(p, 1, Len(p)) = p
  BY SubSeqFull
<1>2. ASSUME Len(p) <= Len(q)
      PROVE  /\ SubSeq(q, 1, Len(p)) \in Seq(Components)
             /\ Len(SubSeq(q, 1, Len(p))) = Len(p)
             /\ \A i \in 1..Len(p) : SubSeq(q, 1, Len(p))[i] = q[i]
  BY <1>2
<1>3. ASSUME Len(p) <= Len(q), \A i \in 1..Len(p) : p[i] = q[i]
      PROVE  p = SubSeq(q, 1, Len(p))
  BY <1>2, <1>3, SeqEqual
<1> QED BY <1>1, <1>2, <1>3 DEF Under, IsPrefix

LEMMA FrontPath ==
  ASSUME NEW p \in Seq(Components), Len(p) > 0
  PROVE  /\ Front(p) \in Seq(Components)
         /\ Len(Front(p)) = Len(p) - 1
         /\ \A i \in 1..Len(p) - 1 : Front(p)[i] = p[i]
<1>1. ASSUME NEW n \in Nat, n <= Len(p)
      PROVE  /\ SubSeq(p, 1, n) \in Seq(Components)
             /\ Len(SubSeq(p, 1, n)) = n
             /\ \A i \in 1..n : SubSeq(p, 1, n)[i] = p[i]
  BY <1>1
<1>2. Len(p) - 1 \in Nat /\ Len(p) - 1 <= Len(p)
  BY LenProperties
<1> QED BY <1>1, <1>2 DEF Front

(* What lies strictly below a path lies below it with its parent.          *)
LEMMA ParentBelow ==
  ASSUME NEW p \in Seq(Components), NEW q \in Seq(Components), Len(p) > 0, Len(q) > 0
  PROVE  /\ IsStrictPrefix(p, q) <=> Under(p, q) /\ Len(p) < Len(q)
         /\ IsStrictPrefix(p, q) => Under(p, Front(q)) /\ Len(q) > 1
         /\ Under(p, Front(q)) => IsStrictPrefix(p, q)
<1>1. Under(p, q) /\ Len(p) = Len(q) => p = q
  BY UnderDef, SeqEqual
<1>2. IsStrictPrefix(p, q) <=> Under(p, q) /\ Len(p) < Len(q)
  BY <1>1, UnderDef DEF IsStrictPrefix, Under
<1>3. /\ Len(p) \in Nat /\ Len(q) \in Nat
      /\ Front(q) \in Seq(Components) /\ Len(Front(q)) = Len(q) - 1
      /\ \A i \in 1..Len(q) - 1 : Front(q)[i] = q[i]
  BY FrontPath, LenProperties
<1>4. Under(p, Front(q)) <=> Len(p) <= Len(q) - 1 /\ \A i \in 1..Len(p) : p[i] = Front(q)[i]
  BY <1>3, UnderDef
<1>5. Under(p, q) <=> Len(p) <= Len(q) /\ \A i \in 1..Len(p) : p[i] = q[i]
  BY UnderDef
<1>6. Under(p, Front(q)) <=> IsStrictPrefix(p, q)
  BY <1>2, <1>3, <1>4, <1>5
<1> QED BY <1>2, <1>3, <1>6

(* Prefixes of one path are comparable, and below is transitive.           *)
LEMMA UnderOrder ==
  ASSUME NEW p \in Seq(Components), NEW q \in Seq(Components), NEW r \in Seq(Components)
  PROVE  /\ Under(p, p)
         /\ Under(p, q) /\ Under(q, r) => Under(p, r)
         /\ Under(p, r) /\ Under(q, r) => Under(p, q) \/ Under(q, p)
         /\ Under(p, q) /\ Under(q, p) => p = q
<1>1. Under(p, q) /\ Under(q, p) => p = q
  BY UnderDef, SeqEqual
<1>2. Under(p, p)
  BY UnderDef
<1>3. Under(p, q) /\ Under(q, r) => Under(p, r)
  BY UnderDef
<1>4. Under(p, r) /\ Under(q, r) => Under(p, q) \/ Under(q, p)
  BY UnderDef
<1> QED BY <1>1, <1>2, <1>3, <1>4

(* Rebase() moves what is below one path below another one, and back.      *)
LEMMA RebasePath ==
  ASSUME NEW q \in Seq(Components), NEW s \in Seq(Components), NEW d \in Seq(Components),
         Under(s, q), Len(q) > 0
  PROVE  /\ Rebase(q, s, d) \in Seq(Components)
         /\ Len(Rebase(q, s, d)) = Len(d) + Len(q) - Len(s)
         /\ \A i \in 1..Len(Rebase(q, s, d)) :
              Rebase(q, s, d)[i] = IF i <= Len(d) THEN d[i] ELSE q[i - Len(d) + Len(s)]
<1> DEFINE rest == SubSeq(q, Len(s) + 1, Len(q))
<1>1. /\ rest \in Seq(Components) /\ Len(rest) = Len(q) - Len(s)
      /\ \A i \in 1..Len(rest) : rest[i] = q[Len(s) + i]
  <2>1. Len(s) <= Len(q)
    BY UnderDef
  <2> QED BY <2>1, SubSeqProperties
<1>2. Rebase(q, s, d) = d \o rest
  BY DEF Rebase
<1> HIDE DEF rest
<1>3. Len(d) \in Nat /\ Len(rest) \in Nat /\ Len(q) \in Nat /\ Len(s) \in Nat
  BY <1>1, LenProperties
<1>4. /\ d \o rest \in Seq(Components)
      /\ Len(d \o rest) = Len(d) + Len(rest)
      /\ \A i \in 1..Len(d) + Len(rest) :
           (d \o rest)[i] = IF i <= Len(d) THEN d[i] ELSE rest[i - Len(d)]
  BY <1>1, ConcatProperties
<1>5. ASSUME NEW i \in 1..Len(d) + Len(rest), ~(i <= Len(d))
      PROVE  (d \o rest)[i] = q[i - Len(d) + Len(s)]
  <2>1. i - Len(d) \in 1..Len(rest) /\ Len(s) + (i - Len(d)) = i - Len(d) + Len(s)
    BY <1>3, <1>5
  <2> QED BY <1>1, <1>4, <1>5, <2>1
<1> QED BY <1>1, <1>2, <1>3, <1>4, <1>5

LEMMA RebaseBelow ==
  ASSUME NEW q \in Seq(Components), NEW s \in Seq(Components), NEW d \in Seq(Components),
         Under(s, q), Len(q) > 0, Len(s) > 0, Len(d) > 0
  PROVE  /\ Under(d, Rebase(q, s, d))
         /\ Rebase(Rebase(q, s, d), d, s) = q
         /\ q = s => Rebase(q, s, d) = d
         /\ q # s => Under(s, Front(q)) /\ Front(Rebase(q, s, d)) = Rebase(Front(q), s, d)
<1> DEFINE r == Rebase(q, s, d)
<1>1. /\ r \in Seq(Components)
      /\ Len(r) = Len(d) + Len(q) - Len(s)
      /\ \A i \in 1..Len(r) : r[i] = IF i <= Len(d) THEN d[i] ELSE q[i - Len(d) + Len(s)]
  BY RebasePath
<1>2. Len(s) <= Len(q) /\ \A i \in 1..Len(s) : s[i] = q[i]
  BY UnderDef
<1> HIDE DEF r
<1> Len(q) \in Nat /\ Len(s) \in Nat /\ Len(d) \in Nat
  BY LenProperties
<1>3. Under(d, r)
  <2>1. Len(d) <= Len(r) /\ \A i \in 1..Len(d) : d[i] = r[i]
    BY <1>1, <1>2
  <2> QED BY <1>1, <2>1, UnderDef
<1>4. Len(r) > 0
  BY <1>1, <1>2
<1>5. /\ Rebase(r, d, s) \in Seq(Components)
      /\ Len(Rebase(r, d, s)) = Len(s) + Len(r) - Len(d)
      /\ \A i \in 1..Len(Rebase(r, d, s)) :
           Rebase(r, d, s)[i] = IF i <= Len(s) THEN s[i] ELSE r[i - Len(s) + Len(d)]
  BY <1>1, <1>3, <1>4, RebasePath
<1>6. Rebase(r, d, s) = q
  <2>1. Len(Rebase(r, d, s)) = Len(q)
    BY <1>1, <1>5
  <2>2. \A i \in 1..Len(q) : Rebase(r, d, s)[i] = q[i]
    <3> TAKE i \in 1..Len(q)
    <3>1. CASE i <= Len(s)
      <4>1. i \in 1..Len(s) /\ i \in 1..Len(Rebase(r, d, s))
        BY <2>1, <3>1
      <4> QED BY <1>2, <1>5, <3>1, <4>1
    <3>2. CASE ~(i <= Len(s))
      <4>1. i - Len(s) + Len(d) \in 1..Len(r) /\ ~(i - Len(s) + Len(d) <= Len(d))
        BY <1>1, <3>2
      <4>2. i - Len(s) + Len(d) - Len(d) + Len(s) = i
        OBVIOUS
      <4>3. r[i - Len(s) + Len(d)] = q[i]
        BY <1>1, <4>1, <4>2
      <4> QED BY <1>5, <2>1, <3>2, <4>3
    <3> QED BY <3>1, <3>2
  <2> QED BY <1>5, <2>1, <2>2, SeqEqual
<1>7. ASSUME q = s PROVE r = d
  BY <1>1, <1>7, SeqEqual
<1>8. ASSUME q # s PROVE Under(s, Front(q)) /\ Front(r) = Rebase(Front(q), s, d)
  <2>1. Len(s) < Len(q)
    BY <1>2, <1>8, SeqEqual
  <2>2. Front(q) \in Seq(Components) /\ Len(Front(q)) = Len(q) - 1 /\ Len(q) - 1 > 0
        /\ \A i \in 1..Len(q) - 1 : Front(q)[i] = q[i]
    BY <2>1, FrontPath
  <2>3. Under(s, Front(q))
    BY <1>2, <2>1, <2>2, UnderDef
  <2>4. /\ Rebase(Front(q), s, d) \in Seq(Components)
        /\ Len(Rebase(Front(q), s, d)) = Len(d) + Len(q) - 1 - Len(s)
        /\ \A i \in 1..Len(Rebase(Front(q), s, d)) : Rebase(Front(q), s, d)[i] =
             IF i <= Len(d) THEN d[i] ELSE Front(q)[i - Len(d) + Len(s)]
    <3>1. Len(Front(q)) > 0
      BY <2>2
    <3>2. /\ Rebase(Front(q), s, d) \in Seq(Components)
          /\ Len(Rebase(Front(q), s, d)) = Len(d) + Len(Front(q)) - Len(s)
          /\ \A i \in 1..Len(Rebase(Front(q), s, d)) : Rebase(Front(q), s, d)[i] =
               IF i <= Len(d) THEN d[i] ELSE Front(q)[i - Len(d) + Len(s)]
      BY <2>2, <2>3, <3>1, RebasePath
    <3>3. Len(d) + Len(Front(q)) - Len(s) = Len(d) + Len(q) - 1 - Len(s)
      BY <2>2
    <3> QED BY <3>2, <3>3
  <2>5. /\ Front(r) \in Seq(Components) /\ Len(Front(r)) = Len(r) - 1
        /\ \A i \in 1..Len(r) - 1 : Front(r)[i] = r[i]
    BY <1>1, <1>4, FrontPath
  <2>6. \A i \in 1..Len(r) - 1 : Front(r)[i] = Rebase(Front(q), s, d)[i]
    <3> TAKE i \in 1..Len(r) - 1
    <3>1. i \in 1..Len(r) /\ i \in 1..Len(Rebase(Front(q), s, d))
      BY <1>1, <2>1, <2>4
    <3>2. CASE i <= Len(d)
      BY <1>1, <2>4, <2>5, <3>1, <3>2
    <3>3. CASE ~(i <= Len(d))
      <4>1. i - Len(d) + Len(s) \in 1..Len(q) - 1
        BY <1>1, <2>1, <3>3
      <4> QED BY <1>1, <2>2, <2>4, <2>5, <3>1, <3>3, <4>1
    <3> QED BY <3>2, <3>3
  <2> QED BY <1>1, <2>3, <2>4, <2>5, <2>6, SeqEqual
<1> QED BY <1>3, <1>6, <1>7, <1>8 DEF r

-----------------------------------------------------------------------------
(* File trees. *)

LEMMA NodeKinds ==
  /\ Absent \in Nodes /\ Dir \in Nodes /\ Absent # Dir
  /\ Absent.type # "file" /\ Dir.type # "file"
  /\ \A c : Written(c).type = "file" /\ Written(c).data = c /\ Written(c).ends = LineSep
  /\ \A c \in Contents : Written(c) \in Nodes
  /\ \A n \in Files : n \in Nodes /\ n.type = "file"
  /\ \A n \in Nodes : n.type = "file" => n.data \in Contents /\ n.ends \in Endings
<1>1. Absent # Dir /\ Absent.type # "file" /\ Dir.type # "file"
  <2>1. Absent.type = "absent" /\ Dir.type = "dir"
    BY DEF Absent, Dir
  <2> QED BY <2>1
<1>2. \A c : Written(c).type = "file" /\ Written(c).data = c /\ Written(c).ends = LineSep
  BY DEF Written, File
<1>3. \A n \in Files : n \in Nodes /\ n.type = "file" /\ n.data \in Contents /\ n.ends \in Endings
  BY DEF Nodes, Files
<1>4. \A c \in Contents : Written(c) \in Files
  BY EditsAssumption DEF Written, File, Files
<1>5. Absent \in Nodes /\ Dir \in Nodes
  BY DEF Nodes
<1>6. ASSUME NEW n \in Nodes, n.type = "file" PROVE n.data \in Contents /\ n.ends \in Endings
  <2>1. n \in Files
    BY <1>1, <1>6 DEF Nodes
  <2> QED BY <1>3, <2>1
<1> QED BY <1>1, <1>2, <1>3, <1>4, <1>5, <1>6

(* The parent of a path below another one is a path too.                   *)
LEMMA ParentPath ==
  ASSUME NEW p \in Paths, NEW q \in Paths
  PROVE  /\ IsStrictPrefix(p, q) <=> Under(p, q) /\ p # q
         /\ IsStrictPrefix(p, q) <=> Under(p, q) /\ Len(p) < Len(q)
         /\ Len(q) > 1 => /\ Front(q) \in Paths /\ IsStrictPrefix(Front(q), q)
                          /\ Len(Front(q)) = Len(q) - 1
                          /\ Under(p, Front(q)) <=> IsStrictPrefix(p, q)
         /\ IsStrictPrefix(p, q) => Len(q) > 1
<1>1. /\ p \in Seq(Components) /\ Len(p) \in Nat \ {0}
      /\ q \in Seq(Components) /\ Len(q) \in Nat \ {0}
  BY PathType
<1>2. IsStrictPrefix(p, q) <=> Under(p, q) /\ p # q
  BY DEF IsStrictPrefix, Under
<1>3. /\ IsStrictPrefix(p, q) <=> Under(p, q) /\ Len(p) < Len(q)
      /\ IsStrictPrefix(p, q) => Under(p, Front(q)) /\ Len(q) > 1
      /\ Under(p, Front(q)) => IsStrictPrefix(p, q)
  BY <1>1, ParentBelow
<1>4. ASSUME Len(q) > 1
      PROVE  Front(q) \in Paths /\ IsStrictPrefix(Front(q), q) /\ Len(Front(q)) = Len(q) - 1
  <2>1. Front(q) \in Paths
    BY <1>4, EditsAssumption
  <2>2. /\ Len(Front(q)) = Len(q) - 1
        /\ \A i \in 1..Len(q) - 1 : Front(q)[i] = q[i]
    BY <1>1, FrontPath
  <2>3. Front(q) \in Seq(Components) /\ Len(Front(q)) \in Nat \ {0}
    BY <2>1, PathType
  <2>4. Under(Front(q), q)
    BY <1>1, <2>2, <2>3, UnderDef
  <2>5. IsStrictPrefix(Front(q), q) <=> Under(Front(q), q) /\ Len(Front(q)) < Len(q)
    BY <1>1, <2>3, ParentBelow
  <2> QED BY <1>1, <2>1, <2>2, <2>4, <2>5
<1> QED BY <1>2, <1>3, <1>4

(* Whatever exists has directories above it.                               *)
LEMMA AncestorIsDir ==
  ASSUME NEW f, IsTree(f), NEW p \in Paths, NEW q \in Paths, IsStrictPrefix(p, q), Exists(f, q)
  PROVE  f[p] = Dir
<1> DEFINE Bad == {x \in Paths : IsStrictPrefix(p, x) /\ f[x] # Absent /\ f[p] # Dir}
           Lens == {Len(x) : x \in Bad}
<1>1. SUFFICES ASSUME Bad # {} PROVE FALSE
  BY DEF Exists
<1>2. Lens \subseteq Nat /\ Lens # {}
  BY <1>1, PathType
<1>3. PICK n \in Lens : \A k \in Lens : n <= k
  <2> HIDE DEF Lens
  <2> QED BY <1>2, Least
<1>4. PICK x \in Bad : n = Len(x)
  BY <1>3
<1>5. /\ Len(x) > 1 /\ Front(x) \in Paths /\ Len(Front(x)) = Len(x) - 1 /\ Len(x) \in Nat
      /\ Under(p, Front(x)) /\ f[Front(x)] = Dir
  BY <1>4, ParentPath, PathType DEF IsTree
<1>6. CASE p = Front(x)
  BY <1>4, <1>5, <1>6
<1>7. CASE p # Front(x)
  <2>1. Front(x) \in Bad
    BY <1>4, <1>5, <1>7, ParentPath, NodeKinds
  <2> QED BY <1>3, <1>4, <1>5, <2>1
<1> QED BY <1>6, <1>7

LEMMA RemovedTree ==
  ASSUME NEW f \in Trees, IsTree(f), NEW p \in Paths
  PROVE  Removed(f, p) \in Trees /\ IsTree(Removed(f, p))
<1>1. Removed(f, p) \in Trees
  BY NodeKinds DEF Removed, Trees
<1>2. ASSUME NEW q \in Paths, Len(q) > 1, Removed(f, p)[q] # Absent
      PROVE  Removed(f, p)[Front(q)] = Dir
  <2>1. Front(q) \in Paths /\ f[Front(q)] = Dir /\ ~Under(p, q)
    BY <1>2, ParentPath DEF Removed, IsTree
  <2>2. ~Under(p, Front(q))
    BY <1>2, <2>1, ParentPath
  <2> QED BY <2>1, <2>2 DEF Removed
<1> QED BY <1>1, <1>2 DEF IsTree

LEMMA PartlyTree ==
  ASSUME NEW f \in Trees, IsTree(f), NEW p \in Paths, NEW h \in PartlyRemoved(f, p)
  PROVE  /\ h \in Trees /\ IsTree(h)
         /\ \A q \in Paths : ~Under(p, q) => h[q] = f[q]
<1> DEFINE below == {q \in Paths : Under(p, q)}
           closed == {gone \in SUBSET below :
                        \A q \in gone, r \in below : Under(q, r) => r \in gone}
<1>1. PICK gone \in closed : h = [q \in Paths |-> IF q \in gone THEN Absent ELSE f[q]]
  BY DEF PartlyRemoved
<1>2. gone \subseteq below /\ \A q \in gone, r \in below : Under(q, r) => r \in gone
  BY <1>1
<1>3. h \in Trees /\ \A q \in Paths : h[q] = IF q \in gone THEN Absent ELSE f[q]
  BY <1>1, NodeKinds DEF Trees
<1> HIDE DEF closed
<1>4. ASSUME NEW q \in Paths, Len(q) > 1, h[q] # Absent PROVE h[Front(q)] = Dir
  <2>1. q \notin gone /\ f[q] # Absent
    BY <1>3, <1>4
  <2>2. Front(q) \in Paths /\ f[Front(q)] = Dir /\ IsStrictPrefix(Front(q), q)
    BY <1>4, <2>1, ParentPath DEF IsTree
  <2>3. Under(Front(q), q)
    BY <2>2, ParentPath
  <2>4. ASSUME Front(q) \in gone PROVE FALSE
    <3>1. Under(p, Front(q))
      BY <1>2, <2>4
    <3>2. Under(p, q)
      BY <2>2, <2>3, <3>1, PathType, UnderOrder
    <3> QED BY <1>2, <2>1, <2>3, <2>4, <3>2
  <2> QED BY <1>3, <2>2, <2>4
<1> QED BY <1>2, <1>3, <1>4 DEF IsTree

LEMMA ParentsTree ==
  ASSUME NEW f \in Trees, IsTree(f), NEW p \in Paths
  PROVE  WithParents(f, p) \in Trees /\ IsTree(WithParents(f, p))
<1> DEFINE g == WithParents(f, p)
<1>1. g \in Trees /\ \A q \in Paths : g[q] = IF IsStrictPrefix(q, p) THEN Dir ELSE f[q]
  BY NodeKinds DEF Trees, WithParents
<1> HIDE DEF g
<1>2. ASSUME NEW q \in Paths, Len(q) > 1, g[q] # Absent PROVE g[Front(q)] = Dir
  <2>1. Front(q) \in Paths /\ IsStrictPrefix(Front(q), q)
    BY <1>2, ParentPath
  <2>2. CASE IsStrictPrefix(q, p)
    <3>1. IsStrictPrefix(Front(q), p)
      BY <2>1, <2>2, ParentPath, PathType, UnderOrder
    <3> QED BY <1>1, <2>1, <3>1
  <2>3. CASE ~IsStrictPrefix(q, p)
    BY <1>1, <1>2, <2>1, <2>3 DEF IsTree
  <2> QED BY <2>2, <2>3
<1> QED BY <1>1, <1>2 DEF IsTree, g

LEMMA EditedTree ==
  ASSUME NEW f \in Trees, IsTree(f), NEW p \in Paths, IsFile(f, p), NEW c \in Contents
  PROVE  [f EXCEPT ![p] = Written(c)] \in Trees /\ IsTree([f EXCEPT ![p] = Written(c)])
<1> DEFINE g == [f EXCEPT ![p] = Written(c)]
<1>1. g \in Trees
  BY NodeKinds DEF Trees
<1>2. ASSUME NEW q \in Paths, Len(q) > 1, g[q] # Absent PROVE g[Front(q)] = Dir
  <2>1. f[q] # Absent
    BY <1>2, NodeKinds DEF Trees, IsFile
  <2>2. Front(q) \in Paths /\ f[Front(q)] = Dir
    BY <1>2, <2>1, ParentPath DEF IsTree
  <2>3. Front(q) # p
    BY <2>2, NodeKinds DEF IsFile
  <2> QED BY <2>2, <2>3 DEF Trees
<1> QED BY <1>1, <1>2 DEF IsTree

LEMMA CreatedTree ==
  ASSUME NEW f \in Trees, IsTree(f), NEW p \in Paths, ~Exists(f, p), NEW c \in Contents
  PROVE  LET g == [WithParents(f, p) EXCEPT ![p] = Written(c)]
         IN  g \in Trees /\ IsTree(g)
<1> DEFINE g == [WithParents(f, p) EXCEPT ![p] = Written(c)]
<1>1. g \in Trees /\ \A q \in Paths : g[q] = IF q = p THEN Written(c) ELSE IF IsStrictPrefix(q, p) THEN Dir ELSE f[q]
  BY NodeKinds DEF Trees, WithParents
<1> HIDE DEF g
<1>2. ASSUME NEW q \in Paths, Len(q) > 1, g[q] # Absent PROVE g[Front(q)] = Dir
  <2>1. Front(q) \in Paths /\ IsStrictPrefix(Front(q), q)
    BY <1>2, ParentPath
  <2>2. CASE q = p
    BY <1>1, <2>1, <2>2, ParentPath
  <2>3. CASE q # p /\ IsStrictPrefix(q, p)
    <3>1. IsStrictPrefix(Front(q), p) /\ Front(q) # p
      BY <2>1, <2>3, ParentPath, PathType, UnderOrder
    <3> QED BY <1>1, <2>1, <3>1
  <2>4. CASE q # p /\ ~IsStrictPrefix(q, p)
    <3>1. f[q] # Absent /\ f[Front(q)] = Dir
      BY <1>1, <1>2, <2>4 DEF IsTree
    <3>2. Front(q) # p
      BY <3>1, NodeKinds DEF Exists
    <3> QED BY <1>1, <2>1, <3>1, <3>2
  <2> QED BY <2>2, <2>3, <2>4
<1> QED BY <1>1, <1>2 DEF IsTree, g

LEMMA GraftedTree ==
  ASSUME NEW f \in Trees, IsTree(f), NEW g \in Trees, IsTree(g), NEW s \in Paths, NEW d \in Paths
  PROVE  LET h == Grafted(WithParents(f, d), g, s, d)
         IN  h \in Trees /\ IsTree(h)
<1> DEFINE h == Grafted(WithParents(f, d), g, s, d)
<1>1. /\ h \in Trees
      /\ \A q \in Paths : h[q] = IF ~Under(d, q) THEN (IF IsStrictPrefix(q, d) THEN Dir ELSE f[q])
                                 ELSE IF Rebase(q, d, s) \in Paths THEN g[Rebase(q, d, s)] ELSE Absent
  BY NodeKinds DEF Trees, WithParents, Grafted
<1> HIDE DEF h
<1>2. ASSUME NEW q \in Paths, Len(q) > 1, h[q] # Absent PROVE h[Front(q)] = Dir
  <2>1. Front(q) \in Paths /\ IsStrictPrefix(Front(q), q)
    BY <1>2, ParentPath
  <2>2. CASE ~Under(d, q)
    <3>1. ~Under(d, Front(q))
      BY <1>2, <2>1, <2>2, ParentPath
    <3>2. IsStrictPrefix(Front(q), d) \/ f[Front(q)] = Dir
      BY <1>1, <1>2, <2>1, <2>2, ParentPath, PathType, UnderOrder DEF IsTree
    <3> QED BY <1>1, <2>1, <3>1, <3>2
  <2>3. CASE q = d
    <3>1. ~Under(d, Front(q)) /\ IsStrictPrefix(Front(q), d)
      BY <1>2, <2>1, <2>3, ParentPath
    <3> QED BY <1>1, <2>1, <3>1
  <2>4. CASE Under(d, q) /\ q # d
    <3> DEFINE r == Rebase(q, d, s)
    <3>1. r \in Paths /\ g[r] # Absent
      BY <1>1, <1>2, <2>4
    <3>2. /\ q \in Seq(Components) /\ Len(q) > 0
          /\ s \in Seq(Components) /\ Len(s) > 0 /\ d \in Seq(Components) /\ Len(d) > 0
      BY PathType
    <3>3. Under(s, r) /\ Under(d, Front(q)) /\ Front(r) = Rebase(Front(q), d, s)
      BY <2>4, <3>2, RebaseBelow
    <3>4. Rebase(r, s, d) = q /\ (r = s => Rebase(r, s, d) = d)
      BY <2>4, <3>1, <3>2, <3>3, RebaseBelow, PathType
    <3>5. IsStrictPrefix(s, r) /\ Len(r) > 1 /\ Front(r) \in Paths
      BY <2>4, <3>1, <3>3, <3>4, ParentPath
    <3>6. g[Front(r)] = Dir
      BY <3>1, <3>5 DEF IsTree
    <3> QED BY <1>1, <2>1, <3>3, <3>5, <3>6
  <2> QED BY <2>2, <2>3, <2>4
<1> QED BY <1>1, <1>2 DEF IsTree, h

-----------------------------------------------------------------------------
(* Exact replacements. *)

Results == [ok : BOOLEAN, data : Contents]

(* The text e looks for is in region r only, where it is replaced.         *)
Hit(acc, e, r, data) ==
  /\ \A x \in Regions : acc.data[x] = e.find <=> x = r
  /\ data = [acc.data EXCEPT ![r] = e.replace]

(* One replacement goes through when its text is in exactly one region,    *)
(* and changes that region only (_apply_exact_edit).                       *)
LEMMA ExactStep ==
  ASSUME NEW acc \in Results, NEW e \in Replacements
  PROVE  /\ ApplyExact(acc, e) \in Results
         /\ ApplyExact(acc, e).ok =>
              acc.ok /\ \E r \in Regions : Hit(acc, e, r, ApplyExact(acc, e).data)
<1> DEFINE hits == {r \in Regions : acc.data[r] = e.find}
           new == [r \in Regions |-> IF r \in hits THEN e.replace ELSE acc.data[r]]
<1>1. /\ acc.ok \in BOOLEAN /\ acc.data \in Contents
      /\ e.find \in Texts /\ e.replace \in Texts
  BY DEF Results, Replacements
<1>2. new \in Contents
  BY <1>1 DEF Contents
<1>3. ApplyExact(acc, e) = IF acc.ok /\ Cardinality(hits) = 1 THEN [ok |-> TRUE, data |-> new]
                           ELSE [acc EXCEPT !.ok = FALSE]
  BY DEF ApplyExact
<1>4. CASE acc.ok /\ Cardinality(hits) = 1
  <2>1. IsFiniteSet(hits)
    BY EditsAssumption, FS_Subset
  <2>2. PICK r : hits = {r}
    <3> HIDE DEF hits
    <3> QED BY <1>4, <2>1, FS_Singleton
  <2>3. r \in Regions /\ \A x \in Regions : acc.data[x] = e.find <=> x = r
    BY <2>2
  <2>4. new = [acc.data EXCEPT ![r] = e.replace]
    BY <1>1, <2>2, <2>3 DEF Contents
  <2>5. ApplyExact(acc, e) = [ok |-> TRUE, data |-> new]
    BY <1>3, <1>4
  <2>6. ApplyExact(acc, e) \in Results /\ ApplyExact(acc, e).data = new
    BY <1>2, <2>5 DEF Results
  <2> HIDE DEF hits, new
  <2> QED BY <1>4, <2>3, <2>4, <2>6 DEF Hit
<1>5. CASE ~(acc.ok /\ Cardinality(hits) = 1)
  <2>1. ApplyExact(acc, e) = [acc EXCEPT !.ok = FALSE]
    BY <1>3, <1>5
  <2> QED BY <1>1, <2>1 DEF Results
<1> QED BY <1>4, <1>5

(* The recursion of ApplyBatch() has a solution. *)
RunOf(g, c, batch, N) ==
  g = [n \in 0..N |-> IF n = 0 THEN [ok |-> TRUE, data |-> c] ELSE ApplyExact(g[n - 1], batch[n])]

LEMMA RunExists ==
  ASSUME NEW c, NEW batch, NEW N \in Nat
  PROVE  \E g : RunOf(g, c, batch, N)
<1> DEFINE Solves(g, k) == RunOf(g, c, batch, k)
           Bad == {k \in Nat : ~\E g : Solves(g, k)}
<1>1. SUFFICES ASSUME Bad # {} PROVE FALSE
  OBVIOUS
<1>2. PICK k \in Bad : \A j \in Bad : k <= j
  <2>1. Bad \subseteq Nat
    OBVIOUS
  <2> HIDE DEF Bad
  <2> QED BY <1>1, <2>1, Least
<1>3. k # 0
  <2>1. Solves([n \in 0..0 |-> [ok |-> TRUE, data |-> c]], 0)
    BY DEF RunOf
  <2> QED BY <2>1
<1>4. k - 1 \in Nat /\ k - 1 \notin Bad
  <2>1. k \in Nat
    OBVIOUS
  <2> HIDE DEF Bad
  <2> QED BY <1>2, <1>3, <2>1
<1>5. PICK g : Solves(g, k - 1)
  BY <1>4
<1> DEFINE h == [n \in 0..k |-> IF n = k THEN ApplyExact(g[k - 1], batch[k]) ELSE g[n]]
<1>6. \A n \in 0..k : h[n] = IF n = 0 THEN [ok |-> TRUE, data |-> c] ELSE ApplyExact(h[n - 1], batch[n])
  <2> TAKE n \in 0..k
  <2>1. CASE n = k
    BY <1>3, <1>4, <2>1
  <2>2. CASE n # k
    <3>1. n \in 0..k - 1 /\ (n # 0 => n - 1 \in 0..k /\ n - 1 # k)
      BY <1>4, <2>2
    <3> QED BY <1>5, <2>2, <3>1 DEF RunOf
  <2> QED BY <2>1, <2>2
<1>7. Solves(h, k)
  BY <1>6 DEF RunOf
<1> QED BY <1>2, <1>7

(* ApplyBatch() is a run of replacements, each on the result of the one    *)
(* before.                                                                 *)
IsRun(run, c, batch) ==
  /\ run \in [0..Len(batch) -> Results]
  /\ run[0] = [ok |-> TRUE, data |-> c]
  /\ \A n \in 1..Len(batch) : run[n] = ApplyExact(run[n - 1], batch[n])

LEMMA BatchRun ==
  ASSUME NEW c \in Contents, NEW batch \in Seq(Replacements)
  PROVE  \E run : IsRun(run, c, batch) /\ ApplyBatch(c, batch) = run[Len(batch)]
<1> DEFINE N == Len(batch)
           Solves(g) == RunOf(g, c, batch, N)
           run == CHOOSE g : Solves(g)
<1>1. N \in Nat
  BY LenProperties
<1>2. \E g : Solves(g)
  BY <1>1, RunExists
<1>3. Solves(run)
  <2> HIDE DEF Solves
  <2> QED BY <1>2
<1>4. ApplyBatch(c, batch) = run[N]
  BY DEF ApplyBatch, RunOf
<1> HIDE DEF run
<1>5. /\ run[0] = [ok |-> TRUE, data |-> c]
      /\ \A n \in 1..N : run[n] = ApplyExact(run[n - 1], batch[n])
  <2>1. \A n \in 0..N : run[n] = IF n = 0 THEN [ok |-> TRUE, data |-> c]
                                 ELSE ApplyExact(run[n - 1], batch[n])
    BY <1>3 DEF RunOf
  <2>2. 0 \in 0..N /\ \A n \in 1..N : n \in 0..N /\ n # 0
    BY <1>1
  <2> HIDE DEF N
  <2> QED BY <2>1, <2>2
<1>6. \A n \in 0..N : run[n] \in Results
  <2> DEFINE Bad == {n \in 0..N : run[n] \notin Results}
  <2>1. SUFFICES ASSUME Bad # {} PROVE FALSE
    OBVIOUS
  <2>2. PICK k \in Bad : \A j \in Bad : k <= j
    <3>1. Bad \subseteq Nat
      BY <1>1
    <3> HIDE DEF Bad
    <3> QED BY <2>1, <3>1, Least
  <2>3. k # 0
    <3>1. run[0] \in Results
      BY <1>5 DEF Results
    <3> QED BY <2>2, <3>1
  <2>4. k \in 1..N /\ k - 1 \in 0..N /\ run[k - 1] \in Results
    BY <1>1, <2>2, <2>3
  <2>5. batch[k] \in Replacements
    BY <2>4, ElementOfSeq
  <2> QED BY <1>5, <2>2, <2>4, <2>5, ExactStep
<1>7. run = [n \in 0..N |-> run[n]]
  BY <1>3 DEF RunOf
<1>8. run \in [0..N -> Results]
  BY <1>6, <1>7
<1> QED BY <1>4, <1>5, <1>8 DEF IsRun

(* A batch that went through did so step by step. *)
LEMMA RunOk ==
  ASSUME NEW c, NEW batch \in Seq(Replacements), NEW run, IsRun(run, c, batch), run[Len(batch)].ok,
         NEW n \in 0..Len(batch)
  PROVE  run[n].ok
<1> DEFINE N == Len(batch)
           Bad == {k \in n..N : run[k].ok}
<1>1. N \in Nat
  BY LenProperties
<1>2. N \in Bad /\ Bad \subseteq Nat
  BY <1>1
<1>3. PICK k \in Bad : \A j \in Bad : k <= j
  <2> HIDE DEF Bad
  <2> QED BY <1>2, Least
<1>4. CASE k = n
  BY <1>3, <1>4
<1>5. CASE k # n
  <2>1. k \in 1..N /\ k - 1 \in n..N /\ k - 1 \in 0..N
    BY <1>1, <1>3, <1>5
  <2>2. run[k - 1] \in Results /\ batch[k] \in Replacements /\ run[k] = ApplyExact(run[k - 1], batch[k])
    BY <2>1, ElementOfSeq DEF IsRun
  <2>3. run[k - 1].ok
    BY <1>3, <2>2, ExactStep
  <2> QED BY <1>1, <1>3, <2>1, <2>3
<1> QED BY <1>4, <1>5

(* Two runs of one batch, from contents a0 and c0 to a and c: T is what    *)
(* the first has touched, m[r] the region in which the second run made the *)
(* replacements the first made in r.                                       *)
Matched(T, m, a, c, a0, c0) ==
  /\ T \subseteq Regions /\ m \in [Regions -> Regions]
  /\ \A r \in T : c[m[r]] = a[r] /\ c0[m[r]] = a0[r] /\ (c0[r] = a0[r] => m[r] = r)
  /\ \A r, t \in T : m[r] = m[t] => r = t
  /\ \A r \in Regions \ T : a[r] = a0[r]
  /\ \A r \in Regions : (\A t \in T : m[t] # r) => c[r] = c0[r]
  /\ \A t \in T, u \in Regions \ T : a0[t] # a0[u]

LEMMA MatchStep ==
  ASSUME NEW acc \in Results, NEW bcc \in Results, NEW a0 \in Contents, NEW c0 \in Contents,
         NEW T, NEW m, Matched(T, m, acc.data, bcc.data, a0, c0),
         NEW e \in Replacements, NEW r \in Regions, NEW s \in Regions,
         NEW a2, Hit(acc, e, r, a2), NEW c2, Hit(bcc, e, s, c2)
  PROVE  \E T2, m2 : Matched(T2, m2, a2, c2, a0, c0)
<1> DEFINE a == acc.data
           c == bcc.data
           x == e.find
           y == e.replace
<1>1. /\ a \in Contents /\ c \in Contents /\ y \in Texts
      /\ \A q \in Regions : a[q] = x <=> q = r
      /\ \A q \in Regions : c[q] = x <=> q = s
      /\ a2 = [a EXCEPT ![r] = y] /\ c2 = [c EXCEPT ![s] = y]
  BY DEF Results, Replacements, Hit
<1>2. Matched(T, m, a, c, a0, c0)
  OBVIOUS
<1> HIDE DEF a, c, x, y
<1>3. /\ a2[r] = y /\ \A q \in Regions \ {r} : a2[q] = a[q]
      /\ c2[s] = y /\ \A q \in Regions \ {s} : c2[q] = c[q]
  BY <1>1 DEF Contents
<1>4. CASE r \in T
  <2>1. s = m[r]
    BY <1>1, <1>2, <1>4 DEF Matched
  <2>2. Matched(T, m, a2, c2, a0, c0)
    BY <1>1, <1>2, <1>3, <1>4, <2>1 DEF Matched
  <2> QED BY <2>2
<1>5. CASE r \notin T
  <2>1. a0[r] = x
    BY <1>1, <1>2, <1>5 DEF Matched
  <2>2. \A t \in T : m[t] # s
    BY <1>1, <1>2, <1>5 DEF Matched
  <2>3. c0[s] = x
    BY <1>1, <1>2, <2>2 DEF Matched
  <2>4. c0[r] = a0[r] => s = r
    <3>1. \A t \in T : a0[t] # a0[r]
      BY <1>2, <1>5 DEF Matched
    <3>2. c0[r] = a0[r] => \A t \in T : m[t] # r
      BY <1>2, <3>1 DEF Matched
    <3> QED BY <1>1, <1>2, <2>1, <3>2 DEF Matched
  <2>5. \A u \in Regions \ (T \cup {r}) : a0[u] # x
    BY <1>1, <1>2 DEF Matched
  <2> DEFINE T2 == T \cup {r}
             m2 == [m EXCEPT ![r] = s]
  <2>6. m2 \in [Regions -> Regions] /\ m2[r] = s /\ \A t \in T : m2[t] = m[t]
    BY <1>2, <1>5 DEF Matched
  <2> HIDE DEF m2
  <2>8. \A t \in T2 : c2[m2[t]] = a2[t] /\ c0[m2[t]] = a0[t] /\ (c0[t] = a0[t] => m2[t] = t)
    BY <1>2, <1>5, <1>3, <2>1, <2>2, <2>3, <2>4, <2>6 DEF Matched
  <2>9. \A q, t \in T2 : m2[q] = m2[t] => q = t
    BY <1>2, <2>2, <2>6 DEF Matched
  <2>10. \A q \in Regions \ T2 : a2[q] = a0[q]
    BY <1>2, <1>3 DEF Matched
  <2>11. \A q \in Regions : (\A t \in T2 : m2[t] # q) => c2[q] = c0[q]
    BY <1>2, <1>3, <2>6 DEF Matched
  <2>12. \A t \in T2, u \in Regions \ T2 : a0[t] # a0[u]
    BY <1>2, <2>1, <2>5 DEF Matched
  <2>13. T2 \subseteq Regions
    BY <1>2 DEF Matched
  <2>14. Matched(T2, m2, a2, c2, a0, c0)
    BY <2>6, <2>8, <2>9, <2>10, <2>11, <2>12, <2>13 DEF Matched
  <2> QED BY <2>14
<1> QED BY <1>4, <1>5

LEMMA MatchEnd ==
  ASSUME NEW a \in Contents, NEW c \in Contents, NEW a0 \in Contents, NEW c0 \in Contents,
         NEW T, NEW m, Matched(T, m, a, c, a0, c0), ~ChangesOverlap(a0, c0, a),
         NEW r \in Regions
  PROVE  c[r] = IF a[r] # a0[r] THEN a[r] ELSE c0[r]
<1>1. a[r] # a0[r] => c0[r] = a0[r]
  BY DEF ChangesOverlap, Changed
<1>2. CASE a[r] # a0[r]
  BY <1>1, <1>2 DEF Matched
<1>3. CASE a[r] = a0[r] /\ \A t \in T : m[t] # r
  BY <1>3 DEF Matched
<1>4. CASE a[r] = a0[r] /\ \E t \in T : m[t] = r
  <2>1. PICK t \in T : m[t] = r
    BY <1>4
  <2>2. c[r] = a[t] /\ c0[r] = a0[t] /\ t \in Regions
    BY <2>1 DEF Matched
  <2>3. a[t] = a0[t]
    <3>1. a[t] # a0[t] => c0[t] = a0[t]
      BY <2>2 DEF ChangesOverlap, Changed
    <3>2. a[t] # a0[t] => t = r
      BY <2>1, <3>1 DEF Matched
    <3> QED BY <1>4, <3>2
  <2> QED BY <1>4, <2>2, <2>3
<1> QED BY <1>2, <1>3, <1>4

LEMMA BatchType ==
  ASSUME NEW c \in Contents, NEW batch \in Seq(Replacements)
  PROVE  ApplyBatch(c, batch) \in Results
<1>1. PICK run : IsRun(run, c, batch) /\ ApplyBatch(c, batch) = run[Len(batch)]
  BY BatchRun
<1>2. Len(batch) \in 0..Len(batch)
  BY LenProperties
<1> QED BY <1>1, <1>2 DEF IsRun

(* A batch replayed on what others made of the file meanwhile makes the    *)
(* changes it made when it was proposed, and no other ones, unless it is   *)
(* refused or the changes overlap.                                         *)
LEMMA Replay ==
  ASSUME NEW o \in Contents, NEW current \in Contents, NEW batch \in Seq(Replacements),
         ApplyBatch(o, batch).ok, ApplyBatch(current, batch).ok,
         ~ChangesOverlap(o, current, ApplyBatch(o, batch).data),
         NEW r \in Regions
  PROVE  LET new == ApplyBatch(o, batch).data
         IN  ApplyBatch(current, batch).data[r] = IF new[r] # o[r] THEN new[r] ELSE current[r]
<1> DEFINE N == Len(batch)
<1>1. N \in Nat
  BY LenProperties
<1>2. PICK a : IsRun(a, o, batch) /\ ApplyBatch(o, batch) = a[N]
  BY BatchRun
<1>3. PICK c : IsRun(c, current, batch) /\ ApplyBatch(current, batch) = c[N]
  BY BatchRun
<1>4. \A n \in 0..N : a[n].ok /\ c[n].ok /\ a[n] \in Results /\ c[n] \in Results
  <2> TAKE n \in 0..N
  <2>1. a[n].ok /\ c[n].ok
    BY <1>2, <1>3, RunOk
  <2> QED BY <1>2, <1>3, <2>1 DEF IsRun
<1>5. \A n \in 0..N : a[n].data \in Contents /\ c[n].data \in Contents
  BY <1>4 DEF Results
<1> DEFINE Good(n) == \E T, m : Matched(T, m, a[n].data, c[n].data, o, current)
           Bad == {n \in 0..N : ~Good(n)}
<1>6. Bad = {}
  <2>1. SUFFICES ASSUME Bad # {} PROVE FALSE
    OBVIOUS
  <2>2. PICK k \in Bad : \A j \in Bad : k <= j
    <3>1. Bad \subseteq Nat
      BY <1>1
    <3> HIDE DEF Bad
    <3> QED BY <2>1, <3>1, Least
  <2>3. k # 0
    <3>1. a[0].data = o /\ c[0].data = current
      BY <1>2, <1>3 DEF IsRun
    <3>2. Matched({}, [q \in Regions |-> q], o, current, o, current)
      BY DEF Matched
    <3>3. Good(0)
      BY <3>1, <3>2
    <3> HIDE DEF Good
    <3> QED BY <2>2, <3>3
  <2>4. k \in 1..N /\ k - 1 \in 0..N /\ k \in 0..N /\ k - 1 \notin Bad
    <3>1. k \in 0..N
      BY <2>2
    <3> HIDE DEF Bad
    <3> QED BY <1>1, <2>2, <2>3, <3>1
  <2>5. PICK T, m : Matched(T, m, a[k - 1].data, c[k - 1].data, o, current)
    BY <2>4
  <2>6. batch[k] \in Replacements /\ batch[k].find \in Texts /\ batch[k].replace \in Texts
    BY <2>4, ElementOfSeq DEF Replacements
  <2>7. a[k] = ApplyExact(a[k - 1], batch[k]) /\ c[k] = ApplyExact(c[k - 1], batch[k])
    BY <1>2, <1>3, <2>4 DEF IsRun
  <2> HIDE DEF Good, Bad
  <2>8. /\ a[k - 1] \in Results /\ ApplyExact(a[k - 1], batch[k]).ok
        /\ c[k - 1] \in Results /\ ApplyExact(c[k - 1], batch[k]).ok
        /\ a[k - 1].data \in Contents /\ c[k - 1].data \in Contents
    BY <1>4, <1>5, <2>4, <2>7
  <2>9. PICK p \in Regions : Hit(a[k - 1], batch[k], p, a[k].data)
    BY <2>6, <2>7, <2>8, ExactStep
  <2>10. PICK s \in Regions : Hit(c[k - 1], batch[k], s, c[k].data)
    BY <2>6, <2>7, <2>8, ExactStep
  <2>11. \E T2, m2 : Matched(T2, m2, a[k].data, c[k].data, o, current)
    BY <2>5, <2>6, <2>8, <2>9, <2>10, MatchStep
  <2> QED BY <2>2, <2>11 DEF Bad, Good
<1>7. N \in 0..N
  BY <1>1
<1>8. PICK T, m : Matched(T, m, a[N].data, c[N].data, o, current)
  BY <1>6, <1>7
<1> QED BY <1>2, <1>3, <1>5, <1>7, <1>8, MatchEnd

-----------------------------------------------------------------------------
(* What is stored of a proposal: a move or a copy goes elsewhere, and the  *)
(* new content of an exact edit is what the batch makes of the original.   *)
Honest(e) ==
  /\ e.kind \in {"move", "copy"} => e.path # e.dest
  /\ e.kind = "edit" /\ e.batch # <<>> =>
       ApplyBatch(e.original, e.batch).ok /\ e.new = ApplyBatch(e.original, e.batch).data

IInv ==
  /\ fs \in Trees /\ IsTree(fs)
  /\ edits \in Seq(Proposals) /\ effects \in Seq(Nat) /\ Len(effects) = Len(edits)
  /\ \A i \in 1..Len(edits) : /\ Honest(edits[i])
                              /\ effects[i] = IF edits[i].status = "applied" THEN 1 ELSE 0
  /\ last \in [id : 0..Len(edits), result : {"none", "applied", "refused", "raised"}]
  /\ others \in 0..MaxInputs
  /\ faults \in 0..MaxInputs

LEMMA BlankProposal ==
  /\ Blank \in Contents
  /\ \A kind \in {"edit", "create", "move", "copy", "delete"}, p \in Paths :
       Proposal(kind, p) \in Proposals /\ Proposal(kind, p).status = "pending"
<1>1. \E c \in Contents : TRUE
  <2>1. PICK t \in Texts : TRUE
    BY EditsAssumption
  <2>2. [r \in Regions |-> t] \in Contents
    BY DEF Contents
  <2> QED BY <2>2
<1>2. Blank \in Contents
  BY <1>1 DEF Blank
<1>3. <<>> \in Seq(Replacements)
  OBVIOUS
<1> QED BY <1>2, <1>3, EditsAssumption DEF Proposal, Proposals

(* Every tool that proposes stores an honest proposal, which is pending.   *)
LEMMA StoredProposal ==
  ASSUME IInv, ProposeStep
  PROVE  \E e \in Proposals : e.status = "pending" /\ Honest(e) /\ Propose(e)
<1>1. ASSUME NEW p \in Paths, NEW batch \in Batches, ProposeEdit(p, batch)
      PROVE  \E e \in Proposals : e.status = "pending" /\ Honest(e) /\ Propose(e)
  <2> DEFINE result == ApplyBatch(fs[p].data, batch)
             e == EditProposal(p, result.data, batch)
  <2>1. result.ok /\ Propose(e) /\ fs[p].type = "file"
    BY <1>1 DEF ProposeEdit, IsFile
  <2>2. fs[p].data \in Contents /\ fs[p].ends \in Endings
    BY <2>1, NodeKinds DEF IInv, Trees
  <2>3. batch \in Seq(Replacements)
    BY EditsAssumption DEF Batches
  <2>4. result \in Results
    BY <2>2, <2>3, BatchType
  <2>5. result.data \in Contents
    BY <2>4 DEF Results
  <2> HIDE DEF result
  <2>6. /\ e \in Proposals /\ e.status = "pending" /\ e.kind = "edit"
        /\ e.original = fs[p].data /\ e.batch = batch /\ e.new = result.data
    BY <2>2, <2>3, <2>5 DEF EditProposal, Proposal, Proposals
  <2>7. Honest(e)
    BY <2>1, <2>6 DEF Honest, result
  <2> QED BY <2>1, <2>6, <2>7
<1>2. ASSUME NEW p \in Paths, NEW c \in Contents, ProposeReplace(p, c)
      PROVE  \E e \in Proposals : e.status = "pending" /\ Honest(e) /\ Propose(e)
  <2> DEFINE batch == <<>>
             e == EditProposal(p, c, batch)
  <2>1. Propose(e) /\ fs[p].type = "file"
    BY <1>2 DEF ProposeReplace, IsFile
  <2>2. fs[p].data \in Contents /\ fs[p].ends \in Endings
    BY <2>1, NodeKinds DEF IInv, Trees
  <2>3. batch \in Seq(Replacements) /\ batch = <<>>
    OBVIOUS
  <2> HIDE DEF batch
  <2>4. Blank \in Contents
    BY BlankProposal
  <2>5. e \in Proposals /\ e.status = "pending" /\ e.kind = "edit" /\ e.batch = batch
    BY <2>2, <2>3, <2>4 DEF EditProposal, Proposal, Proposals
  <2>6. Honest(e)
    BY <2>3, <2>5 DEF Honest
  <2> QED BY <2>1, <2>5, <2>6
<1>3. ASSUME NEW p \in Paths, NEW c \in Contents, ProposeCreate(p, c)
      PROVE  \E e \in Proposals : e.status = "pending" /\ Honest(e) /\ Propose(e)
  <2> DEFINE e == [Proposal("create", p) EXCEPT !.new = c]
  <2>1. Propose(e)
    BY <1>3 DEF ProposeCreate
  <2>2. e \in Proposals /\ e.status = "pending" /\ e.kind = "create"
    BY BlankProposal DEF Proposal, Proposals
  <2>3. Honest(e)
    BY <2>2 DEF Honest
  <2> QED BY <2>1, <2>2, <2>3
<1>4. ASSUME NEW s \in Paths, NEW d \in Paths, NEW force \in BOOLEAN, ProposeMove(s, d, force)
      PROVE  \E e \in Proposals : e.status = "pending" /\ Honest(e) /\ Propose(e)
  <2> DEFINE e == [Proposal("move", s) EXCEPT !.dest = d, !.force = force]
  <2>1. Propose(e) /\ s # d
    BY <1>4 DEF ProposeMove
  <2>2. e \in Proposals /\ e.status = "pending" /\ e.kind = "move" /\ e.path = s /\ e.dest = d
    BY BlankProposal DEF Proposal, Proposals
  <2>3. Honest(e)
    BY <2>1, <2>2 DEF Honest
  <2> QED BY <2>1, <2>2, <2>3
<1>5. ASSUME NEW s \in Paths, NEW d \in Paths, NEW force \in BOOLEAN, NEW recursive \in BOOLEAN,
             ProposeCopy(s, d, recursive, force)
      PROVE  \E e \in Proposals : e.status = "pending" /\ Honest(e) /\ Propose(e)
  <2> DEFINE e == [Proposal("copy", s) EXCEPT !.dest = d, !.recursive = recursive, !.force = force]
  <2>1. Propose(e) /\ s # d
    BY <1>5 DEF ProposeCopy
  <2>2. e \in Proposals /\ e.status = "pending" /\ e.kind = "copy" /\ e.path = s /\ e.dest = d
    BY BlankProposal DEF Proposal, Proposals
  <2>3. Honest(e)
    BY <2>1, <2>2 DEF Honest
  <2> QED BY <2>1, <2>2, <2>3
<1>6. ASSUME NEW p \in Paths, NEW force \in BOOLEAN, NEW recursive \in BOOLEAN,
             ProposeDelete(p, recursive, force)
      PROVE  \E e \in Proposals : e.status = "pending" /\ Honest(e) /\ Propose(e)
  <2> DEFINE e == [Proposal("delete", p) EXCEPT !.recursive = recursive, !.force = force]
  <2>1. Propose(e)
    BY <1>6 DEF ProposeDelete
  <2>2. e \in Proposals /\ e.status = "pending" /\ e.kind = "delete"
    BY BlankProposal DEF Proposal, Proposals
  <2>3. Honest(e)
    BY <2>2 DEF Honest
  <2> QED BY <2>1, <2>2, <2>3
<1> QED BY <1>1, <1>2, <1>3, <1>4, <1>5, <1>6 DEF ProposeStep

LEMMA ClearedTree ==
  ASSUME NEW e \in Proposals, NEW f \in Trees, IsTree(f)
  PROVE  Cleared(e, f) \in Trees /\ IsTree(Cleared(e, f))
BY RemovedTree DEF Cleared, Proposals

(* An approval leaves a tree. *)
LEMMA AppliedTree ==
  ASSUME NEW e \in Proposals, NEW f \in Trees, IsTree(f)
  PROVE  /\ Apply(e, f).tree \in Trees /\ IsTree(Apply(e, f).tree)
         /\ Apply(e, f).result \in {"applied", "refused", "raised"}
<1> DEFINE Fine(r) == /\ r.tree \in Trees /\ IsTree(r.tree)
                      /\ r.result \in {"applied", "refused", "raised"}
<1>1. /\ e.path \in Paths /\ e.dest \in Paths /\ e.new \in Contents /\ e.original \in Contents
      /\ e.batch \in Seq(Replacements) /\ e.kind \in {"edit", "create", "move", "copy", "delete"}
  BY DEF Proposals
<1>2. \A g \in Trees : IsTree(g) => Fine(Done(g)) /\ Fine(Refused(g)) /\ Fine(Raised(g))
  BY DEF Done, Refused, Raised
<1> HIDE DEF Fine
<1>3. Fine(ApplyEdit(e, f))
  <2>1. CASE ~IsFile(f, e.path)
    BY <1>2, <2>1 DEF ApplyEdit
  <2>2. CASE IsFile(f, e.path)
    <3>1. f[e.path].data \in Contents
      BY <1>1, <2>2, NodeKinds DEF IsFile, Trees
    <3>2. ApplyBatch(f[e.path].data, e.batch).data \in Contents
      BY <1>1, <3>1, BatchType DEF Results
    <3>3. /\ Fine(Done([f EXCEPT ![e.path] = Written(e.new)]))
          /\ Fine(Done([f EXCEPT ![e.path] = Written(ApplyBatch(f[e.path].data, e.batch).data)]))
      BY <1>1, <1>2, <2>2, <3>2, EditedTree
    <3> QED BY <1>2, <2>2, <3>3 DEF ApplyEdit
  <2> QED BY <2>1, <2>2
<1>4. Fine(ApplyCreate(e, f))
  <2>1. ASSUME ~Exists(f, e.path)
        PROVE  Fine(Done([WithParents(f, e.path) EXCEPT ![e.path] = Written(e.new)]))
    BY <1>1, <1>2, <2>1, CreatedTree
  <2> QED BY <1>2, <2>1 DEF ApplyCreate
<1>5. Fine(ApplyDelete(e, f))
  BY <1>1, <1>2, RemovedTree DEF ApplyDelete
<1>6. Fine(ApplyTransfer(e, f))
  <2>1. ASSUME NEW g \in Trees, IsTree(g) PROVE Fine(Place(e, g))
    <3> DEFINE rest == IF e.kind = "move" THEN Removed(g, e.path) ELSE g
    <3>1. rest \in Trees /\ IsTree(rest)
      BY <1>1, <2>1, RemovedTree
    <3>2. Fine(Done(Grafted(WithParents(rest, e.dest), g, e.path, e.dest)))
      <4> HIDE DEF rest
      <4> QED BY <1>1, <1>2, <2>1, <3>1, GraftedTree
    <3> QED BY <1>2, <2>1, <3>2 DEF Place
  <2> QED BY <1>2, <2>1, ClearedTree DEF ApplyTransfer
<1>7. Fine(Apply(e, f))
  BY <1>3, <1>4, <1>5, <1>6 DEF Apply
<1> QED BY <1>7 DEF Fine

(* An approval that fails half way leaves a tree as well. *)
LEMMA InterruptedTree ==
  ASSUME NEW e \in Proposals, NEW f \in Trees, IsTree(f), Apply(e, f).result = "applied",
         NEW h \in Interrupted(e, f)
  PROVE  h \in Trees /\ IsTree(h)
<1>1. /\ e.path \in Paths /\ e.dest \in Paths
      /\ e.kind \in {"edit", "create", "move", "copy", "delete"}
  BY DEF Proposals
<1>2. CASE e.kind = "edit"
  <2>1. IsFile(f, e.path)
    BY <1>2 DEF Apply, ApplyEdit, Raised
  <2>2. h = f \/ \E c \in Contents : h = [f EXCEPT ![e.path] = Written(c)]
    BY <1>2 DEF Interrupted
  <2> QED BY <1>1, <2>1, <2>2, EditedTree
<1>3. CASE e.kind = "create"
  <2>1. ~Exists(f, e.path)
    BY <1>3 DEF Apply, ApplyCreate, Refused
  <2>2. \/ h = f \/ h = WithParents(f, e.path)
        \/ \E c \in Contents : h = [WithParents(f, e.path) EXCEPT ![e.path] = Written(c)]
    BY <1>3 DEF Interrupted
  <2>3. CASE \E c \in Contents : h = [WithParents(f, e.path) EXCEPT ![e.path] = Written(c)]
    BY <1>1, <2>1, <2>3, CreatedTree
  <2> QED BY <1>1, <2>2, <2>3, ParentsTree
<1>4. CASE e.kind = "delete"
  BY <1>1, <1>4, PartlyTree DEF Interrupted
<1>5. CASE e.kind \in {"move", "copy"}
  <2>1. Cleared(e, f) \in Trees /\ IsTree(Cleared(e, f))
    BY ClearedTree
  <2>2. CopyMade(e, f) \in Trees /\ IsTree(CopyMade(e, f))
    BY <1>1, <2>1, GraftedTree DEF CopyMade
  <2>3. \/ h \in PartlyRemoved(f, e.dest) \/ h \in PartlyRemoved(CopyMade(e, f), e.dest)
        \/ h \in PartlyRemoved(CopyMade(e, f), e.path)
    BY <1>5 DEF Interrupted
  <2> QED BY <1>1, <2>2, <2>3, PartlyTree
<1> QED BY <1>1, <1>2, <1>3, <1>4, <1>5

LEMMA InitInv == Init => IInv
<1> SUFFICES ASSUME Init PROVE IInv
  OBVIOUS
<1>1. Absent \in Nodes /\ Dir \in Nodes /\ \A n \in Files : n \in Nodes
  BY NodeKinds
<1>2. fs \in Trees /\ IsTree(fs)
  BY <1>1 DEF Init, Trees
<1>3. edits = <<>> /\ effects = <<>> /\ last = NoCall /\ others = 0 /\ faults = 0
  BY DEF Init
<1>4. MaxInputs \in Nat
  BY EditsAssumption
<1> QED BY <1>2, <1>3, <1>4 DEF IInv, NoCall

LEMMA StepInv == IInv /\ [Next]_vars => IInv'
<1> SUFFICES ASSUME IInv, [Next]_vars PROVE IInv'
  OBVIOUS
<1>1. MaxInputs \in Nat /\ Len(edits) \in Nat
  BY EditsAssumption, LenProperties DEF IInv
<1>2. CASE ProposeStep
  <2>1. PICK e \in Proposals : e.status = "pending" /\ Honest(e) /\ Propose(e)
    BY <1>2, StoredProposal
  <2>2. /\ edits' = Append(edits, e) /\ effects' = Append(effects, 0)
        /\ last' = NoCall /\ UNCHANGED <<fs, others, faults>>
    BY <2>1 DEF Propose
  <2>3. /\ edits' \in Seq(Proposals) /\ effects' \in Seq(Nat)
        /\ Len(edits') = Len(edits) + 1 /\ Len(effects') = Len(edits) + 1
    BY <2>2 DEF IInv
  <2>4. \A i \in 1..Len(edits') : /\ Honest(edits'[i])
                                  /\ effects'[i] = IF edits'[i].status = "applied" THEN 1 ELSE 0
    <3> TAKE i \in 1..Len(edits')
    <3>1. CASE i = Len(edits) + 1
      <4>1. edits \in Seq(Proposals) /\ effects \in Seq(Nat) /\ Len(effects) = Len(edits)
        BY DEF IInv
      <4>2. edits'[i] = e /\ effects'[i] = 0
        BY <2>2, <3>1, <4>1
      <4> QED BY <2>1, <4>2
    <3>2. CASE i # Len(edits) + 1
      <4>1. i \in 1..Len(edits) /\ edits'[i] = edits[i] /\ effects'[i] = effects[i]
        BY <1>1, <2>2, <2>3, <3>2 DEF IInv
      <4> QED BY <4>1 DEF IInv
    <3> QED BY <3>1, <3>2
  <2>5. last' \in [id : 0..Len(edits'), result : {"none", "applied", "refused", "raised"}]
    BY <1>1, <2>2, <2>3 DEF NoCall
  <2>6. fs' = fs /\ others' = others /\ faults' = faults
    BY <2>2
  <2> QED BY <2>3, <2>4, <2>5, <2>6 DEF IInv
<1>3. ASSUME NEW i \in DOMAIN edits, NEW st \in {"applied", "rejected"},
             edits' = [edits EXCEPT ![i].status = st],
             effects' = IF st = "applied" THEN [effects EXCEPT ![i] = @ + 1] ELSE effects,
             edits[i].status = "pending"
      PROVE  /\ edits' \in Seq(Proposals) /\ effects' \in Seq(Nat)
             /\ Len(edits') = Len(edits) /\ Len(effects') = Len(edits)
             /\ \A j \in 1..Len(edits') : /\ Honest(edits'[j])
                                          /\ effects'[j] = IF edits'[j].status = "applied" THEN 1 ELSE 0
  <2>1. i \in 1..Len(edits) /\ edits[i] \in Proposals
    BY DEF IInv
  <2>2. [edits[i] EXCEPT !.status = st] \in Proposals
    BY <2>1 DEF Proposals
  <2>3. edits' = [edits EXCEPT ![i] = [edits[i] EXCEPT !.status = st]]
    BY <1>3
  <2>4. /\ edits' \in Seq(Proposals) /\ Len(edits') = Len(edits)
        /\ \A j \in 1..Len(edits) : edits'[j] = IF j = i THEN [edits[i] EXCEPT !.status = st] ELSE edits[j]
    BY <2>1, <2>2, <2>3, ExceptSeq DEF IInv
  <2>5. /\ effects' \in Seq(Nat) /\ Len(effects') = Len(edits)
        /\ \A j \in 1..Len(edits) :
             effects'[j] = IF st = "applied" /\ j = i THEN effects[i] + 1 ELSE effects[j]
    <3>1. CASE st = "applied"
      <4>1. effects[i] \in Nat /\ effects[i] + 1 \in Nat /\ effects' = [effects EXCEPT ![i] = effects[i] + 1]
        BY <1>3, <2>1, <3>1 DEF IInv
      <4> QED BY <2>1, <3>1, <4>1, ExceptSeq DEF IInv
    <3>2. CASE st # "applied"
      BY <1>3, <3>2 DEF IInv
    <3> QED BY <3>1, <3>2
  <2>6. Honest([edits[i] EXCEPT !.status = st]) /\ [edits[i] EXCEPT !.status = st].status = st
    <3>1. Honest(edits[i])
      BY <2>1 DEF IInv
    <3> QED BY <2>1, <3>1 DEF Honest, Proposals
  <2>7. effects[i] = 0
    BY <1>3, <2>1 DEF IInv
  <2>8. ASSUME NEW j \in 1..Len(edits')
        PROVE  /\ Honest(edits'[j])
               /\ effects'[j] = IF edits'[j].status = "applied" THEN 1 ELSE 0
    <3>1. CASE j = i
      <4>1. j \in 1..Len(edits) /\ edits'[j] = [edits[i] EXCEPT !.status = st]
        BY <2>1, <2>4, <3>1
      <4>2. effects'[j] = IF st = "applied" THEN 1 ELSE 0
        BY <2>5, <2>7, <3>1, <4>1
      <4> QED BY <2>6, <4>1, <4>2
    <3>2. CASE j # i
      BY <2>4, <2>5, <3>2 DEF IInv
    <3> QED BY <3>1, <3>2
  <2> QED BY <2>4, <2>5, <2>8
<1>4. ASSUME NEW i \in DOMAIN edits, Approve(i) PROVE IInv'
  <2>1. i \in 1..Len(edits) /\ edits[i] \in Proposals /\ edits[i].status = "pending"
    BY <1>4 DEF IInv, Approve, Open
  <2> DEFINE r == Apply(edits[i], fs)
  <2>2. /\ fs' = r.tree /\ last' = [id |-> i, result |-> r.result] /\ UNCHANGED <<others, faults>>
        /\ IF r.result = "applied"
             THEN edits' = [edits EXCEPT ![i].status = "applied"] /\ effects' = [effects EXCEPT ![i] = @ + 1]
             ELSE UNCHANGED <<edits, effects>>
    BY <1>4 DEF Approve
  <2>3. r.tree \in Trees /\ IsTree(r.tree) /\ r.result \in {"applied", "refused", "raised"}
    BY <2>1, AppliedTree DEF IInv
  <2> HIDE DEF r
  <2>4. fs' \in Trees /\ IsTree(fs')
    BY <2>2, <2>3
  <2>5. /\ edits' \in Seq(Proposals) /\ effects' \in Seq(Nat)
        /\ Len(edits') = Len(edits) /\ Len(effects') = Len(edits)
        /\ \A j \in 1..Len(edits') : /\ Honest(edits'[j])
                                     /\ effects'[j] = IF edits'[j].status = "applied" THEN 1 ELSE 0
    <3>1. CASE r.result = "applied"
      BY <1>3, <2>1, <2>2, <3>1
    <3>2. CASE r.result # "applied"
      BY <2>2, <3>2 DEF IInv
    <3> QED BY <3>1, <3>2
  <2>6. last' \in [id : 0..Len(edits'), result : {"none", "applied", "refused", "raised"}]
    BY <1>1, <2>1, <2>2, <2>3, <2>5
  <2>7. others' = others /\ faults' = faults
    BY <2>2
  <2> QED BY <2>4, <2>5, <2>6, <2>7 DEF IInv
<1>5. ASSUME NEW i \in DOMAIN edits, ApproveFails(i) PROVE IInv'
  <2>1. i \in 1..Len(edits) /\ edits[i] \in Proposals
    BY DEF IInv
  <2>2. /\ last' = [id |-> i, result |-> "raised"] /\ UNCHANGED <<edits, effects, others>>
        /\ faults' = faults + 1 /\ Len(edits) + others + faults < MaxInputs
        /\ Apply(edits[i], fs).result = "applied" /\ fs' \in Interrupted(edits[i], fs)
    BY <1>5 DEF ApproveFails, InputsLeft
  <2>3. fs' \in Trees /\ IsTree(fs')
    BY <2>1, <2>2, InterruptedTree DEF IInv
  <2>4. faults' \in 0..MaxInputs
    BY <1>1, <2>2 DEF IInv
  <2>5. last' \in [id : 0..Len(edits'), result : {"none", "applied", "refused", "raised"}]
    BY <1>1, <2>1, <2>2
  <2>6. edits' = edits /\ effects' = effects /\ others' = others
    BY <2>2
  <2> QED BY <2>3, <2>4, <2>5, <2>6 DEF IInv
<1>6. ASSUME NEW i \in DOMAIN edits, Reject(i) PROVE IInv'
  <2>1. /\ edits' = [edits EXCEPT ![i].status = "rejected"] /\ effects' = effects
        /\ last' = NoCall /\ UNCHANGED <<fs, others, faults>> /\ edits[i].status = "pending"
    BY <1>6 DEF Reject
  <2>2. /\ edits' \in Seq(Proposals) /\ effects' \in Seq(Nat)
        /\ Len(edits') = Len(edits) /\ Len(effects') = Len(edits)
        /\ \A j \in 1..Len(edits') : /\ Honest(edits'[j])
                                     /\ effects'[j] = IF edits'[j].status = "applied" THEN 1 ELSE 0
    BY <1>3, <2>1
  <2>3. last' \in [id : 0..Len(edits'), result : {"none", "applied", "refused", "raised"}]
    BY <1>1, <2>1, <2>2 DEF NoCall
  <2>4. fs' = fs /\ others' = others /\ faults' = faults
    BY <2>1
  <2> QED BY <2>2, <2>3, <2>4 DEF IInv
<1>7. CASE OtherChange
  <2>1. /\ last' = NoCall /\ UNCHANGED <<edits, effects, faults>>
        /\ others' = others + 1 /\ Len(edits) + others + faults < MaxInputs /\ IsTree(fs')
    BY <1>7 DEF OtherChange, InputsLeft
  <2>2. fs' \in Trees
    <3>1. fs \in Trees /\ IsTree(fs)
      BY DEF IInv
    <3>2. PICK p \in Paths : \/ fs' = Removed(fs, p)
                            \/ fs' = [fs EXCEPT ![p] = Dir]
                            \/ \E n \in Files : fs' = [fs EXCEPT ![p] = n]
      BY <1>7 DEF OtherChange
    <3>3. CASE fs' = Removed(fs, p)
      BY <3>1, <3>3, RemovedTree
    <3>4. CASE fs' = [fs EXCEPT ![p] = Dir]
      BY <3>1, <3>4, NodeKinds DEF Trees
    <3>5. CASE \E n \in Files : fs' = [fs EXCEPT ![p] = n]
      BY <3>1, <3>5, NodeKinds DEF Trees
    <3> QED BY <3>2, <3>3, <3>4, <3>5
  <2>3. others' \in 0..MaxInputs
    BY <1>1, <2>1 DEF IInv
  <2>4. last' \in [id : 0..Len(edits'), result : {"none", "applied", "refused", "raised"}]
    BY <1>1, <2>1 DEF NoCall
  <2>5. edits' = edits /\ effects' = effects /\ faults' = faults
    BY <2>1
  <2> QED BY <2>1, <2>2, <2>3, <2>4, <2>5 DEF IInv
<1>8. CASE UNCHANGED vars
  BY <1>8 DEF vars, IInv
<1> QED BY <1>2, <1>4, <1>5, <1>6, <1>7, <1>8 DEF Next

(* The inductive invariant of EditStore, for any paths, file contents,     *)
(* proposals, foreign changes and faults.                                  *)
THEOREM Correct == Spec => []IInv
BY InitInv, StepInv, PTL DEF Spec

(* Every variable has its type, and every operation of EditStore.approve() *)
(* leaves the file system a tree.                                          *)
THEOREM TypeCorrect == Spec => []TypeOK
<1>1. IInv => TypeOK
  BY DEF IInv, TypeOK
<1> QED BY Correct, <1>1, PTL

(* An edit takes effect at most once and never after its rejection         *)
(* (EditStore.approve, EditStore.reject).                                  *)
THEOREM AppliedOnce == Spec => []EffectOnce
<1>1. IInv => EffectOnce
  BY DEF IInv, EffectOnce
<1> QED BY Correct, <1>1, PTL

-----------------------------------------------------------------------------
(* What an approval does to the tree. *)

(* The destination of a move or a copy was absent, or is replaced by force. *)
LEMMA TransferTree ==
  ASSUME NEW e \in Proposals, e.kind \in {"move", "copy"}, NEW f \in Trees, IsTree(f),
         ~Unsafe(e, f), ~Blocked(f, e.dest)
  PROVE  /\ \A p \in Paths : Under(e.dest, p) /\ Exists(f, p) => e.force
         /\ \A p \in Paths : Cleared(e, f)[p] = IF Under(e.dest, p) THEN Absent ELSE f[p]
         /\ \A p \in Paths : IsStrictPrefix(p, e.dest) /\ Exists(f, p) => f[p] = Dir
<1>1. e.path \in Paths /\ e.dest \in Paths
  BY DEF Proposals
<1>2. ASSUME NEW p \in Paths, Under(e.dest, p), Exists(f, p) PROVE Exists(f, e.dest)
  <2>1. CASE p = e.dest
    BY <1>2, <2>1
  <2>2. CASE p # e.dest
    <3>1. IsStrictPrefix(e.dest, p)
      BY <1>1, <1>2, <2>2, ParentPath
    <3>2. f[e.dest] = Dir
      BY <1>1, <1>2, <3>1, AncestorIsDir
    <3> QED BY <3>2, NodeKinds DEF Exists
  <2> QED BY <2>1, <2>2
<1>3. Exists(f, e.dest) => e.force
  BY DEF Unsafe
<1>4. ASSUME NEW p \in Paths PROVE Cleared(e, f)[p] = IF Under(e.dest, p) THEN Absent ELSE f[p]
  <2>1. CASE Exists(f, e.dest)
    BY <2>1 DEF Cleared, Removed
  <2>2. CASE ~Exists(f, e.dest)
    <3>1. Under(e.dest, p) => f[p] = Absent
      BY <1>2, <2>2 DEF Exists
    <3> QED BY <2>2, <3>1 DEF Cleared
  <2> QED BY <2>1, <2>2
<1>5. ASSUME NEW p \in Paths, IsStrictPrefix(p, e.dest), Exists(f, p) PROVE f[p] = Dir
  <2>1. f[p].type # "file"
    BY <1>5 DEF Blocked, IsFile
  <2>2. f[p] \in Nodes /\ f[p] # Absent
    BY <1>5 DEF Trees, Exists
  <2> QED BY <2>1, <2>2, NodeKinds DEF Nodes
<1> QED BY <1>2, <1>3, <1>4, <1>5

LEMMA PlacedTree ==
  ASSUME NEW e \in Proposals, NEW g, Exists(g, e.path), NEW p \in Paths
  PROVE  Place(e, g).tree[p] =
           IF Under(e.dest, p)
             THEN IF Rebase(p, e.dest, e.path) \in Paths THEN g[Rebase(p, e.dest, e.path)] ELSE Absent
           ELSE IF IsStrictPrefix(p, e.dest) THEN Dir
           ELSE IF e.kind = "move" /\ Under(e.path, p) THEN Absent
           ELSE g[p]
<1> DEFINE rest == IF e.kind = "move" THEN Removed(g, e.path) ELSE g
<1>1. Place(e, g).tree = Grafted(WithParents(rest, e.dest), g, e.path, e.dest)
  BY DEF Place, Done
<1>2. rest[p] = IF e.kind = "move" /\ Under(e.path, p) THEN Absent ELSE g[p]
  BY DEF Removed
<1> HIDE DEF rest
<1> QED BY <1>1, <1>2 DEF Grafted, WithParents

LEMMA NothingElse ==
  ASSUME NEW e \in Proposals, NEW f \in Trees, IsTree(f), NEW p \in Paths, Exists(f, p),
         Apply(e, f).tree[p] # f[p]
  PROVE  Named(e, p)
<1>1. /\ e.path \in Paths /\ e.dest \in Paths
      /\ e.kind \in {"edit", "create", "move", "copy", "delete"}
  BY DEF Proposals
<1>2. \A h : Done(h).tree = h /\ Refused(h).tree = h /\ Raised(h).tree = h
  BY DEF Done, Refused, Raised
<1>3. CASE e.kind = "edit"
  <2> DEFINE g(c) == [f EXCEPT ![e.path] = Written(c)]
  <2>1. \A c : p # e.path => g(c)[p] = f[p]
    BY DEF Trees
  <2> HIDE DEF g
  <2>2. \/ Apply(e, f) = Raised(f) \/ Apply(e, f) = Refused(f)
        \/ Apply(e, f) = Done(g(e.new))
        \/ Apply(e, f) = Done(g(ApplyBatch(f[e.path].data, e.batch).data))
    BY <1>3 DEF Apply, ApplyEdit, g
  <2>3. p = e.path
    BY <1>2, <2>1, <2>2
  <2> QED BY <1>3, <2>3 DEF Named
<1>4. CASE e.kind = "create"
  <2>1. /\ ~Exists(f, e.path) /\ ~Blocked(f, e.path)
        /\ Apply(e, f).tree = [WithParents(f, e.path) EXCEPT ![e.path] = Written(e.new)]
    BY <1>2, <1>4 DEF Apply, ApplyCreate
  <2>2. p # e.path
    BY <2>1
  <2>3. IsStrictPrefix(p, e.path) /\ f[p] # Dir
    BY <2>1, <2>2 DEF WithParents
  <2>4. f[p].type # "file"
    BY <2>1, <2>3 DEF Blocked, IsFile
  <2>5. f[p] \in Nodes /\ f[p] # Absent
    BY DEF Trees, Exists
  <2> QED BY <2>3, <2>4, <2>5, NodeKinds DEF Nodes
<1>5. CASE e.kind = "delete"
  <2>1. Apply(e, f).tree = f \/ Apply(e, f).tree = Removed(f, e.path)
    BY <1>2, <1>5 DEF Apply, ApplyDelete
  <2>2. Under(e.path, p)
    BY <2>1 DEF Removed
  <2> QED BY <1>5, <2>2 DEF Named
<1>6. CASE e.kind \in {"move", "copy"}
  <2>1. ~Unsafe(e, f) /\ ~Blocked(f, e.dest) /\ Apply(e, f).tree = Place(e, Cleared(e, f)).tree
    BY <1>2, <1>6 DEF Apply, ApplyTransfer
  <2>2. /\ Under(e.dest, p) => e.force
        /\ Cleared(e, f)[p] = IF Under(e.dest, p) THEN Absent ELSE f[p]
        /\ IsStrictPrefix(p, e.dest) => f[p] = Dir
    BY <1>6, <2>1, TransferTree
  <2>3. CASE Under(e.dest, p)
    BY <1>6, <2>2, <2>3 DEF Named
  <2>4. CASE ~Under(e.dest, p)
    <3>1. Exists(Cleared(e, f), e.path)
      BY <1>2, <2>1, <2>2, <2>4 DEF Place
    <3>2. e.kind = "move" /\ Under(e.path, p)
      BY <2>1, <2>2, <2>4, <3>1, PlacedTree
    <3> QED BY <3>2 DEF Named
  <2> QED BY <2>3, <2>4
<1> QED BY <1>1, <1>3, <1>4, <1>5, <1>6

(* So does an approval that fails half way: what it takes away was named.  *)
LEMMA NothingElseHalfWay ==
  ASSUME NEW e \in Proposals, NEW f \in Trees, IsTree(f), Apply(e, f).result = "applied",
         NEW h \in Interrupted(e, f), NEW p \in Paths, Exists(f, p), h[p] # f[p]
  PROVE  Named(e, p)
<1>1. /\ e.path \in Paths /\ e.dest \in Paths
      /\ e.kind \in {"edit", "create", "move", "copy", "delete"}
  BY DEF Proposals
<1>2. CASE e.kind = "edit"
  <2>1. \A c : p # e.path => [f EXCEPT ![e.path] = Written(c)][p] = f[p]
    BY DEF Trees
  <2>2. h = f \/ \E c \in Contents : h = [f EXCEPT ![e.path] = Written(c)]
    BY <1>2 DEF Interrupted
  <2> QED BY <1>2, <2>1, <2>2 DEF Named
<1>3. CASE e.kind = "create"
  <2>1. ~Exists(f, e.path) /\ ~Blocked(f, e.path)
    BY <1>3 DEF Apply, ApplyCreate, Refused, Raised
  <2>2. p # e.path
    BY <2>1
  <2>3. /\ WithParents(f, e.path)[p] = IF IsStrictPrefix(p, e.path) THEN Dir ELSE f[p]
        /\ \A c : [WithParents(f, e.path) EXCEPT ![e.path] = Written(c)][p] = WithParents(f, e.path)[p]
    BY <2>2 DEF WithParents
  <2>4. \/ h = f \/ h = WithParents(f, e.path)
        \/ \E c \in Contents : h = [WithParents(f, e.path) EXCEPT ![e.path] = Written(c)]
    BY <1>3 DEF Interrupted
  <2>5. IsStrictPrefix(p, e.path) /\ f[p] # Dir
    BY <2>3, <2>4
  <2>6. f[p].type # "file"
    BY <2>1, <2>5 DEF Blocked, IsFile
  <2>7. f[p] \in Nodes /\ f[p] # Absent
    BY DEF Trees, Exists
  <2> QED BY <2>5, <2>6, <2>7, NodeKinds DEF Nodes
<1>4. CASE e.kind = "delete"
  <2>1. Under(e.path, p)
    BY <1>1, <1>4, PartlyTree DEF Interrupted
  <2> QED BY <1>4, <2>1 DEF Named
<1>5. CASE e.kind \in {"move", "copy"}
  <2>1. ~Unsafe(e, f) /\ ~Blocked(f, e.dest)
    BY <1>5 DEF Apply, ApplyTransfer, Refused, Raised
  <2>2. /\ Under(e.dest, p) => e.force
        /\ Cleared(e, f)[p] = IF Under(e.dest, p) THEN Absent ELSE f[p]
        /\ IsStrictPrefix(p, e.dest) => f[p] = Dir
    BY <1>5, <2>1, TransferTree
  <2>3. CASE Under(e.dest, p)
    BY <1>5, <2>2, <2>3 DEF Named
  <2>4. CASE ~Under(e.dest, p)
    <3>1. CopyMade(e, f)[p] = f[p]
      BY <2>2, <2>4 DEF CopyMade, Grafted, WithParents
    <3>2. CopyMade(e, f) \in Trees /\ IsTree(CopyMade(e, f))
      BY <1>1, ClearedTree, GraftedTree DEF CopyMade
    <3>3. h \notin PartlyRemoved(f, e.dest) /\ h \notin PartlyRemoved(CopyMade(e, f), e.dest)
      BY <1>1, <2>4, <3>1, <3>2, PartlyTree
    <3>4. e.kind = "move" /\ h \in PartlyRemoved(CopyMade(e, f), e.path)
      BY <1>5, <3>3 DEF Interrupted
    <3>5. Under(e.path, p)
      BY <1>1, <3>1, <3>2, <3>4, PartlyTree
    <3> QED BY <3>4, <3>5 DEF Named
  <2> QED BY <2>3, <2>4
<1> QED BY <1>1, <1>2, <1>3, <1>4, <1>5

(* A call of approve() leaves its mark in last. *)
LEMMA WhoseCall ==
  ASSUME IInv, Next, NEW i \in DOMAIN edits, last'.id = i
  PROVE  /\ edits[i] \in Proposals /\ Honest(edits[i])
         /\ Approve(i) \/ ApproveFails(i)
<1>1. i \in 1..Len(edits) /\ Len(edits) \in Nat
  BY LenProperties DEF IInv
<1>2. last'.id # 0
  BY <1>1
<1>3. ~ProposeStep
  <2>1. ProposeStep => last' = NoCall
    BY StoredProposal DEF Propose
  <2> QED BY <1>2, <2>1 DEF NoCall
<1>4. ~OtherChange
  BY <1>2 DEF OtherChange, NoCall
<1>5. \A j \in DOMAIN edits : ~Reject(j)
  BY <1>2 DEF Reject, NoCall
<1>6. \A j \in DOMAIN edits : Approve(j) \/ ApproveFails(j) => last'.id = j
  BY DEF Approve, ApproveFails
<1>7. Approve(i) \/ ApproveFails(i)
  BY <1>3, <1>4, <1>5, <1>6 DEF Next
<1> QED BY <1>1, <1>7 DEF IInv

(* What an approval takes away or overwrites was named in the review, also *)
(* when it fails half way (EditStore.approve and the operations it calls). *)
THEOREM NothingClobbered == Spec => NoClobber
<1>1. ASSUME IInv, Next, NEW i \in DOMAIN edits, last'.id = i,
             NEW p \in Paths, Exists(fs, p), fs'[p] # fs[p]
      PROVE  Named(edits[i], p)
  <2>1. edits[i] \in Proposals /\ (Approve(i) \/ ApproveFails(i))
    BY <1>1, WhoseCall
  <2>2. fs \in Trees /\ IsTree(fs)
    BY <1>1 DEF IInv
  <2>3. CASE Approve(i)
    <3>1. fs' = Apply(edits[i], fs).tree
      BY <2>3 DEF Approve
    <3> QED BY <1>1, <2>1, <2>2, <3>1, NothingElse
  <2>4. CASE ApproveFails(i)
    <3>1. fs' \in Interrupted(edits[i], fs) /\ Apply(edits[i], fs).result = "applied"
      BY <2>4 DEF ApproveFails
    <3> QED BY <1>1, <2>1, <2>2, <3>1, NothingElseHalfWay
  <2> QED BY <2>1, <2>3, <2>4
<1>2. IInv /\ [Next]_vars => [\A i \in DOMAIN edits : last'.id = i =>
        \A p \in Paths : Exists(fs, p) /\ fs'[p] # fs[p] => Named(edits[i], p)]_vars
  BY <1>1
<1> QED BY Correct, <1>2, PTL DEF Spec, NoClobber

LEMMA EditAsReviewed ==
  ASSUME NEW e \in Proposals, Honest(e), NEW f \in Trees, e.kind = "edit",
         Apply(e, f).result = "applied"
  PROVE  /\ ReviewedChange(e, f[e.path].data, Apply(e, f).tree[e.path].data)
         /\ Apply(e, f).tree[e.path].ends = LineSep
<1> DEFINE current == f[e.path].data
           replay == ApplyBatch(current, e.batch)
<1>1. /\ e.path \in Paths /\ e.new \in Contents /\ e.original \in Contents
      /\ e.batch \in Seq(Replacements)
  BY DEF Proposals
<1>2. IsFile(f, e.path)
  BY DEF Apply, ApplyEdit, Raised
<1>3. current \in Contents
  BY <1>1, <1>2, NodeKinds DEF IsFile, Trees
<1>4. \A c : LET n == Done([f EXCEPT ![e.path] = Written(c)]).tree[e.path]
            IN  n.data = c /\ n.ends = LineSep
  BY <1>1, NodeKinds DEF Done, Trees
<1>5. CASE current = e.original
  <2>1. Apply(e, f) = Done([f EXCEPT ![e.path] = Written(e.new)])
    BY <1>2, <1>5 DEF Apply, ApplyEdit
  <2>2. Apply(e, f).tree[e.path].data = e.new /\ Apply(e, f).tree[e.path].ends = LineSep
    BY <1>4, <2>1
  <2> QED BY <1>5, <2>2 DEF ReviewedChange
<1>6. CASE current # e.original
  <2>1. /\ e.batch # <<>> /\ ~ChangesOverlap(e.original, current, e.new) /\ replay.ok
        /\ Apply(e, f) = Done([f EXCEPT ![e.path] = Written(replay.data)])
    BY <1>2, <1>6 DEF Apply, ApplyEdit, Refused
  <2> HIDE DEF current, replay
  <2>2. Apply(e, f).tree[e.path].data = replay.data /\ Apply(e, f).tree[e.path].ends = LineSep
    BY <1>4, <2>1
  <2>3. ApplyBatch(e.original, e.batch).ok /\ e.new = ApplyBatch(e.original, e.batch).data
    BY <2>1 DEF Honest
  <2>4. \A r \in Regions : replay.data[r] = IF e.new[r] # e.original[r] THEN e.new[r] ELSE current[r]
    BY <1>1, <1>3, <2>1, <2>3, Replay DEF replay
  <2>5. ReviewedChange(e, current, replay.data)
    BY <2>4 DEF ReviewedChange
  <2> QED BY <2>2, <2>5 DEF current
<1> QED BY <1>5, <1>6

LEMMA TransferAsReviewed ==
  ASSUME NEW e \in Proposals, Honest(e), NEW f \in Trees, IsTree(f), e.kind \in {"move", "copy"},
         Apply(e, f).result = "applied", Fits(f, e.path, e.dest)
  PROVE  /\ e.kind = "move" => ~Exists(Apply(e, f).tree, e.path)
         /\ \A q \in Paths : Under(e.path, q) /\ Exists(f, q) =>
              Apply(e, f).tree[Rebase(q, e.path, e.dest)] = f[q]
<1> DEFINE s == e.path
           d == e.dest
           g == Cleared(e, f)
<1>1. s \in Paths /\ d \in Paths /\ s # d
  BY DEF Proposals, Honest
<1>2. s \in Seq(Components) /\ Len(s) \in Nat \ {0} /\ d \in Seq(Components) /\ Len(d) \in Nat \ {0}
  BY <1>1, PathType
<1>3. ~Unsafe(e, f) /\ ~Blocked(f, d) /\ Apply(e, f) = Place(e, g)
  BY DEF Apply, ApplyTransfer, Refused, Raised
<1>4. Exists(g, s)
  BY <1>3 DEF Place, Raised
<1>5. /\ \A p \in Paths : g[p] = IF Under(d, p) THEN Absent ELSE f[p]
      /\ \A p \in Paths : IsStrictPrefix(p, d) /\ Exists(f, p) => f[p] = Dir
  BY <1>3, TransferTree
<1>6. Exists(f, s) /\ (f[s] = Dir => ~Under(s, d))
  BY <1>3 DEF Unsafe
<1>7. \A p \in Paths :
        Apply(e, f).tree[p] =
           IF Under(d, p)
             THEN IF Rebase(p, d, s) \in Paths THEN g[Rebase(p, d, s)] ELSE Absent
           ELSE IF IsStrictPrefix(p, d) THEN Dir
           ELSE IF e.kind = "move" /\ Under(s, p) THEN Absent
           ELSE g[p]
  BY <1>3, <1>4, PlacedTree
<1> HIDE DEF s, d, g
<1>8. ~Under(d, s)
  BY <1>1, <1>4, <1>5 DEF Exists
<1>9. ~Under(s, d)
  <2>1. Under(s, d) => IsStrictPrefix(s, d)
    BY <1>1, ParentPath
  <2> QED BY <1>1, <1>5, <1>6, <2>1
<1>10. e.kind = "move" => ~Exists(Apply(e, f).tree, s)
  <2>1. ~IsStrictPrefix(s, d) /\ Under(s, s)
    BY <1>1, <1>2, <1>9, ParentPath, UnderOrder
  <2> QED BY <1>1, <1>7, <1>8, <2>1 DEF Exists
<1>11. ASSUME NEW q \in Paths, Under(s, q), Exists(f, q)
       PROVE  Apply(e, f).tree[Rebase(q, s, d)] = f[q]
  <2>1. Rebase(q, s, d) \in Paths
    BY <1>11 DEF Fits, s, d
  <2>2. q \in Seq(Components) /\ Len(q) > 0
    BY PathType
  <2>3. Under(d, Rebase(q, s, d)) /\ Rebase(Rebase(q, s, d), d, s) = q
    BY <1>2, <1>11, <2>2, RebaseBelow
  <2>4. Apply(e, f).tree[Rebase(q, s, d)] = g[q]
    BY <1>7, <2>1, <2>3
  <2>5. ~Under(d, q)
    BY <1>2, <1>8, <1>9, <1>11, <2>2, UnderOrder
  <2> QED BY <1>5, <2>4, <2>5
<1> QED BY <1>10, <1>11 DEF s, d

(* "Applied" means that the tree shows the reviewed operation; an edit of  *)
(* a file that others changed meanwhile makes the reviewed changes of its  *)
(* text and no other ones, however often its texts moved, and ends every   *)
(* line of it as the platform does (EditStore.approve, _apply_exact_edit,  *)
(* _changes_overlap).                                                      *)
THEOREM ReviewedIsApplied == Spec => AppliedAsReviewed
<1> DEFINE Shown(e, f, h) ==
        /\ e.kind = "edit" => /\ ReviewedChange(e, f[e.path].data, h[e.path].data)
                              /\ h[e.path].ends = LineSep
        /\ e.kind = "create" => h[e.path] = Written(e.new)
        /\ e.kind = "delete" => ~Exists(h, e.path)
        /\ e.kind = "move" => ~Exists(h, e.path)
        /\ e.kind \in {"move", "copy"} =>
             \A q \in Paths : Under(e.path, q) /\ Exists(f, q) => h[Rebase(q, e.path, e.dest)] = f[q]
<1>1. ASSUME IInv, Next, NEW i \in DOMAIN edits, Approved(i)
      PROVE  Shown(edits[i], fs, fs')
  <2> DEFINE e == edits[i]
  <2>1. e \in Proposals /\ Honest(e) /\ (Approve(i) \/ ApproveFails(i)) /\ last'.result = "applied"
    BY <1>1, WhoseCall DEF Approved
  <2>2. Approve(i)
    BY <2>1 DEF ApproveFails
  <2>3. /\ fs' = Apply(e, fs).tree /\ Apply(e, fs).result = "applied"
        /\ e.kind \in {"move", "copy"} => Fits(fs, e.path, e.dest)
    BY <2>1, <2>2 DEF Approve
  <2>4. fs \in Trees /\ IsTree(fs)
    BY <1>1 DEF IInv
  <2> HIDE DEF e
  <2>5. e.kind = "edit" => /\ ReviewedChange(e, fs[e.path].data, fs'[e.path].data)
                            /\ fs'[e.path].ends = LineSep
    BY <2>1, <2>3, <2>4, EditAsReviewed
  <2>6. e.kind = "create" => fs'[e.path] = Written(e.new)
    <3> SUFFICES ASSUME e.kind = "create" PROVE fs'[e.path] = Written(e.new)
      OBVIOUS
    <3>1. Apply(e, fs) = Done([WithParents(fs, e.path) EXCEPT ![e.path] = Written(e.new)])
      BY <2>3 DEF Apply, ApplyCreate, Refused, Raised
    <3> QED BY <2>1, <2>3, <3>1 DEF Done, WithParents, Proposals
  <2>7. e.kind = "delete" => ~Exists(fs', e.path)
    <3> SUFFICES ASSUME e.kind = "delete" PROVE ~Exists(fs', e.path)
      OBVIOUS
    <3>1. e.path \in Paths /\ Under(e.path, e.path)
      BY <2>1, PathType, UnderOrder DEF Proposals
    <3>2. (~Exists(fs, e.path) /\ fs' = fs) \/ fs' = Removed(fs, e.path)
      BY <2>3 DEF Apply, ApplyDelete, Refused, Done
    <3> QED BY <3>1, <3>2 DEF Removed, Exists
  <2>8. /\ e.kind = "move" => ~Exists(fs', e.path)
        /\ e.kind \in {"move", "copy"} =>
             \A q \in Paths : Under(e.path, q) /\ Exists(fs, q) => fs'[Rebase(q, e.path, e.dest)] = fs[q]
    BY <2>1, <2>3, <2>4, TransferAsReviewed
  <2> QED BY <2>5, <2>6, <2>7, <2>8 DEF e
<1>2. IInv /\ [Next]_vars => [\A i \in DOMAIN edits : Approved(i) => Shown(edits[i], fs, fs')]_vars
  <2> HIDE DEF Shown
  <2> QED BY <1>1
<1>3. AppliedAsReviewed <=> [][\A i \in DOMAIN edits : Approved(i) => Shown(edits[i], fs, fs')]_vars
  BY DEF AppliedAsReviewed
<1> QED BY Correct, <1>2, <1>3, PTL DEF Spec
=============================================================================
