-------------------------- MODULE MerkleSync_proofs --------------------------
(***************************************************************************)
(* The Merkle trees follow the metadata, for every set of paths of any     *)
(* depth, every number of devices and edits, and whatever the devices do.  *)
(***************************************************************************)
EXTENDS MerkleSync, FileSync_proofs, WellFoundedInduction

-----------------------------------------------------------------------------
(* Paths *)

(* The paths that nodes can have.                                          *)
Node == {<<>>} \cup UNION {Prefixes(p) : p \in Path}

LEMMA PrefixIs ==
  ASSUME NEW p \in Seq(Name), NEW q \in Prefixes(p)
  PROVE  /\ q \in Seq(Name)
         /\ Len(q) \in 0..Len(p)
         /\ q = SubSeq(p, 1, Len(q))
         /\ \A i \in 1..Len(q) : q[i] = p[i]
<1>1. PICK l \in 0..Len(p) : q = SubSeq(p, 1, l)
  BY DEF Prefixes
<1>2. Len(p) \in Nat /\ l \in Nat /\ l <= Len(p)
  BY <1>1
<1>3. \A i \in 1..l : p[i] \in Name
  BY <1>2
<1>4. /\ SubSeq(p, 1, l) \in Seq(Name)
      /\ Len(SubSeq(p, 1, l)) = IF 1 <= l THEN l - 1 + 1 ELSE 0
      /\ \A i \in 1..(l - 1 + 1) : SubSeq(p, 1, l)[i] = p[1 + i - 1]
  BY <1>2, <1>3, SubSeqProperties
<1>5. Len(q) = l
  BY <1>1, <1>2, <1>4
<1>6. \A i \in 1..l : q[i] = p[i]
  <2>. SUFFICES ASSUME NEW i \in 1..l PROVE q[i] = p[i]
    OBVIOUS
  <2>1. 1 + i - 1 = i /\ l - 1 + 1 = l
    BY <1>2
  <2>. QED
    BY <1>1, <1>4, <2>1
<1>. QED
  BY <1>1, <1>4, <1>5, <1>6

(* A sequence is a prefix of another if it is its beginning.               *)
LEMMA BeginningIsPrefix ==
  ASSUME NEW p \in Seq(Name), NEW q \in Seq(Name), Len(q) <= Len(p),
         \A i \in 1..Len(q) : q[i] = p[i]
  PROVE  q \in Prefixes(p)
<1>. DEFINE s == SubSeq(p, 1, Len(q))
<1>1. Len(p) \in Nat /\ Len(q) \in Nat /\ Len(q) \in 0..Len(p)
  OBVIOUS
<1>2. s \in Prefixes(p)
  BY <1>1 DEF Prefixes
<1>3. /\ s \in Seq(Name) /\ Len(s) = Len(q)
      /\ \A i \in 1..Len(q) : s[i] = p[i]
  <2>1. \A i \in 1..Len(q) : p[i] \in Name
    BY <1>1
  <2>2. /\ s \in Seq(Name)
        /\ Len(s) = IF 1 <= Len(q) THEN Len(q) - 1 + 1 ELSE 0
        /\ \A i \in 1..(Len(q) - 1 + 1) : s[i] = p[1 + i - 1]
    BY <1>1, <2>1, SubSeqProperties
  <2>3. Len(s) = Len(q)
    BY <1>1, <2>2
  <2>4. ASSUME NEW i \in 1..Len(q) PROVE s[i] = p[i]
    <3>1. 1 + i - 1 = i /\ i \in 1..(Len(q) - 1 + 1)
      BY <1>1
    <3>. QED
      BY <2>2, <3>1
  <2>. QED
    BY <2>2, <2>3, <2>4
<1>. HIDE DEF s
<1>4. s = q
  <2>1. \A i \in 1..Len(s) : s[i] = q[i]
    BY <1>3
  <2>. QED
    BY <1>3, <2>1, SeqEqual
<1>. QED
  BY <1>2, <1>4

LEMMA PrefixOrder ==
  ASSUME NEW p \in Seq(Name)
  PROVE  /\ p \in Prefixes(p) /\ <<>> \in Prefixes(p)
         /\ \A q \in Prefixes(p) : Prefixes(q) \subseteq Prefixes(p)
         /\ \A q \in Prefixes(p) : Len(q) = Len(p) => q = p
         /\ \A q, r \in Prefixes(p) : Len(q) <= Len(r) => q \in Prefixes(r)
<1>1. p \in Prefixes(p)
  BY BeginningIsPrefix
<1>2. <<>> \in Prefixes(p)
  <2>. DEFINE e == <<>>
  <2>1. e \in Seq(Name) /\ Len(e) = 0 /\ Len(p) \in Nat
    OBVIOUS
  <2>. HIDE DEF e
  <2>2. Len(e) <= Len(p) /\ \A i \in 1..Len(e) : e[i] = p[i]
    BY <2>1
  <2>3. e \in Prefixes(p)
    BY <2>1, <2>2, BeginningIsPrefix
  <2>. QED
    BY <2>3 DEF e
<1>3. ASSUME NEW q \in Prefixes(p), NEW r \in Prefixes(q)
      PROVE  r \in Prefixes(p)
  <2>1. /\ q \in Seq(Name) /\ Len(q) \in 0..Len(p)
        /\ \A i \in 1..Len(q) : q[i] = p[i]
    BY PrefixIs
  <2>2. /\ r \in Seq(Name) /\ Len(r) \in 0..Len(q)
        /\ \A i \in 1..Len(r) : r[i] = q[i]
    BY <2>1, PrefixIs
  <2>3. Len(p) \in Nat
    OBVIOUS
  <2>4. Len(r) <= Len(p) /\ \A i \in 1..Len(r) : i \in 1..Len(q)
    BY <2>1, <2>2, <2>3
  <2>. QED
    BY <2>1, <2>2, <2>4, BeginningIsPrefix
<1>4. ASSUME NEW q \in Prefixes(p), Len(q) = Len(p)
      PROVE  q = p
  BY <1>4, PrefixIs, SubSeqFull
<1>5. ASSUME NEW q \in Prefixes(p), NEW r \in Prefixes(p), Len(q) <= Len(r)
      PROVE  q \in Prefixes(r)
  <2>1. /\ q \in Seq(Name) /\ Len(q) \in 0..Len(p)
        /\ \A i \in 1..Len(q) : q[i] = p[i]
    BY PrefixIs
  <2>2. /\ r \in Seq(Name) /\ Len(r) \in 0..Len(p)
        /\ \A i \in 1..Len(r) : r[i] = p[i]
    BY PrefixIs
  <2>3. \A i \in 1..Len(q) : i \in 1..Len(r)
    BY <1>5, <2>1, <2>2
  <2>. QED
    BY <1>5, <2>1, <2>2, <2>3, BeginningIsPrefix
<1>. QED
  BY <1>1, <1>2, <1>3, <1>4, <1>5

LEMMA PrefixTests ==
  ASSUME NEW p \in Seq(Name), NEW q \in Seq(Name)
  PROVE  IsPrefix(q, p) <=> q \in Prefixes(p)
<1>1. SubSeq(q, 1, Len(q)) = q /\ Len(q) \in Nat
  BY SubSeqFull
<1>2. ASSUME IsPrefix(q, p)
      PROVE  q \in Prefixes(p)
  <2>1. Len(q) <= Len(p) /\ SubSeq(q, 1, Len(q)) = SubSeq(p, 1, Len(q))
    BY <1>2 DEF IsPrefix
  <2>2. Len(q) \in 0..Len(p) /\ q = SubSeq(p, 1, Len(q))
    BY <1>1, <2>1
  <2>. QED
    BY <2>2 DEF Prefixes
<1>3. ASSUME q \in Prefixes(p)
      PROVE  IsPrefix(q, p)
  <2>1. Len(q) \in 0..Len(p) /\ q = SubSeq(p, 1, Len(q))
    BY <1>3, PrefixIs
  <2>2. Len(q) <= Len(p) /\ SubSeq(q, 1, Len(q)) = SubSeq(p, 1, Len(q))
    BY <1>1, <2>1
  <2>. QED
    BY <2>2 DEF IsPrefix
<1>. QED
  BY <1>2, <1>3

(* What is above a path.                                                   *)
LEMMA ParentIs ==
  ASSUME NEW q \in Seq(Name), q # <<>>
  PROVE  /\ Parent(q) \in Seq(Name) /\ Len(Parent(q)) = Len(q) - 1 /\ Parent(q) # q
         /\ Prefixes(q) = Prefixes(Parent(q)) \cup {q}
         /\ q \notin Prefixes(Parent(q))
<1>. DEFINE r == Parent(q)
<1>1. Len(q) \in Nat /\ Len(q) # 0
  OBVIOUS
<1>2. r = SubSeq(q, 1, Len(q) - 1) /\ Len(q) - 1 \in 0..Len(q)
  BY <1>1 DEF Parent, Front
<1>3. r \in Prefixes(q)
  BY <1>2 DEF Prefixes
<1>4. r \in Seq(Name) /\ Len(r) \in Nat
  BY <1>3, PrefixIs
<1>5. Len(r) = Len(q) - 1
  <2>1. \A i \in 1..(Len(q) - 1) : q[i] \in Name
    BY <1>1
  <2>2. Len(SubSeq(q, 1, Len(q) - 1)) = IF 1 <= Len(q) - 1 THEN Len(q) - 1 - 1 + 1 ELSE 0
    BY <1>1, <2>1, SubSeqProperties
  <2>3. \A n \in Nat \ {0} : (IF 1 <= n - 1 THEN n - 1 - 1 + 1 ELSE 0) = n - 1
    OBVIOUS
  <2>4. r = SubSeq(q, 1, Len(q) - 1)
    BY <1>2
  <2>. HIDE DEF r
  <2>. QED
    BY <1>1, <2>2, <2>3, <2>4
<1>. HIDE DEF r
<1>6. r # q
  BY <1>1, <1>5
<1>7. Prefixes(r) \cup {q} \subseteq Prefixes(q)
  BY <1>3, PrefixOrder
<1>8. ASSUME NEW s \in Prefixes(q), s # q
      PROVE  s \in Prefixes(r)
  <2>1. Len(s) \in 0..Len(q) /\ Len(s) # Len(q)
    BY <1>8, PrefixIs, PrefixOrder
  <2>2. Len(s) <= Len(r)
    BY <1>1, <1>5, <2>1
  <2>. QED
    BY <1>3, <2>2, PrefixOrder
<1>9. q \notin Prefixes(r)
  <2>. SUFFICES ASSUME q \in Prefixes(r) PROVE FALSE
    OBVIOUS
  <2>1. Len(q) \in 0..Len(r)
    BY <1>4, PrefixIs
  <2>. QED
    BY <1>1, <1>5, <2>1
<1>10. Prefixes(q) = Prefixes(r) \cup {q}
  BY <1>7, <1>8
<1>. QED
  BY <1>4, <1>5, <1>6, <1>9, <1>10 DEF r

(* The paths of files are the leaves.                                      *)
LEMMA Nodes ==
  /\ Node \subseteq Seq(Name)
  /\ Path \subseteq Node \ {<<>>}
  /\ \A r \in Node : Prefixes(r) \subseteq Node
  /\ \A r \in Node, q \in Path : q \in Prefixes(r) => r = q
<1>1. \A p \in Path : p \in Seq(Name) /\ p # <<>> /\ p \in Prefixes(p)
  BY PathsAssumption, PrefixOrder
<1>2. <<>> \in Seq(Name) /\ Prefixes(<<>>) = {<<>>}
  <2>. DEFINE e == <<>>
  <2>1. e \in Seq(Name) /\ Len(e) = 0
    OBVIOUS
  <2>. HIDE DEF e
  <2>2. e \in Prefixes(e)
    BY <2>1, PrefixOrder
  <2>3. ASSUME NEW q \in Prefixes(e) PROVE q = e
    <3>1. Len(q) \in 0..0
      BY <2>1, PrefixIs
    <3>2. Len(q) = Len(e)
      BY <2>1, <3>1
    <3>. QED
      BY <2>1, <3>2, PrefixOrder
  <2>4. e \in Seq(Name) /\ Prefixes(e) = {e}
    BY <2>1, <2>2, <2>3
  <2>. QED
    BY <2>4 DEF e
<1>3. Node \subseteq Seq(Name)
  BY <1>1, <1>2, PrefixIs DEF Node
<1>4. Path \subseteq Node \ {<<>>}
  BY <1>1 DEF Node
<1>5. ASSUME NEW r \in Node
      PROVE  Prefixes(r) \subseteq Node
  <2>1. CASE r = <<>>
    BY <1>2, <2>1 DEF Node
  <2>2. CASE r # <<>>
    <3>1. PICK p \in Path : r \in Prefixes(p)
      BY <2>2 DEF Node
    <3>2. Prefixes(r) \subseteq Prefixes(p)
      BY <1>1, <3>1, PrefixOrder
    <3>. QED
      BY <3>2 DEF Node
  <2>. QED
    BY <2>1, <2>2
<1>6. ASSUME NEW r \in Node, NEW q \in Path, q \in Prefixes(r)
      PROVE  r = q
  <2>1. r # <<>>
    BY <1>1, <1>2, <1>6
  <2>2. PICK p \in Path : r \in Prefixes(p)
    BY <2>1 DEF Node
  <2>3. q \in Prefixes(p)
    BY <1>1, <1>6, <2>2, PrefixOrder
  <2>4. IsPrefix(q, p)
    BY <1>1, <2>3, PrefixTests
  <2>5. q = p
    BY <2>4, PathsAssumption
  <2>6. Len(q) \in 0..Len(r) /\ Len(r) \in 0..Len(p) /\ Len(p) \in Nat
    <3>1. r \in Seq(Name) /\ p \in Seq(Name)
      BY <1>1, <1>3
    <3>. QED
      BY <1>6, <2>2, <3>1, PrefixIs
  <2>7. Len(r) = Len(p)
    BY <2>5, <2>6
  <2>. QED
    BY <1>1, <2>2, <2>5, <2>7, PrefixOrder
<1>. QED
  BY <1>3, <1>4, <1>5, <1>6

(* A set of numbers that has 0 and with each number the next has them all. *)
LEMMA CountingUp ==
  ASSUME NEW T, 0 \in T, \A n \in Nat : n \in T => n + 1 \in T
  PROVE  Nat \subseteq T
<1>. SUFFICES ASSUME NEW x \in Nat, x \notin T PROVE FALSE
  OBVIOUS
<1>. DEFINE Out == {1..n : n \in Nat \ T}
            R   == StrictSubsetOrdering(Nat)
<1>1. IsWellFoundedOn(R, FiniteSubsetsOf(Nat))
  BY FS_StrictSubsetOrderingWellFounded
<1>2. Out \subseteq FiniteSubsetsOf(Nat) /\ Out # {}
  <2>1. \A n \in Nat : IsFiniteSet(1..n)
    BY FS_Interval
  <2>. QED
    BY <2>1 DEF FiniteSubsetsOf
<1>3. PICK s \in Out : \A y \in Out : ~(<<y, s>> \in R)
  <2>. HIDE DEF R, Out
  <2>. QED
    BY <1>1, <1>2, WFMin, Zenon
<1>4. PICK n \in Nat \ T : s = 1..n
  BY <1>3
<1>5. n # 0 /\ n - 1 \in Nat /\ (n - 1) + 1 = n
  BY <1>4
<1>6. n - 1 \notin T
  BY <1>4, <1>5
<1>7. 1..(n - 1) \in Out
  BY <1>5, <1>6
<1>8. 1..(n - 1) \subseteq 1..n /\ n \in 1..n /\ n \notin 1..(n - 1)
  BY <1>5
<1>9. <<1..(n - 1), s>> \in R
  BY <1>4, <1>8 DEF StrictSubsetOrdering
<1>. QED
  BY <1>3, <1>7, <1>9

(* No tree is infinitely deep.                                             *)
LEMMA DepthBounded == \E m \in Nat : \A r \in Node : Len(r) < m
<1>. DEFINE Below(S) == \E m \in Nat : \A p \in S : Len(p) < m
            Bad == {S \in SUBSET Path : ~Below(S)}
            R   == StrictSubsetOrdering(Path)
<1>1. IsWellFoundedOn(R, FiniteSubsetsOf(Path))
  BY FS_StrictSubsetOrderingWellFounded
<1>2. Bad = {}
  <2>. SUFFICES ASSUME Bad # {} PROVE FALSE
    OBVIOUS
  <2>1. \A S \in SUBSET Path : IsFiniteSet(S)
    BY PathAssumption, FS_Subset
  <2>2. Bad \subseteq FiniteSubsetsOf(Path)
    BY <2>1 DEF FiniteSubsetsOf
  <2>3. PICK S \in Bad : \A y \in Bad : ~(<<y, S>> \in R)
    <3>. HIDE DEF R, Bad
    <3>. QED
      BY <1>1, <2>2, WFMin, Zenon
  <2>4. S # {}
    <3>. SUFFICES ASSUME S = {} PROVE FALSE
      OBVIOUS
    <3>1. 0 \in Nat /\ \A p \in S : Len(p) < 0
      OBVIOUS
    <3>. QED
      BY <2>3, <3>1
  <2>5. PICK x \in S : TRUE
    BY <2>4
  <2>6. <<S \ {x}, S>> \in R /\ S \ {x} \in SUBSET Path
    BY <2>3, <2>5 DEF StrictSubsetOrdering
  <2>7. PICK m \in Nat : \A p \in S \ {x} : Len(p) < m
    BY <2>3, <2>6
  <2>8. Len(x) \in Nat /\ \A p \in S : Len(p) \in Nat
    <3>1. S \subseteq Path /\ Path \subseteq Seq(Name)
      BY <2>3, Nodes
    <3>2. \A p \in Seq(Name) : Len(p) \in Nat
      OBVIOUS
    <3>. QED
      BY <2>5, <3>1, <3>2
  <2>. DEFINE n == m + Len(x) + 1
  <2>9. n \in Nat /\ \A p \in S : Len(p) < n
    <3>1. n \in Nat
      BY <2>8
    <3>2. ASSUME NEW p \in S PROVE Len(p) < n
      <4>1. CASE p = x
        BY <2>8, <4>1
      <4>2. CASE p # x
        BY <2>7, <2>8, <4>2
      <4>. QED
        BY <4>1, <4>2
    <3>. QED
      BY <3>1, <3>2
  <2>. HIDE DEF n
  <2>10. Below(S)
    BY <2>9
  <2>. QED
    BY <2>3, <2>10
<1>3. PICK m \in Nat : \A p \in Path : Len(p) < m
  BY <1>2
<1>4. ASSUME NEW r \in Node
      PROVE  Len(r) < m + 1
  <2>1. CASE r = <<>>
    BY <1>3, <2>1
  <2>2. CASE r # <<>>
    <3>1. PICK p \in Path : r \in Prefixes(p)
      BY <2>2 DEF Node
    <3>2. Len(r) \in 0..Len(p) /\ Len(p) \in Nat
      <4>1. p \in Seq(Name)
        BY Nodes
      <4>. QED
        BY <3>1, <4>1, PrefixIs
    <3>. QED
      BY <1>3, <3>2
  <2>. QED
    BY <2>1, <2>2
<1>. QED
  BY <1>3, <1>4

-----------------------------------------------------------------------------
(* Trees *)

IsNode(x) ==
  x = [kind |-> x.kind, mtime |-> x.mtime, deletedAt |-> x.deletedAt,
       hash |-> x.hash, children |-> x.children]

(* A node is a file where a path of a file ends, only files have been      *)
(* deleted, and a child is one name longer.                                *)
NodeOK(t, q) ==
  /\ IsNode(t[q]) /\ t[q].kind \in {"File", "Directory"}
  /\ t[q].kind = "File" <=> q \in Path
  /\ IsDeleted(t[q]) => q \in Path
  /\ t[q].children \in Seq(DOMAIN t)
  /\ \A i \in 1..Len(t[q].children) :
       t[q].children[i] # <<>> /\ Parent(t[q].children[i]) = q

Shape(t) ==
  /\ DOMAIN t \subseteq Node /\ <<>> \in DOMAIN t
  /\ \A q \in DOMAIN t : Prefixes(q) \subseteq DOMAIN t /\ NodeOK(t, q)

(* The hash of one node is that of what is below it.                       *)
HashOK(t, q) ==
  IF IsDeleted(t[q]) THEN t[q].hash = TombstoneHash(q)
  ELSE IsDirectory(t[q]) => t[q].hash = HashChildren(t, q)

Good(t) == Shape(t) /\ Verified(t)

LEMMA HashesOK == \A t : Verified(t) <=> \A q \in DOMAIN t : HashOK(t, q)
BY DEF Verified, HashOK

(* What is above a node is its parent and what is above that.              *)
LEMMA Above ==
  ASSUME NEW q \in Node, q # <<>>
  PROVE  /\ Parent(q) \in Node /\ Parent(q) # q /\ Len(Parent(q)) = Len(q) - 1
         /\ Parent(q) \in Prefixes(q) \ {q}
         /\ Prefixes(q) \ {q} = Prefixes(Parent(q))
<1>1. q \in Seq(Name)
  BY Nodes
<1>2. /\ Parent(q) \in Seq(Name) /\ Len(Parent(q)) = Len(q) - 1 /\ Parent(q) # q
      /\ Prefixes(q) = Prefixes(Parent(q)) \cup {q}
      /\ q \notin Prefixes(Parent(q))
  BY <1>1, ParentIs
<1>3. Parent(q) \in Prefixes(Parent(q))
  BY <1>2, PrefixOrder
<1>4. Parent(q) \in Node
  BY <1>2, <1>3, Nodes
<1>. QED
  BY <1>2, <1>3, <1>4

-----------------------------------------------------------------------------
(* The recursion of the hashes *)

HashOf(t, dirs, gone, f, q) ==
  IF q \in dirs
  THEN DirectoryHash([i \in DOMAIN t[q].children |-> f[t[q].children[i]]])
  ELSE IF q \in gone THEN TombstoneHash(q) ELSE t[q].hash

Hashes(t, dirs, gone) ==
  CHOOSE f : f = [q \in DOMAIN t |-> HashOf(t, dirs, gone, f, q)]

LEMMA RehashedAll ==
  \A t, dirs, gone :
    Rehashed(t, dirs, gone)
      = [q \in DOMAIN t |-> [t[q] EXCEPT !.hash = Hashes(t, dirs, gone)[q]]]
BY DEF Rehashed, Hashes, HashOf

(* The recursion defines a function: children are deeper.                  *)
LEMMA HashesAre ==
  ASSUME NEW t, Shape(t), NEW dirs, NEW gone, NEW q \in DOMAIN t
  PROVE  Hashes(t, dirs, gone)[q] = HashOf(t, dirs, gone, Hashes(t, dirs, gone), q)
<1>1. PICK m \in Nat : \A r \in Node : Len(r) < m
  BY DepthBounded
<1>. DEFINE Deep(n) == {r \in DOMAIN t : m - n <= Len(r)}
            Defines(f, n) == f = [r \in Deep(n) |-> HashOf(t, dirs, gone, f, r)]
            T == {n \in Nat : \E f : Defines(f, n)}
<1>2. \A r \in DOMAIN t : Len(r) \in Nat /\ Len(r) < m
  <2>1. DOMAIN t \subseteq Node /\ Node \subseteq Seq(Name)
    BY Nodes DEF Shape
  <2>2. \A r \in Seq(Name) : Len(r) \in Nat
    OBVIOUS
  <2>. QED
    BY <1>1, <2>1, <2>2
<1>3. 0 \in T
  <2>1. Deep(0) = {}
    BY <1>1, <1>2
  <2>. DEFINE f == [r \in {} |-> r]
  <2>2. f = [r \in {} |-> HashOf(t, dirs, gone, f, r)]
    OBVIOUS
  <2>3. Defines(f, 0)
    <3>. HIDE DEF f
    <3>. QED
      BY <2>1, <2>2
  <2>4. \E g : Defines(g, 0)
    BY <2>3
  <2>. HIDE DEF Defines
  <2>. QED
    BY <2>4
<1>4. ASSUME NEW n \in Nat, n \in T
      PROVE  n + 1 \in T
  <2>1. PICK f : Defines(f, n)
    BY <1>4
  <2>. DEFINE g == [r \in Deep(n + 1) |-> HashOf(t, dirs, gone, f, r)]
  <2>2. Deep(n) \subseteq Deep(n + 1)
    BY <1>1, <1>2
  <2>3. \A r \in Deep(n) : f[r] = g[r]
    <3>1. \A r \in Deep(n) : f[r] = HashOf(t, dirs, gone, f, r)
      BY <2>1
    <3>2. \A r \in Deep(n + 1) : g[r] = HashOf(t, dirs, gone, f, r)
      OBVIOUS
    <3>. HIDE DEF g, Deep
    <3>. QED
      BY <2>2, <3>1, <3>2
  <2>4. ASSUME NEW r \in Deep(n + 1)
        PROVE  HashOf(t, dirs, gone, f, r) = HashOf(t, dirs, gone, g, r)
    <3>. DEFINE cs == t[r].children
    <3>1. /\ r \in DOMAIN t /\ m - (n + 1) <= Len(r) /\ cs \in Seq(DOMAIN t)
          /\ \A i \in 1..Len(cs) : cs[i] # <<>> /\ Parent(cs[i]) = r
      BY DEF Shape, NodeOK
    <3>2. ASSUME NEW i \in DOMAIN cs
          PROVE  f[cs[i]] = g[cs[i]]
      <4>1. cs[i] \in DOMAIN t /\ cs[i] # <<>> /\ Parent(cs[i]) = r
        <5>. HIDE DEF cs
        <5>. QED
          BY <3>1
      <4>2. cs[i] \in Node
        BY <4>1 DEF Shape
      <4>3. Len(r) = Len(cs[i]) - 1
        BY <4>1, <4>2, Above
      <4>4. Len(cs[i]) \in Nat /\ Len(r) \in Nat
        BY <1>2, <3>1, <4>1
      <4>5. m - n <= Len(cs[i])
        <5>. HIDE DEF cs
        <5>. QED
          BY <1>1, <3>1, <4>3, <4>4
      <4>6. cs[i] \in Deep(n)
        BY <4>1, <4>5
      <4>. HIDE DEF cs, g, Deep
      <4>. QED
        BY <2>3, <4>6
    <3>3. [i \in DOMAIN cs |-> f[cs[i]]] = [i \in DOMAIN cs |-> g[cs[i]]]
      <4>. HIDE DEF cs, g, Deep
      <4>. QED
        BY <3>2
    <3>. HIDE DEF g, Deep
    <3>. QED
      BY <3>3 DEF HashOf
  <2>5. g = [r \in Deep(n + 1) |-> HashOf(t, dirs, gone, g, r)]
    <3>1. [r \in Deep(n + 1) |-> HashOf(t, dirs, gone, f, r)]
            = [r \in Deep(n + 1) |-> HashOf(t, dirs, gone, g, r)]
      <4>. HIDE DEF g, Deep
      <4>. QED
        BY <2>4
    <3>2. g = [r \in Deep(n + 1) |-> HashOf(t, dirs, gone, f, r)]
      OBVIOUS
    <3>. HIDE DEF g, Deep
    <3>. QED
      BY <3>1, <3>2
  <2>6. Defines(g, n + 1)
    <3>. HIDE DEF g, Deep
    <3>. QED
      BY <2>5
  <2>7. \E h : Defines(h, n + 1)
    <3>. HIDE DEF g, Defines
    <3>. QED
      BY <2>6
  <2>. HIDE DEF Defines
  <2>. QED
    BY <2>7
<1>5. Nat \subseteq T
  <2>. HIDE DEF T
  <2>. QED
    BY <1>3, <1>4, CountingUp
<1>6. Deep(m) = DOMAIN t
  <2>1. m - m = 0
    BY <1>1
  <2>2. \A r \in DOMAIN t : m - m <= Len(r)
    BY <1>2, <2>1
  <2>. QED
    BY <2>2
<1>7. \E f : f = [r \in DOMAIN t |-> HashOf(t, dirs, gone, f, r)]
  <2>1. PICK f : Defines(f, m)
    BY <1>1, <1>5
  <2>2. f = [r \in DOMAIN t |-> HashOf(t, dirs, gone, f, r)]
    <3>. HIDE DEF Deep
    <3>. QED
      BY <1>6, <2>1
  <2>. QED
    BY <2>2
<1>. DEFINE h == Hashes(t, dirs, gone)
<1>8. h = [r \in DOMAIN t |-> HashOf(t, dirs, gone, h, r)]
  BY <1>7 DEF Hashes
<1>. HIDE DEF h
<1>9. h[q] = HashOf(t, dirs, gone, h, q)
  BY <1>8
<1>. QED
  BY <1>9 DEF h

(* A node is remade with another hash.                                     *)
LEMMA NewHash ==
  ASSUME NEW x, IsNode(x), NEW h
  PROVE  /\ IsNode([x EXCEPT !.hash = h])
         /\ [x EXCEPT !.hash = h].hash = h
         /\ [x EXCEPT !.hash = h].kind = x.kind
         /\ [x EXCEPT !.hash = h].mtime = x.mtime
         /\ [x EXCEPT !.hash = h].deletedAt = x.deletedAt
         /\ [x EXCEPT !.hash = h].children = x.children
<1>. DEFINE y == [kind |-> x.kind, mtime |-> x.mtime, deletedAt |-> x.deletedAt,
                  hash |-> h, children |-> x.children]
<1>1. [x EXCEPT !.hash = h] = y
  BY DEF IsNode
<1>2. /\ y.hash = h /\ y.kind = x.kind /\ y.mtime = x.mtime
      /\ y.deletedAt = x.deletedAt /\ y.children = x.children
  OBVIOUS
<1>3. IsNode(y)
  BY DEF IsNode
<1>. HIDE DEF y
<1>. QED
  BY <1>1, <1>2, <1>3

(* Two trees that differ in times, hashes and the signs of deletion only.  *)
SameShape(u, t) ==
  /\ DOMAIN u = DOMAIN t
  /\ \A q \in DOMAIN t : /\ IsNode(u[q]) /\ u[q].kind = t[q].kind
                         /\ u[q].children = t[q].children
                         /\ IsDeleted(u[q]) => q \in Path

LEMMA ShapeKept ==
  ASSUME NEW t, Shape(t), NEW u, SameShape(u, t)
  PROVE  Shape(u)
<1>1. ASSUME NEW q \in DOMAIN t
      PROVE  NodeOK(u, q)
  <2>1. NodeOK(t, q)
    BY DEF Shape
  <2>. QED
    BY <2>1 DEF NodeOK, SameShape
<1>. QED
  BY <1>1 DEF Shape, SameShape

LEMMA RehashedIs ==
  ASSUME NEW t, Shape(t), NEW dirs, NEW gone, NEW u, u = Rehashed(t, dirs, gone)
  PROVE  /\ SameShape(u, t)
         /\ \A q \in DOMAIN t :
              /\ u[q].mtime = t[q].mtime /\ u[q].deletedAt = t[q].deletedAt
              /\ q \in dirs => u[q].hash = HashChildren(u, q)
              /\ q \notin dirs /\ q \in gone => u[q].hash = TombstoneHash(q)
              /\ q \notin dirs /\ q \notin gone => u[q].hash = t[q].hash
<1>. DEFINE h == Hashes(t, dirs, gone)
<1>1. u = [q \in DOMAIN t |-> [t[q] EXCEPT !.hash = h[q]]]
  BY RehashedAll
<1>2. \A q \in DOMAIN t : h[q] = HashOf(t, dirs, gone, h, q)
  BY HashesAre
<1>. HIDE DEF h
<1>3. ASSUME NEW q \in DOMAIN t
      PROVE  /\ IsNode(u[q]) /\ u[q].hash = h[q] /\ u[q].kind = t[q].kind
             /\ u[q].mtime = t[q].mtime /\ u[q].deletedAt = t[q].deletedAt
             /\ u[q].children = t[q].children
  <2>1. IsNode(t[q])
    BY DEF Shape, NodeOK
  <2>2. u[q] = [t[q] EXCEPT !.hash = h[q]]
    BY <1>1
  <2>. QED
    BY <2>1, <2>2, NewHash
<1>4. DOMAIN u = DOMAIN t
  BY <1>1
<1>5. ASSUME NEW q \in DOMAIN t, IsDeleted(u[q]) PROVE q \in Path
  <2>1. IsDeleted(t[q])
    BY <1>3, <1>5 DEF IsDeleted
  <2>. QED
    BY <2>1 DEF Shape, NodeOK
<1>6. SameShape(u, t)
  BY <1>3, <1>4, <1>5 DEF SameShape
<1>7. ASSUME NEW q \in DOMAIN t, q \in dirs
      PROVE  u[q].hash = HashChildren(u, q)
  <2>. DEFINE cs == t[q].children
  <2>1. cs \in Seq(DOMAIN t)
    BY DEF Shape, NodeOK
  <2>2. u[q].children = cs
    BY <1>3
  <2>. HIDE DEF cs
  <2>3. \A i \in DOMAIN cs : cs[i] \in DOMAIN t
    BY <2>1
  <2>4. \A i \in DOMAIN cs : h[cs[i]] = u[cs[i]].hash
    BY <1>3, <2>3
  <2>5. [i \in DOMAIN cs |-> h[cs[i]]] = [i \in DOMAIN cs |-> u[cs[i]].hash]
    BY <2>4
  <2>6. u[q].hash = DirectoryHash([i \in DOMAIN cs |-> h[cs[i]]])
    BY <1>2, <1>3, <1>7 DEF HashOf, cs
  <2>. QED
    BY <2>2, <2>5, <2>6 DEF HashChildren
<1>8. ASSUME NEW q \in DOMAIN t, q \notin dirs
      PROVE  /\ q \in gone => u[q].hash = TombstoneHash(q)
             /\ q \notin gone => u[q].hash = t[q].hash
  BY <1>2, <1>3, <1>8 DEF HashOf
<1>. QED
  BY <1>3, <1>6, <1>7, <1>8

(* When the hashes of dirs and gone are made anew, and of what is above    *)
(* them, but for the nodes except: only except may have wrong hashes then. *)
LEMMA RehashedRight ==
  ASSUME NEW t, Shape(t), NEW dirs, NEW gone, NEW except,
         NEW u, u = Rehashed(t, dirs, gone),
         \A q \in dirs : q \in DOMAIN t /\ IsDirectory(t[q]) /\ ~IsDeleted(t[q]),
         \A q \in gone : q \in DOMAIN t /\ IsDeleted(t[q]),
         \A q \in dirs \cup gone : q # <<>> => Parent(q) \in dirs \cup except,
         \A q \in DOMAIN t \ (dirs \cup gone \cup except) : HashOK(t, q)
  PROVE  \A q \in DOMAIN t \ except : HashOK(u, q)
<1>1. SameShape(u, t)
  BY RehashedIs
<1>2. \A q \in DOMAIN t :
        /\ u[q].mtime = t[q].mtime /\ u[q].deletedAt = t[q].deletedAt
        /\ q \in dirs => u[q].hash = HashChildren(u, q)
        /\ q \notin dirs /\ q \in gone => u[q].hash = TombstoneHash(q)
        /\ q \notin dirs /\ q \notin gone => u[q].hash = t[q].hash
  BY RehashedIs
<1>. SUFFICES ASSUME NEW q \in DOMAIN t \ except
              PROVE  HashOK(u, q)
  OBVIOUS
<1>3. CASE q \in dirs
  <2>1. ~IsDeleted(u[q]) /\ u[q].hash = HashChildren(u, q)
    BY <1>2, <1>3 DEF IsDeleted
  <2>. QED
    BY <2>1 DEF HashOK
<1>4. CASE q \in gone
  <2>1. IsDeleted(u[q]) /\ q \notin dirs
    BY <1>2, <1>4 DEF IsDeleted
  <2>2. u[q].hash = TombstoneHash(q)
    BY <1>2, <1>4, <2>1
  <2>. QED
    BY <2>1, <2>2 DEF HashOK
<1>5. CASE q \notin dirs /\ q \notin gone
  <2>1. HashOK(t, q) /\ u[q].hash = t[q].hash /\ u[q].deletedAt = t[q].deletedAt
        /\ u[q].kind = t[q].kind
    BY <1>1, <1>2, <1>5 DEF SameShape
  <2>2. CASE IsDeleted(t[q])
    BY <2>1, <2>2 DEF HashOK, IsDeleted
  <2>3. CASE ~IsDeleted(t[q]) /\ ~IsDirectory(t[q])
    BY <2>1, <2>3 DEF HashOK, IsDeleted, IsDirectory
  <2>4. CASE ~IsDeleted(t[q]) /\ IsDirectory(t[q])
    <3>. DEFINE cs == t[q].children
    <3>1. /\ cs \in Seq(DOMAIN t)
          /\ \A i \in 1..Len(cs) : cs[i] # <<>> /\ Parent(cs[i]) = q
      BY DEF Shape, NodeOK
    <3>2. u[q].children = cs
      BY <1>1 DEF SameShape
    <3>3. t[q].hash = DirectoryHash([i \in DOMAIN cs |-> t[cs[i]].hash])
      BY <2>1, <2>4 DEF HashOK, HashChildren
    <3>. HIDE DEF cs
    <3>4. ASSUME NEW i \in DOMAIN cs
          PROVE  u[cs[i]].hash = t[cs[i]].hash
      <4>1. cs[i] \in DOMAIN t /\ cs[i] # <<>> /\ Parent(cs[i]) = q
        BY <3>1
      <4>2. cs[i] \notin dirs \cup gone
        BY <1>5, <4>1
      <4>. QED
        BY <1>2, <4>1, <4>2
    <3>5. [i \in DOMAIN cs |-> u[cs[i]].hash] = [i \in DOMAIN cs |-> t[cs[i]].hash]
      BY <3>4
    <3>6. u[q].hash = HashChildren(u, q)
      BY <2>1, <3>2, <3>3, <3>5 DEF HashChildren
    <3>. QED
      BY <2>1, <2>4, <3>6 DEF HashOK, IsDeleted, IsDirectory
  <2>. QED
    BY <2>2, <2>3, <2>4
<1>. QED
  BY <1>3, <1>4, <1>5

-----------------------------------------------------------------------------
(* Insertion *)

(* The next node on the way down to a path.                                *)
LEMMA OneBelow ==
  ASSUME NEW p \in Node, NEW q \in Prefixes(p), q # p,
         NEW b, b = SubSeq(p, 1, Len(q) + 1)
  PROVE  b \in Prefixes(p) /\ b # <<>> /\ Parent(b) = q
<1>1. p \in Seq(Name) /\ Len(p) \in Nat
  BY Nodes
<1>2. Len(q) \in 0..Len(p) /\ Len(q) # Len(p)
  BY <1>1, PrefixIs, PrefixOrder
<1>3. b \in Prefixes(p)
  <2>1. Len(q) + 1 \in 0..Len(p)
    BY <1>1, <1>2
  <2>. QED
    BY <2>1 DEF Prefixes
<1>4. b \in Seq(Name) /\ Len(b) = Len(q) + 1
  <2>1. b \in Seq(Name)
    BY <1>1, <1>3, PrefixIs
  <2>2. \A i \in 1..(Len(q) + 1) : p[i] \in Name
    BY <1>1, <1>2
  <2>3. Len(SubSeq(p, 1, Len(q) + 1))
          = IF 1 <= Len(q) + 1 THEN Len(q) + 1 - 1 + 1 ELSE 0
    BY <1>2, <2>2, SubSeqProperties
  <2>4. \A n \in Nat : (IF 1 <= n + 1 THEN n + 1 - 1 + 1 ELSE 0) = n + 1
    OBVIOUS
  <2>. QED
    BY <1>2, <2>1, <2>3, <2>4
<1>5. b # <<>>
  <2>. DEFINE e == <<>>
  <2>1. Len(e) = 0
    OBVIOUS
  <2>2. Len(b) # 0
    BY <1>2, <1>4
  <2>. HIDE DEF e
  <2>3. b # e
    BY <2>1, <2>2
  <2>. QED
    BY <2>3 DEF e
<1>6. Parent(b) \in Prefixes(p) /\ Len(Parent(b)) = Len(q)
  <2>1. b \in Node
    BY <1>3, Nodes
  <2>2. Parent(b) \in Prefixes(b) /\ Len(Parent(b)) = Len(b) - 1
    BY <1>5, <2>1, Above
  <2>. QED
    BY <1>1, <1>2, <1>3, <1>4, <2>2, PrefixOrder
<1>7. Parent(b) \in Prefixes(q) /\ q \in Seq(Name)
  BY <1>1, <1>2, <1>6, PrefixOrder, PrefixIs
<1>. QED
  BY <1>5, <1>3, <1>6, <1>7, PrefixOrder

(* No file is above another.                                               *)
LEMMA OnlyDirectoriesAbove ==
  ASSUME NEW p \in Node, NEW q \in Prefixes(p) \ {p}
  PROVE  q \notin Path /\ q \in Node
BY Nodes

LEMMA OfShape ==
  ASSUME NEW t, Shape(t), NEW q \in DOMAIN t
  PROVE  /\ q \in Node /\ IsNode(t[q])
         /\ IsDirectory(t[q]) <=> q \notin Path
         /\ q \notin Path => ~IsDeleted(t[q])
         /\ Prefixes(q) \subseteq DOMAIN t
BY DEF Shape, NodeOK, IsDirectory

(* What is above p gets its hashes, the rest has them.                     *)
LEMMA UpwardFrom ==
  ASSUME NEW t, Shape(t), NEW p \in DOMAIN t,
         \A q \in DOMAIN t \ (Prefixes(p) \ {p}) : HashOK(t, q),
         NEW u, u = PropagateHashUpward(t, p)
  PROVE  /\ Good(u)
         /\ DOMAIN u = DOMAIN t
         /\ \A q \in DOMAIN t : /\ u[q].mtime = t[q].mtime
                                /\ u[q].deletedAt = t[q].deletedAt
                                /\ q \in Path => u[q].hash = t[q].hash
<1>. DEFINE dirs == Prefixes(p) \ {p}
<1>1. u = Rehashed(t, dirs, {})
  BY DEF PropagateHashUpward
<1>2. \A q \in dirs : q \notin Path /\ q \in Node /\ q \in DOMAIN t
  BY OnlyDirectoriesAbove, OfShape
<1>3. \A q \in dirs : q \in DOMAIN t /\ IsDirectory(t[q]) /\ ~IsDeleted(t[q])
  BY <1>2, OfShape
<1>4. ASSUME NEW q \in dirs, q # <<>>
      PROVE  Parent(q) \in dirs
  <2>1. p \in Node /\ p \in Seq(Name) /\ q \in Prefixes(p)
    BY OfShape, Nodes
  <2>2. Parent(q) \in Prefixes(q) /\ Len(Parent(q)) = Len(q) - 1
    BY <1>2, <1>4, Above
  <2>3. Parent(q) \in Prefixes(p)
    BY <2>1, <2>2, PrefixOrder
  <2>4. Parent(q) # p
    <3>1. Len(q) \in 0..Len(p) /\ Len(p) \in Nat
      BY <2>1, PrefixIs
    <3>. QED
      BY <2>2, <3>1
  <2>. QED
    BY <2>3, <2>4
<1>. HIDE DEF dirs
<1>5. \A q \in DOMAIN t \ dirs : HashOK(t, q)
  BY DEF dirs
<1>6. \A q \in DOMAIN t \ {} : HashOK(u, q)
  <2>. DEFINE none == {}
  <2>1. \A q \in none : q \in DOMAIN t /\ IsDeleted(t[q])
    OBVIOUS
  <2>2. \A q \in dirs \cup none : q # <<>> => Parent(q) \in dirs \cup none
    BY <1>4
  <2>3. \A q \in DOMAIN t \ (dirs \cup none \cup none) : HashOK(t, q)
    BY <1>5
  <2>4. u = Rehashed(t, dirs, none)
    BY <1>1
  <2>. HIDE DEF none
  <2>5. \A q \in DOMAIN t \ none : HashOK(u, q)
    BY <1>3, <2>1, <2>2, <2>3, <2>4, RehashedRight
  <2>. QED
    BY <2>5 DEF none
<1>7. SameShape(u, t)
  BY <1>1, RehashedIs
<1>8. \A q \in DOMAIN t : /\ u[q].mtime = t[q].mtime /\ u[q].deletedAt = t[q].deletedAt
                          /\ q \notin dirs => u[q].hash = t[q].hash
  <2>1. \A q \in DOMAIN t : q \notin {}
    OBVIOUS
  <2>. QED
    BY <1>1, <2>1, RehashedIs
<1>9. Good(u)
  BY <1>6, <1>7, ShapeKept, HashesOK DEF Good, SameShape
<1>. QED
  BY <1>2, <1>7, <1>8, <1>9 DEF SameShape

(* A leaf is as it was; a tombstone's hash says nothing.                   *)
SameLeaf(u, t, p) ==
  /\ p \in DOMAIN u <=> p \in DOMAIN t
  /\ p \in DOMAIN t => /\ u[p].mtime = t[p].mtime /\ u[p].deletedAt = t[p].deletedAt
                       /\ ~IsDeleted(t[p]) => u[p].hash = t[p].hash

(* The leaf p says what the entry of the metadata says.                    *)
Mirrors(t, p, e) ==
  IF Tracked(e)
  THEN /\ p \in DOMAIN t /\ ~IsDeleted(t[p])
       /\ t[p].mtime = e.mtime /\ t[p].hash = FileHash(e.hash)
  ELSE p \in DOMAIN t => IsDeleted(t[p]) /\ t[p].deletedAt = e.tomb

LEMMA LeafMirrors ==
  ASSUME NEW t, NEW u, NEW p, NEW e, SameLeaf(u, t, p), Mirrors(t, p, e)
  PROVE  Mirrors(u, p, e)
BY DEF SameLeaf, Mirrors, IsDeleted

(* A new file, with the directories that were missing on the way.          *)
LEMMA GrownIs ==
  ASSUME NEW t, Good(t), NEW p \in Path, p \notin DOMAIN t, NEW m, NEW h,
         NEW g, g = Grown(t, p, m, h)
  PROVE  /\ Shape(g) /\ p \in DOMAIN g
         /\ g[p].mtime = m /\ g[p].deletedAt = NoTime /\ g[p].hash = h
         /\ \A q \in DOMAIN g \ (Prefixes(p) \ {p}) : HashOK(g, q)
         /\ \A q \in Path \ {p} : SameLeaf(g, t, q)
<1>. DEFINE missing == Prefixes(p) \ (DOMAIN t \cup {<<>>})
            below(q) == SubSeq(p, 1, Len(q) + 1)
<1>1. /\ DOMAIN g = DOMAIN t \cup missing
      /\ \A q \in DOMAIN g :
           g[q] = IF q = p THEN FileNode(m, h)
                  ELSE IF q \in missing THEN DirectoryNode(m, <<below(q)>>)
                  ELSE IF IsPrefix(q, p) /\ below(q) \in missing
                  THEN [t[q] EXCEPT !.children = Append(@, below(q))]
                  ELSE t[q]
  <2>. DEFINE new(q) == IF q = p THEN FileNode(m, h)
                        ELSE IF q \in missing THEN DirectoryNode(m, <<below(q)>>)
                        ELSE IF IsPrefix(q, p) /\ below(q) \in missing
                        THEN [t[q] EXCEPT !.children = Append(@, below(q))]
                        ELSE t[q]
  <2>1. g = [q \in DOMAIN t \cup missing |-> new(q)]
    BY Zenon DEF Grown
  <2>2. DOMAIN g = DOMAIN t \cup missing /\ \A q \in DOMAIN g : g[q] = new(q)
    <3>. HIDE DEF new, missing
    <3>. QED
      BY <2>1
  <2>. QED
    BY <2>2, Zenon
<1>2. /\ p \in Node /\ p \in Seq(Name) /\ p # <<>> /\ p \in Prefixes(p)
      /\ Prefixes(p) \subseteq Node
  <2>1. p \in Node /\ p \in Seq(Name) /\ p # <<>>
    BY Nodes
  <2>. QED
    BY <2>1, Nodes, PrefixOrder
<1>3. Shape(t) /\ <<>> \in DOMAIN t /\ DOMAIN t \subseteq Node
  BY DEF Good, Shape
<1>4. Prefixes(p) \subseteq DOMAIN t \cup missing /\ p \in missing
  BY <1>2, <1>3
<1>5. \A q \in Prefixes(p) \ {p} : /\ below(q) \in Prefixes(p) /\ below(q) # <<>>
                                   /\ Parent(below(q)) = q
  BY <1>2, OneBelow
<1>6. \A q \in Prefixes(p) \ {p} : q \notin Path
  BY <1>2, OnlyDirectoriesAbove
<1>. HIDE DEF below, missing
<1>7. missing \subseteq Prefixes(p)
  BY DEF missing
<1>8. ASSUME NEW q \in DOMAIN g
      PROVE  Prefixes(q) \subseteq DOMAIN g
  <2>1. CASE q \in DOMAIN t
    BY <1>1, <1>3, <2>1, OfShape
  <2>2. CASE q \in missing
    BY <1>1, <1>2, <1>4, <1>7, <2>2, PrefixOrder
  <2>. QED
    BY <1>1, <2>1, <2>2
<1>9. NodeOK(g, p)
  <2>1. g[p] = FileNode(m, h)
    BY <1>1, <1>4
  <2>. DEFINE cs == <<>>
  <2>2. cs \in Seq(DOMAIN g) /\ Len(cs) = 0
    OBVIOUS
  <2>3. g[p].children = cs /\ g[p].kind = "File" /\ ~IsDeleted(g[p]) /\ IsNode(g[p])
    BY <2>1 DEF FileNode, IsDeleted, IsNode
  <2>. HIDE DEF cs
  <2>4. \A i \in 1..Len(cs) : cs[i] # <<>> /\ Parent(cs[i]) = p
    BY <2>2
  <2>. QED
    BY <2>2, <2>3, <2>4 DEF NodeOK
<1>10. ASSUME NEW q \in missing, q # p
       PROVE  NodeOK(g, q)
  <2>1. g[q] = DirectoryNode(m, <<below(q)>>)
    BY <1>1, <1>10
  <2>2. /\ q \notin Path /\ below(q) \in DOMAIN g /\ below(q) # <<>>
        /\ Parent(below(q)) = q
    BY <1>1, <1>4, <1>5, <1>6, <1>7, <1>10
  <2>. DEFINE b  == below(q)
              cs == <<b>>
  <2>3. g[q].children = cs /\ g[q].kind = "Directory" /\ ~IsDeleted(g[q]) /\ IsNode(g[q])
    BY <2>1 DEF DirectoryNode, IsDeleted, IsNode
  <2>. HIDE DEF b
  <2>4. cs \in Seq(DOMAIN g) /\ Len(cs) = 1 /\ cs[1] = b
    BY <2>2 DEF b
  <2>. HIDE DEF cs
  <2>5. \A i \in 1..Len(cs) : cs[i] # <<>> /\ Parent(cs[i]) = q
    BY <2>2, <2>4 DEF b
  <2>. QED
    BY <2>2, <2>3, <2>4, <2>5 DEF NodeOK
<1>11. ASSUME NEW q \in DOMAIN t
       PROVE  /\ g[q].kind = t[q].kind /\ g[q].mtime = t[q].mtime
              /\ g[q].deletedAt = t[q].deletedAt /\ g[q].hash = t[q].hash
              /\ q \notin Prefixes(p) => g[q].children = t[q].children
              /\ NodeOK(g, q)
  <2>1. IsNode(t[q]) /\ NodeOK(t, q) /\ q # p /\ q \notin missing /\ q \in DOMAIN g
    BY <1>1, <1>3 DEF Shape, NodeOK, missing
  <2>2. q \in Seq(Name) /\ (IsPrefix(q, p) <=> q \in Prefixes(p))
    <3>1. q \in Seq(Name)
      BY <1>3, Nodes
    <3>. QED
      BY <1>2, <3>1, PrefixTests
  <2>. DEFINE cs == t[q].children
  <2>3. /\ cs \in Seq(DOMAIN t)
        /\ \A i \in 1..Len(cs) : cs[i] # <<>> /\ Parent(cs[i]) = q
    BY <2>1 DEF NodeOK
  <2>4. CASE q \in Prefixes(p) /\ below(q) \in missing
    <3>1. g[q] = [t[q] EXCEPT !.children = Append(cs, below(q))]
      BY <1>1, <2>1, <2>2, <2>4
    <3>. DEFINE new == Append(cs, below(q))
    <3>. HIDE DEF cs
    <3>2. below(q) \in DOMAIN g /\ below(q) # <<>> /\ Parent(below(q)) = q
      BY <1>1, <1>5, <2>1, <2>4
    <3>3. /\ new \in Seq(DOMAIN g) /\ Len(new) = Len(cs) + 1
          /\ \A i \in 1..Len(cs) : new[i] = cs[i]
          /\ new[Len(cs) + 1] = below(q)
      <4>1. cs \in Seq(DOMAIN g)
        BY <1>1, <2>3
      <4>. QED
        BY <3>2, <4>1, AppendProperties
    <3>. HIDE DEF new
    <3>4. ASSUME NEW i \in 1..Len(new)
          PROVE  new[i] # <<>> /\ Parent(new[i]) = q
      <4>1. Len(cs) \in Nat
        BY <2>3
      <4>2. CASE i = Len(cs) + 1
        BY <3>2, <3>3, <4>2
      <4>3. CASE i # Len(cs) + 1
        <5>1. i \in 1..Len(cs)
          BY <3>3, <4>1, <4>3
        <5>. QED
          BY <2>3, <3>3, <5>1
      <4>. QED
        BY <4>2, <4>3
    <3>. DEFINE y == [kind |-> t[q].kind, mtime |-> t[q].mtime,
                      deletedAt |-> t[q].deletedAt, hash |-> t[q].hash, children |-> new]
    <3>5. g[q] = y
      BY <2>1, <3>1 DEF IsNode, new
    <3>6. /\ y.kind = t[q].kind /\ y.mtime = t[q].mtime /\ y.deletedAt = t[q].deletedAt
          /\ y.hash = t[q].hash /\ y.children = new /\ IsNode(y)
      BY DEF IsNode
    <3>. HIDE DEF y
    <3>7. NodeOK(g, q)
      BY <2>1, <3>3, <3>4, <3>5, <3>6 DEF NodeOK, IsDeleted
    <3>. QED
      BY <2>4, <3>5, <3>6, <3>7
  <2>5. CASE ~(q \in Prefixes(p) /\ below(q) \in missing)
    <3>1. g[q] = t[q]
      BY <1>1, <2>1, <2>2, <2>5
    <3>. HIDE DEF cs
    <3>2. cs \in Seq(DOMAIN g)
      BY <1>1, <2>3
    <3>3. NodeOK(g, q)
      BY <2>1, <3>1, <3>2 DEF NodeOK, cs
    <3>. QED
      BY <3>1, <3>3
  <2>. QED
    BY <2>4, <2>5
<1>12. Shape(g)
  <2>1. \A q \in DOMAIN g : NodeOK(g, q)
    BY <1>1, <1>9, <1>10, <1>11
  <2>2. DOMAIN g \subseteq Node /\ <<>> \in DOMAIN g
    BY <1>1, <1>2, <1>3, <1>7
  <2>. QED
    BY <1>8, <2>1, <2>2 DEF Shape
<1>13. /\ p \in DOMAIN g /\ g[p].mtime = m /\ g[p].deletedAt = NoTime /\ g[p].hash = h
       /\ g[p].kind = "File"
  <2>1. p \in DOMAIN g /\ g[p] = FileNode(m, h)
    BY <1>1, <1>4
  <2>. QED
    BY <2>1 DEF FileNode
<1>14. ASSUME NEW q \in DOMAIN g \ (Prefixes(p) \ {p})
       PROVE  HashOK(g, q)
  <2>1. CASE q = p
    BY <1>13, <2>1 DEF HashOK, IsDeleted, IsDirectory
  <2>2. CASE q # p
    <3>1. q \in DOMAIN t /\ q \notin Prefixes(p)
      BY <1>1, <1>7, <2>2
    <3>2. /\ g[q].kind = t[q].kind /\ g[q].deletedAt = t[q].deletedAt
          /\ g[q].hash = t[q].hash /\ g[q].children = t[q].children
      BY <1>11, <3>1
    <3>3. HashOK(t, q)
      BY <3>1, HashesOK DEF Good
    <3>. DEFINE cs == t[q].children
    <3>4. cs \in Seq(DOMAIN t)
      BY <1>3, <3>1 DEF Shape, NodeOK
    <3>5. [i \in DOMAIN cs |-> g[cs[i]].hash] = [i \in DOMAIN cs |-> t[cs[i]].hash]
      <4>. HIDE DEF cs
      <4>1. \A i \in DOMAIN cs : cs[i] \in DOMAIN t
        BY <3>4
      <4>2. \A i \in DOMAIN cs : g[cs[i]].hash = t[cs[i]].hash
        BY <1>11, <4>1
      <4>. QED
        BY <4>2
    <3>6. HashChildren(g, q) = HashChildren(t, q)
      BY <3>2, <3>5 DEF HashChildren
    <3>. QED
      BY <3>2, <3>3, <3>6 DEF HashOK, IsDeleted, IsDirectory
  <2>. QED
    BY <2>1, <2>2
<1>15. ASSUME NEW q \in Path \ {p}
       PROVE  SameLeaf(g, t, q)
  <2>1. q \notin missing
    BY <1>6, <1>7
  <2>2. q \in DOMAIN g <=> q \in DOMAIN t
    BY <1>1, <2>1
  <2>. QED
    BY <1>11, <2>2 DEF SameLeaf
<1>. QED
  BY <1>12, <1>13, <1>14, <1>15

LEMMA LeavesKept ==
  ASSUME NEW t, NEW g, NEW u, NEW q \in Path, SameLeaf(g, t, q), DOMAIN u = DOMAIN g,
         q \in DOMAIN g => /\ u[q].mtime = g[q].mtime /\ u[q].deletedAt = g[q].deletedAt
                           /\ ~IsDeleted(g[q]) => u[q].hash = g[q].hash
  PROVE  SameLeaf(u, t, q)
BY DEF SameLeaf, IsDeleted

(* One leaf is remade: what is not above it has the hashes it had.         *)
LEMMA OneLeaf ==
  ASSUME NEW t, Good(t), NEW p \in Path, p \in DOMAIN t,
         NEW y, IsNode(y), y.kind = "File", y.children = t[p].children,
         NEW g, g = [t EXCEPT ![p] = y]
  PROVE  /\ Shape(g) /\ p \in DOMAIN g /\ g[p] = y /\ DOMAIN g = DOMAIN t
         /\ \A q \in DOMAIN t \ Prefixes(p) : HashOK(g, q)
         /\ \A q \in DOMAIN t \ {p} : g[q] = t[q]
<1>1. DOMAIN g = DOMAIN t /\ g[p] = y /\ \A q \in DOMAIN t \ {p} : g[q] = t[q]
  OBVIOUS
<1>2. Shape(t) /\ p \in Node /\ p \in Seq(Name) /\ p \in Prefixes(p)
  <2>1. p \in Node /\ p \in Seq(Name)
    BY Nodes
  <2>. QED
    BY <2>1, PrefixOrder DEF Good
<1>3. SameShape(g, t)
  <2>1. t[p].kind = "File" /\ \A q \in DOMAIN t : IsNode(t[q]) /\ (IsDeleted(t[q]) => q \in Path)
    BY <1>2 DEF Shape, NodeOK
  <2>. QED
    BY <1>1, <2>1 DEF SameShape
<1>4. Shape(g)
  BY <1>2, <1>3, ShapeKept
<1>5. ASSUME NEW q \in DOMAIN t \ Prefixes(p)
      PROVE  HashOK(g, q)
  <2>1. g[q] = t[q] /\ HashOK(t, q)
    BY <1>1, <1>2, HashesOK DEF Good
  <2>. DEFINE cs == t[q].children
  <2>2. /\ cs \in Seq(DOMAIN t)
        /\ \A i \in 1..Len(cs) : cs[i] # <<>> /\ Parent(cs[i]) = q
    BY <1>2 DEF Shape, NodeOK
  <2>. HIDE DEF cs
  <2>3. ASSUME NEW i \in DOMAIN cs
        PROVE  g[cs[i]].hash = t[cs[i]].hash
    <3>1. cs[i] \in DOMAIN t /\ cs[i] # <<>> /\ Parent(cs[i]) = q
      BY <2>2
    <3>2. cs[i] # p
      <4>1. cs[i] = p => Parent(p) = q /\ p # <<>>
        BY <3>1
      <4>2. p # <<>> => Parent(p) \in Prefixes(p)
        BY <1>2, Above
      <4>. QED
        BY <4>1, <4>2
    <3>. QED
      BY <1>1, <3>1, <3>2
  <2>4. [i \in DOMAIN cs |-> g[cs[i]].hash] = [i \in DOMAIN cs |-> t[cs[i]].hash]
    BY <2>3
  <2>5. HashChildren(g, q) = HashChildren(t, q)
    BY <2>1, <2>4 DEF HashChildren, cs
  <2>. QED
    BY <2>1, <2>5 DEF HashOK
<1>. QED
  BY <1>1, <1>4, <1>5

LEMMA AddFileIs ==
  ASSUME NEW t, Good(t), NEW p \in Path, NEW m, NEW h,
         NEW u, u = AddFile(t, p, m, h)
  PROVE  /\ Good(u)
         /\ p \in DOMAIN u /\ ~IsDeleted(u[p]) /\ u[p].mtime = m /\ u[p].hash = h
         /\ \A q \in Path \ {p} : SameLeaf(u, t, q)
<1>. SUFFICES ASSUME NEW g, Shape(g), p \in DOMAIN g,
                     g[p].mtime = m, g[p].deletedAt = NoTime, g[p].hash = h,
                     \A q \in DOMAIN g \ (Prefixes(p) \ {p}) : HashOK(g, q),
                     \A q \in Path \ {p} : SameLeaf(g, t, q),
                     u = PropagateHashUpward(g, p)
              PROVE  /\ Good(u)
                     /\ p \in DOMAIN u /\ ~IsDeleted(u[p]) /\ u[p].mtime = m /\ u[p].hash = h
                     /\ \A q \in Path \ {p} : SameLeaf(u, t, q)
  <2>1. CASE p \notin DOMAIN t
    <3>. DEFINE g == Grown(t, p, m, h)
    <3>1. u = PropagateHashUpward(g, p)
      BY <2>1 DEF AddFile
    <3>2. /\ Shape(g) /\ p \in DOMAIN g
          /\ g[p].mtime = m /\ g[p].deletedAt = NoTime /\ g[p].hash = h
          /\ \A q \in DOMAIN g \ (Prefixes(p) \ {p}) : HashOK(g, q)
          /\ \A q \in Path \ {p} : SameLeaf(g, t, q)
      BY <2>1, GrownIs
    <3>. HIDE DEF g
    <3>. QED
      BY <3>1, <3>2
  <2>2. CASE p \in DOMAIN t
    <3>. DEFINE y == [kind |-> "File", mtime |-> m, deletedAt |-> NoTime, hash |-> h,
                      children |-> t[p].children]
                g == [t EXCEPT ![p] = y]
    <3>1. Shape(t) /\ NodeOK(t, p) /\ IsNode(t[p]) /\ t[p].kind = "File"
      BY <2>2 DEF Good, Shape, NodeOK
    <3>. DEFINE revived == IF IsDeleted(t[p])
                           THEN [t[p] EXCEPT !.deletedAt = NoTime, !.kind = "File"]
                           ELSE t[p]
                touched == [revived EXCEPT !.mtime = m]
    <3>2. touched = [kind |-> "File", mtime |-> m, deletedAt |-> NoTime,
                     hash |-> t[p].hash, children |-> t[p].children]
      <4>1. revived = [kind |-> "File", mtime |-> t[p].mtime, deletedAt |-> NoTime,
                       hash |-> t[p].hash, children |-> t[p].children]
        <5>1. CASE IsDeleted(t[p])
          BY <3>1, <5>1 DEF IsNode
        <5>2. CASE ~IsDeleted(t[p])
          BY <3>1, <5>2 DEF IsNode, IsDeleted
        <5>. QED
          BY <5>1, <5>2
      <4>. HIDE DEF revived
      <4>. QED
        BY <4>1
    <3>3. u = IF IsDirectory(touched)
              THEN [t EXCEPT ![p] = touched]
              ELSE PropagateHashUpward([t EXCEPT ![p] = [touched EXCEPT !.hash = h]], p)
      BY <2>2, Zenon DEF AddFile
    <3>. HIDE DEF touched
    <3>4. ~IsDirectory(touched) /\ [touched EXCEPT !.hash = h] = y
      BY <3>2 DEF IsDirectory
    <3>5. u = PropagateHashUpward(g, p)
      BY <3>3, <3>4
    <3>6. /\ IsNode(y) /\ y.kind = "File" /\ y.children = t[p].children
          /\ y.mtime = m /\ y.deletedAt = NoTime /\ y.hash = h
      BY DEF IsNode
    <3>. HIDE DEF y
    <3>7. g = [t EXCEPT ![p] = y]
      OBVIOUS
    <3>. HIDE DEF g
    <3>8. /\ Shape(g) /\ p \in DOMAIN g /\ g[p] = y /\ DOMAIN g = DOMAIN t
          /\ \A q \in DOMAIN t \ Prefixes(p) : HashOK(g, q)
          /\ \A q \in DOMAIN t \ {p} : g[q] = t[q]
      BY <2>2, <3>6, <3>7, OneLeaf
    <3>9. HashOK(g, p)
      BY <3>6, <3>8 DEF HashOK, IsDeleted, IsDirectory
    <3>10. \A q \in DOMAIN g \ (Prefixes(p) \ {p}) : HashOK(g, q)
      BY <3>8, <3>9
    <3>11. \A q \in Path \ {p} : SameLeaf(g, t, q)
      BY <3>8 DEF SameLeaf
    <3>. QED
      BY <3>5, <3>6, <3>8, <3>10, <3>11
  <2>. QED
    BY <2>1, <2>2
<1>1. /\ Good(u)
      /\ DOMAIN u = DOMAIN g
      /\ \A q \in DOMAIN g : /\ u[q].mtime = g[q].mtime
                             /\ u[q].deletedAt = g[q].deletedAt
                             /\ q \in Path => u[q].hash = g[q].hash
  BY UpwardFrom
<1>2. p \in DOMAIN u /\ ~IsDeleted(u[p]) /\ u[p].mtime = m /\ u[p].hash = h
  BY <1>1 DEF IsDeleted
<1>3. \A q \in Path \ {p} : SameLeaf(u, t, q)
  BY <1>1, LeavesKept
<1>. QED
  BY <1>1, <1>2, <1>3

-----------------------------------------------------------------------------
(* Deletion *)

LEMMA VisitedIs ==
  ASSUME NEW t, Shape(t), NEW a \in DOMAIN t, NEW q \in DOMAIN t
  PROVE  q \in Visited(t, a)
           <=> /\ a \in Prefixes(q)
               /\ \A r \in Prefixes(q) \ {q} :
                    a \in Prefixes(r) => IsDirectory(t[r]) /\ ~IsDeleted(t[r])
<1>1. a \in Seq(Name) /\ q \in Seq(Name) /\ \A r \in Prefixes(q) : r \in Seq(Name)
  <2>1. a \in Node /\ q \in Node
    BY DEF Shape
  <2>. QED
    BY <2>1, Nodes, PrefixIs
<1>2. IsPrefix(a, q) <=> a \in Prefixes(q)
  BY <1>1, PrefixTests
<1>3. \A r \in Prefixes(q) : IsPrefix(a, r) <=> a \in Prefixes(r)
  BY <1>1, PrefixTests
<1>. QED
  BY <1>2, <1>3, Zenon DEF Visited

(* What is visited from the parent of a deleted file on: both, and with    *)
(* each node all that is between it and that parent.                       *)
LEMMA VisitedAbove ==
  ASSUME NEW t, Shape(t), NEW p \in Path, p \in DOMAIN t, NEW a, a = Parent(p)
  PROVE  /\ a \in DOMAIN t /\ IsDirectory(t[a]) /\ ~IsDeleted(t[a])
         /\ Prefixes(p) = Prefixes(a) \cup {p}
         /\ a \in Visited(t, a) /\ p \in Visited(t, a)
         /\ \A c \in Visited(t, a) :
              c # <<>> =>
                \/ Parent(c) \in Prefixes(a) \ {a}
                \/ /\ Parent(c) \in Visited(t, a)
                   /\ IsDirectory(t[Parent(c)]) /\ ~IsDeleted(t[Parent(c)])
<1>1. p \in Node /\ p # <<>> /\ p \in Seq(Name) /\ p \in Prefixes(p)
  <2>1. p \in Node /\ p # <<>> /\ p \in Seq(Name)
    BY Nodes
  <2>. QED
    BY <2>1, PrefixOrder
<1>2. /\ a \in Node /\ a # p /\ a \in Prefixes(p) /\ Prefixes(p) \ {p} = Prefixes(a)
  BY <1>1, Above
<1>3. a \in DOMAIN t /\ a \notin Path /\ a \in Seq(Name) /\ a \in Prefixes(a)
  <2>1. a \in DOMAIN t /\ a \notin Path
    BY <1>1, <1>2, OfShape, OnlyDirectoriesAbove
  <2>2. a \in Seq(Name)
    BY <1>2, Nodes
  <2>. QED
    BY <2>1, <2>2, PrefixOrder
<1>4. IsDirectory(t[a]) /\ ~IsDeleted(t[a])
  BY <1>3, OfShape
<1>5. ASSUME NEW r \in Prefixes(a), a \in Prefixes(r)
      PROVE  r = a
  <2>1. r \in Seq(Name) /\ Len(r) \in 0..Len(a) /\ Len(a) \in Nat
    BY <1>3, PrefixIs
  <2>2. Len(a) \in 0..Len(r)
    BY <1>5, <2>1, PrefixIs
  <2>3. Len(r) = Len(a)
    BY <2>1, <2>2
  <2>. QED
    BY <1>3, <2>3, PrefixOrder
<1>6. a \in Visited(t, a)
  <2>1. \A r \in Prefixes(a) \ {a} : a \notin Prefixes(r)
    BY <1>5
  <2>. QED
    BY <1>3, <2>1, VisitedIs
<1>7. p \in Visited(t, a)
  <2>1. \A r \in Prefixes(p) \ {p} :
          a \in Prefixes(r) => IsDirectory(t[r]) /\ ~IsDeleted(t[r])
    BY <1>2, <1>4, <1>5
  <2>. QED
    BY <1>2, <1>3, <2>1, VisitedIs
<1>8. ASSUME NEW c \in Visited(t, a), c # <<>>, Parent(c) \notin Prefixes(a) \ {a}
      PROVE  /\ Parent(c) \in Visited(t, a)
             /\ IsDirectory(t[Parent(c)]) /\ ~IsDeleted(t[Parent(c)])
  <2>. DEFINE b == Parent(c)
  <2>1. c \in DOMAIN t
    BY DEF Visited
  <2>2. /\ a \in Prefixes(c)
        /\ \A r \in Prefixes(c) \ {c} :
             a \in Prefixes(r) => IsDirectory(t[r]) /\ ~IsDeleted(t[r])
    BY <1>3, <2>1, VisitedIs
  <2>3. c \in Node /\ b \in Node /\ b \in Prefixes(c) \ {c} /\ Prefixes(c) \ {c} = Prefixes(b)
    BY <1>8, <2>1, Above, OfShape
  <2>4. a # c
    <3>. SUFFICES ASSUME a = c PROVE FALSE
      OBVIOUS
    <3>1. b \in Prefixes(a) \ {a}
      BY <2>3
    <3>. QED
      BY <1>8, <3>1
  <2>. HIDE DEF b
  <2>5. a \in Prefixes(b) /\ b \in DOMAIN t
    BY <2>1, <2>2, <2>3, <2>4, OfShape
  <2>6. IsDirectory(t[b]) /\ ~IsDeleted(t[b])
    BY <2>2, <2>3, <2>5
  <2>7. \A r \in Prefixes(b) \ {b} : r \in Prefixes(c) \ {c}
    BY <2>3
  <2>8. b \in Visited(t, a)
    BY <1>3, <2>2, <2>5, <2>7, VisitedIs
  <2>. QED
    BY <2>6, <2>8 DEF b
<1>9. Prefixes(p) = Prefixes(a) \cup {p}
  BY <1>1, <1>2
<1>. QED
  BY <1>3, <1>4, <1>6, <1>7, <1>8, <1>9

LEMMA MarkedIs ==
  ASSUME NEW t, Good(t), NEW p \in Path, p \in DOMAIN t, NEW time, NEW g,
         g = Marked(t, p, time)
  PROVE  /\ Shape(g) /\ p \in DOMAIN g /\ g[p].deletedAt = time /\ DOMAIN g = DOMAIN t
         /\ \A q \in DOMAIN t \ Prefixes(p) : HashOK(g, q)
         /\ \A q \in DOMAIN t \ {p} : g[q] = t[q]
<1>. DEFINE y == [kind |-> t[p].kind, mtime |-> t[p].mtime, deletedAt |-> time,
                  hash |-> t[p].hash, children |-> t[p].children]
<1>1. Shape(t) /\ IsNode(t[p]) /\ t[p].kind = "File"
  BY DEF Good, Shape, NodeOK
<1>2. /\ IsNode(y) /\ y.kind = "File" /\ y.children = t[p].children /\ y.deletedAt = time
  BY <1>1 DEF IsNode
<1>3. [t[p] EXCEPT !.deletedAt = time] = y
  BY <1>1 DEF IsNode
<1>. HIDE DEF y
<1>4. ASSUME NEW q \in DOMAIN t
      PROVE  IsPrefix(p, q) <=> q = p
  <2>1. q \in Node /\ q \in Seq(Name) /\ p \in Seq(Name)
    BY <1>1, OfShape, Nodes
  <2>2. IsPrefix(p, q) <=> p \in Prefixes(q)
    BY <2>1, PrefixTests
  <2>3. p \in Prefixes(p)
    BY <2>1, PrefixOrder
  <2>. QED
    BY <2>1, <2>2, <2>3, Nodes
<1>5. g = [t EXCEPT ![p] = y]
  <2>1. g = [q \in DOMAIN t |-> IF q = p THEN y ELSE t[q]]
    BY <1>3, <1>4 DEF Marked
  <2>2. [t EXCEPT ![p] = y] = [q \in DOMAIN t |-> IF q = p THEN y ELSE t[q]]
    OBVIOUS
  <2>. QED
    BY <2>1, <2>2
<1>. QED
  BY <1>2, <1>5, OneLeaf

LEMMA DeleteFileIs ==
  ASSUME NEW t, Good(t), NEW p \in Path, NEW time, time # NoTime,
         NEW u, u = DeleteFile(t, p, time)
  PROVE  /\ Good(u)
         /\ p \in DOMAIN u => IsDeleted(u[p]) /\ u[p].deletedAt = time
         /\ \A q \in Path \ {p} : SameLeaf(u, t, q)
<1>1. CASE p \notin DOMAIN t
  BY <1>1 DEF DeleteFile, SameLeaf
<1>2. CASE p \in DOMAIN t
  <2>. DEFINE a == Parent(p)
              g == Marked(t, p, time)
  <2>1. /\ Shape(g) /\ p \in DOMAIN g /\ g[p].deletedAt = time /\ DOMAIN g = DOMAIN t
        /\ \A q \in DOMAIN t \ Prefixes(p) : HashOK(g, q)
        /\ \A q \in DOMAIN t \ {p} : g[q] = t[q]
    BY <1>2, MarkedIs
  <2>2. u = PropagateHashUpward(PropagateHashDownward(g, a), a)
    BY <1>2 DEF DeleteFile
  <2>. HIDE DEF g
  <2>3. /\ a \in DOMAIN g /\ IsDirectory(g[a]) /\ ~IsDeleted(g[a])
        /\ Prefixes(p) = Prefixes(a) \cup {p}
        /\ a \in Visited(g, a) /\ p \in Visited(g, a)
        /\ \A c \in Visited(g, a) :
             c # <<>> =>
               \/ Parent(c) \in Prefixes(a) \ {a}
               \/ /\ Parent(c) \in Visited(g, a)
                  /\ IsDirectory(g[Parent(c)]) /\ ~IsDeleted(g[Parent(c)])
    BY <2>1, VisitedAbove
  <2>. HIDE DEF a
  <2>. DEFINE gone == {q \in Visited(g, a) : IsDeleted(g[q])}
              dirs == {q \in Visited(g, a) : IsDirectory(g[q])} \ gone
              v    == Rehashed(g, dirs, gone)
              rest == Prefixes(a) \ {a}
  <2>4. u = PropagateHashUpward(v, a)
    BY <2>2 DEF PropagateHashDownward
  <2>5. Visited(g, a) \subseteq DOMAIN g
    BY DEF Visited
  <2>6. \A q \in dirs : q \in DOMAIN g /\ IsDirectory(g[q]) /\ ~IsDeleted(g[q])
    BY <2>5
  <2>7. \A q \in gone : q \in DOMAIN g /\ IsDeleted(g[q])
    BY <2>5
  <2>8. \A q \in dirs \cup gone : q # <<>> => Parent(q) \in dirs \cup rest
    BY <2>3
  <2>9. p \in gone /\ a \in dirs
    <3>1. IsDeleted(g[p])
      BY <2>1 DEF IsDeleted
    <3>. QED
      BY <2>3, <3>1
  <2>. HIDE DEF gone, dirs, rest, v
  <2>10. \A q \in DOMAIN g \ (dirs \cup gone \cup rest) : HashOK(g, q)
    BY <2>1, <2>3, <2>9 DEF rest
  <2>11. \A q \in DOMAIN g \ rest : HashOK(v, q)
    BY <2>1, <2>6, <2>7, <2>8, <2>10, RehashedRight DEF v
  <2>12. /\ SameShape(v, g)
         /\ \A q \in DOMAIN g :
              /\ v[q].mtime = g[q].mtime /\ v[q].deletedAt = g[q].deletedAt
              /\ q \notin dirs /\ q \notin gone => v[q].hash = g[q].hash
    BY <2>1, RehashedIs DEF v
  <2>13. Shape(v) /\ DOMAIN v = DOMAIN g
    BY <2>1, <2>12, ShapeKept DEF SameShape
  <2>14. /\ Good(u) /\ DOMAIN u = DOMAIN v
         /\ \A q \in DOMAIN v : /\ u[q].mtime = v[q].mtime
                                /\ u[q].deletedAt = v[q].deletedAt
                                /\ q \in Path => u[q].hash = v[q].hash
    <3>1. a \in DOMAIN v /\ \A q \in DOMAIN v \ (Prefixes(a) \ {a}) : HashOK(v, q)
      BY <2>3, <2>11, <2>13 DEF rest
    <3>. QED
      BY <2>4, <2>13, <3>1, UpwardFrom
  <2>15. ASSUME NEW q \in Path \ {p}
         PROVE  SameLeaf(u, t, q)
    <3>1. ASSUME q \in DOMAIN g, ~IsDeleted(g[q])
          PROVE  v[q].hash = g[q].hash
      <4>1. ~IsDirectory(g[q])
        BY <2>1, <3>1, OfShape
      <4>2. q \notin dirs /\ q \notin gone
        BY <2>6, <2>7, <3>1, <4>1
      <4>. QED
        BY <2>12, <3>1, <4>2
    <3>2. SameLeaf(g, t, q)
      BY <2>1 DEF SameLeaf
    <3>3. SameLeaf(v, t, q)
      BY <2>12, <2>13, <3>1, <3>2, LeavesKept
    <3>. QED
      BY <2>14, <3>3, LeavesKept
  <2>16. IsDeleted(u[p]) /\ u[p].deletedAt = time
    BY <2>1, <2>12, <2>13, <2>14 DEF IsDeleted
  <2>. QED
    BY <2>14, <2>15, <2>16
<1>. QED
  BY <1>1, <1>2

-----------------------------------------------------------------------------
(* Many records *)

LEMMA NewTreeIs == Good(NewTree) /\ \A p \in Path : p \notin DOMAIN NewTree
<1>. DEFINE r  == <<>>
            no == <<>>
            x  == [kind |-> "Directory", mtime |-> NoTime, deletedAt |-> NoTime,
                   hash |-> DirectoryHash(no), children |-> no]
<1>1. NewTree = [q \in {r} |-> x]
  BY DEF NewTree, DirectoryNode
<1>2. DOMAIN NewTree = {r} /\ NewTree[r] = x
  <2>. HIDE DEF x, r
  <2>. QED
    BY <1>1
<1>3. r \in Node /\ r \notin Path /\ Prefixes(r) \subseteq {r}
  <2>1. r \in Node /\ r \notin Path
    BY Nodes DEF Node
  <2>2. r \in Seq(Name) /\ Len(r) = 0
    OBVIOUS
  <2>. HIDE DEF r
  <2>3. ASSUME NEW q \in Prefixes(r) PROVE q = r
    <3>1. Len(q) \in 0..0
      BY <2>2, PrefixIs
    <3>2. Len(q) = Len(r)
      BY <2>2, <3>1
    <3>. QED
      BY <2>2, <3>2, PrefixOrder
  <2>. QED
    BY <2>1, <2>3
<1>4. /\ x.kind = "Directory" /\ ~IsDeleted(x) /\ IsNode(x) /\ x.children = no
      /\ x.hash = DirectoryHash(no) /\ IsDirectory(x)
  BY DEF IsDeleted, IsNode, IsDirectory
<1>5. no \in Seq({r}) /\ DOMAIN no = {} /\ 1..Len(no) = {}
  OBVIOUS
<1>. HIDE DEF x
<1>6. [i \in DOMAIN no |-> NewTree[no[i]].hash] = no
  BY <1>5
<1>. HIDE DEF no
<1>7. NodeOK(NewTree, r)
  BY <1>2, <1>3, <1>4, <1>5 DEF NodeOK
<1>8. HashOK(NewTree, r)
  BY <1>2, <1>4, <1>6 DEF HashOK, HashChildren
<1>9. \A p \in Path : p \notin DOMAIN NewTree
  BY <1>2, <1>3
<1>10. Shape(NewTree)
  <2>1. <<>> \in DOMAIN NewTree
    BY <1>2
  <2>. HIDE DEF r
  <2>. QED
    BY <1>2, <1>3, <1>7, <2>1 DEF Shape
<1>. HIDE DEF r
<1>11. Verified(NewTree)
  BY <1>2, <1>8, HashesOK
<1>. QED
  BY <1>9, <1>10, <1>11 DEF Good

(* What can be recorded: a file, or a deletion with its time.              *)
Recordable(e) == Tracked(e) \/ e.tomb # NoTime

LEMMA RecordedIs ==
  ASSUME NEW t, Good(t), NEW p \in Path, NEW entries, Recordable(entries[p]),
         NEW u, u = Recorded(entries, t, p)
  PROVE  /\ Good(u) /\ Mirrors(u, p, entries[p])
         /\ \A q \in Path \ {p} : SameLeaf(u, t, q)
<1>. DEFINE e == entries[p]
<1>1. CASE Tracked(e)
  <2>1. u = AddFile(t, p, e.mtime, FileHash(e.hash))
    BY <1>1 DEF Recorded
  <2>2. /\ Good(u) /\ p \in DOMAIN u /\ ~IsDeleted(u[p])
        /\ u[p].mtime = e.mtime /\ u[p].hash = FileHash(e.hash)
        /\ \A q \in Path \ {p} : SameLeaf(u, t, q)
    BY <2>1, AddFileIs
  <2>. QED
    BY <1>1, <2>2 DEF Mirrors
<1>2. CASE ~Tracked(e)
  <2>1. u = DeleteFile(t, p, e.tomb) /\ e.tomb # NoTime
    BY <1>2 DEF Recorded, Recordable
  <2>2. /\ Good(u)
        /\ p \in DOMAIN u => IsDeleted(u[p]) /\ u[p].deletedAt = e.tomb
        /\ \A q \in Path \ {p} : SameLeaf(u, t, q)
    BY <2>1, DeleteFileIs
  <2>. QED
    BY <1>2, <2>2 DEF Mirrors
<1>. QED
  BY <1>1, <1>2

TreeStep(n, entries, ps, f, i) ==
  IF i = 0 THEN tree[n] ELSE Recorded(entries, f[i - 1], ps[i])

Trees(n, entries, ps) ==
  CHOOSE f : f = [i \in 0..Len(ps) |-> TreeStep(n, entries, ps, f, i)]

LEMMA InTurn ==
  \A n, entries, ps : TreeAfter(n, entries, ps) = Trees(n, entries, ps)[Len(ps)]
BY DEF TreeAfter, Trees, TreeStep

(* The recursion defines a function.                                       *)
LEMMA TreesAre ==
  ASSUME NEW n, NEW entries, NEW ps, Len(ps) \in Nat
  PROVE  /\ Trees(n, entries, ps)[0] = tree[n]
         /\ \A i \in 1..Len(ps) :
              Trees(n, entries, ps)[i] = Recorded(entries, Trees(n, entries, ps)[i - 1], ps[i])
<1>. DEFINE Step(f, i) == TreeStep(n, entries, ps, f, i)
            Defines(f, k) == f = [i \in 0..k |-> Step(f, i)]
            T == {k \in Nat : \E f : Defines(f, k)}
<1>1. 0 \in T
  <2>. DEFINE f == [i \in 0..0 |-> tree[n]]
  <2>1. f = [i \in 0..0 |-> Step(f, i)]
    BY DEF TreeStep
  <2>. QED
    BY <2>1
<1>2. ASSUME NEW k \in Nat, k \in T
      PROVE  k + 1 \in T
  <2>1. PICK f : Defines(f, k)
    BY <1>2
  <2>. DEFINE g == [i \in 0..(k + 1) |-> IF i = k + 1 THEN Step(f, k + 1) ELSE f[i]]
  <2>2. \A i \in 0..k : f[i] = Step(f, i)
    BY <2>1
  <2>3. \A i \in 0..k : g[i] = f[i]
    OBVIOUS
  <2>4. \A i \in 0..(k + 1) : Step(f, i) = Step(g, i)
    <3>. HIDE DEF g
    <3>. SUFFICES ASSUME NEW i \in 0..(k + 1)
                  PROVE  Step(f, i) = Step(g, i)
      OBVIOUS
    <3>1. CASE i = 0
      BY <3>1 DEF TreeStep
    <3>2. CASE i # 0
      <4>1. i - 1 \in 0..k
        BY <3>2
      <4>2. f[i - 1] = g[i - 1]
        BY <2>3, <4>1
      <4>. QED
        BY <4>2 DEF TreeStep
    <3>. QED
      BY <3>1, <3>2
  <2>5. \A i \in 0..(k + 1) : g[i] = Step(g, i)
    BY <2>2, <2>3, <2>4
  <2>6. g = [i \in 0..(k + 1) |-> g[i]]
    OBVIOUS
  <2>7. Defines(g, k + 1)
    <3>. HIDE DEF g
    <3>. QED
      BY <2>5, <2>6
  <2>8. \E h : Defines(h, k + 1)
    <3>. HIDE DEF g
    <3>. QED
      BY <2>7
  <2>. HIDE DEF Defines
  <2>. QED
    BY <2>8
<1>3. Nat \subseteq T
  <2>. HIDE DEF T
  <2>. QED
    BY <1>1, <1>2, CountingUp
<1>. DEFINE w == Trees(n, entries, ps)
<1>4. Defines(w, Len(ps))
  BY <1>3 DEF Trees
<1>. HIDE DEF w
<1>5. w[0] = Step(w, 0)
  BY <1>4
<1>6. \A i \in 1..Len(ps) : w[i] = Step(w, i) /\ i # 0
  BY <1>4
<1>. QED
  BY <1>5, <1>6 DEF TreeStep, w

(* The tree that mirrored the old entries mirrors the new ones, when the   *)
(* records ps were made anew.                                              *)
LEMMA TreeAfterIs ==
  ASSUME NEW n, Good(tree[n]), NEW old, NEW entries, NEW ps \in Seq(Path),
         \A p \in Path : Mirrors(tree[n], p, old[p]),
         \A i \in 1..Len(ps) : Recordable(entries[ps[i]]),
         \A p \in Path : entries[p] = old[p] \/ \E i \in 1..Len(ps) : ps[i] = p,
         NEW u, u = TreeAfter(n, entries, ps)
  PROVE  Good(u) /\ \A p \in Path : Mirrors(u, p, entries[p])
<1>. DEFINE f == Trees(n, entries, ps)
            Half(k, p) == \/ Mirrors(f[k], p, entries[p])
                          \/ Mirrors(f[k], p, old[p]) /\ \A i \in 1..k : ps[i] # p
            T == {k \in Nat : k <= Len(ps) => Good(f[k]) /\ \A p \in Path : Half(k, p)}
<1>1. Len(ps) \in Nat
  OBVIOUS
<1>2. /\ f[0] = tree[n]
      /\ \A i \in 1..Len(ps) : f[i] = Recorded(entries, f[i - 1], ps[i])
  BY <1>1, TreesAre
<1>3. u = f[Len(ps)]
  BY InTurn
<1>. HIDE DEF f
<1>4. 0 \in T
  BY <1>2
<1>5. ASSUME NEW k \in Nat, k \in T
      PROVE  k + 1 \in T
  <2>. SUFFICES ASSUME k + 1 <= Len(ps)
                PROVE  Good(f[k + 1]) /\ \A p \in Path : Half(k + 1, p)
    OBVIOUS
  <2>. DEFINE x == ps[k + 1]
  <2>1. Good(f[k]) /\ \A p \in Path : Half(k, p)
    BY <1>1, <1>5
  <2>2. k + 1 \in 1..Len(ps) /\ (k + 1) - 1 = k
    BY <1>1
  <2>3. f[k + 1] = Recorded(entries, f[k], x)
    BY <1>2, <2>2
  <2>4. x \in Path /\ Recordable(entries[x])
    BY <2>2
  <2>. HIDE DEF x
  <2>5. /\ Good(f[k + 1]) /\ Mirrors(f[k + 1], x, entries[x])
        /\ \A q \in Path \ {x} : SameLeaf(f[k + 1], f[k], q)
    BY <2>1, <2>3, <2>4, RecordedIs
  <2>6. ASSUME NEW p \in Path, p # x
        PROVE  Half(k + 1, p)
    <3>1. SameLeaf(f[k + 1], f[k], p)
      BY <2>5, <2>6
    <3>2. CASE Mirrors(f[k], p, entries[p])
      BY <3>1, <3>2, LeafMirrors
    <3>3. CASE Mirrors(f[k], p, old[p]) /\ \A i \in 1..k : ps[i] # p
      <4>1. \A i \in 1..(k + 1) : i \in 1..k \/ i = k + 1
        OBVIOUS
      <4>2. \A i \in 1..(k + 1) : ps[i] # p
        BY <2>6, <3>3, <4>1 DEF x
      <4>3. Mirrors(f[k + 1], p, old[p])
        BY <3>1, <3>3, LeafMirrors
      <4>. QED
        BY <4>2, <4>3
    <3>. QED
      BY <2>1, <3>2, <3>3
  <2>. HIDE DEF Half
  <2>7. Half(k + 1, x)
    BY <2>5 DEF Half
  <2>. QED
    BY <2>5, <2>6, <2>7
<1>6. Len(ps) \in T
  <2>1. Nat \subseteq T
    <3>. HIDE DEF T
    <3>. QED
      BY <1>4, <1>5, CountingUp
  <2>. QED
    BY <1>1, <2>1
<1>7. Good(u) /\ \A p \in Path : Half(Len(ps), p)
  BY <1>1, <1>3, <1>6
<1>8. ASSUME NEW p \in Path
      PROVE  Mirrors(u, p, entries[p])
  <2>1. CASE Mirrors(f[Len(ps)], p, entries[p])
    BY <1>3, <2>1
  <2>2. CASE Mirrors(f[Len(ps)], p, old[p]) /\ \A i \in 1..Len(ps) : ps[i] # p
    <3>1. entries[p] = old[p]
      BY <2>2
    <3>. QED
      BY <1>3, <2>2, <3>1
  <2>. QED
    BY <1>7, <2>1, <2>2
<1>. QED
  BY <1>7, <1>8

-----------------------------------------------------------------------------
(* What goes with the trees *)

(* The sequence of a finite set has all of its elements.                   *)
LEMMA SetToSeqAll ==
  ASSUME NEW S, IsFiniteSet(S)
  PROVE  /\ SetToSeq(S) \in Seq(S)
         /\ \A x \in S : \E i \in 1..Len(SetToSeq(S)) : SetToSeq(S)[i] = x
<1>. DEFINE n == Cardinality(S)
            s == SetToSeq(S)
<1>1. n \in Nat /\ ExistsBijection(1..n, S)
  BY FS_CardinalityType
<1>2. \E f \in [1..n -> S] : IsInjective(f)
  BY <1>1 DEF ExistsBijection, Bijection, Injection, IsInjective
<1>3. s \in [1..n -> S] /\ IsInjective(s)
  BY <1>2 DEF SetToSeq
<1>. HIDE DEF s
<1>4. s \in Seq(S) /\ Len(s) = n
  <2>. HIDE DEF n
  <2>. QED
    BY <1>1, <1>3
<1>5. IsFiniteSet(1..n) /\ Cardinality(1..n) = n
  <2>. HIDE DEF n
  <2>. QED
    BY <1>1, FS_Interval
<1>6. s \in Injection(1..n, S)
  <2>. HIDE DEF n
  <2>. QED
    BY <1>3 DEF Injection
<1>7. s \in Surjection(1..n, S)
  BY <1>5, <1>6, FS_Injection
<1>8. \A x \in S : \E i \in 1..n : s[i] = x
  <2>. HIDE DEF n
  <2>. QED
    BY <1>7 DEF Surjection
<1>. HIDE DEF n
<1>. QED
  BY <1>4, <1>8 DEF s

(* An order of a finite set has all of its elements.                       *)
LEMMA OrderAll ==
  ASSUME NEW S, IsFiniteSet(S), NEW o \in SetToSeqs(S)
  PROVE  o \in Seq(S) /\ \A x \in S : \E i \in 1..Len(o) : o[i] = x
<1>. DEFINE n == Cardinality(S)
<1>1. n \in Nat
  BY FS_CardinalityType
<1>2. o \in [1..n -> S] /\ \A i, j \in 1..n : i # j => o[i] # o[j]
  BY DEF SetToSeqs
<1>3. o \in Seq(S) /\ Len(o) = n
  <2>. HIDE DEF n
  <2>. QED
    BY <1>1, <1>2
<1>4. IsFiniteSet(1..n) /\ Cardinality(1..n) = n
  <2>. HIDE DEF n
  <2>. QED
    BY <1>1, FS_Interval
<1>5. o \in Injection(1..n, S)
  <2>. HIDE DEF n
  <2>. QED
    BY <1>2 DEF Injection, IsInjective
<1>6. o \in Surjection(1..n, S)
  BY <1>4, <1>5, FS_Injection
<1>7. \A x \in S : \E i \in 1..n : o[i] = x
  <2>. HIDE DEF n
  <2>. QED
    BY <1>6 DEF Surjection
<1>. HIDE DEF n
<1>. QED
  BY <1>3, <1>7

LEMMA NodesFinite == IsFiniteSet(Node)
<1>1. ASSUME NEW p \in Path
      PROVE  IsFiniteSet(Prefixes(p))
  <2>. DEFINE f == [l \in 0..Len(p) |-> SubSeq(p, 1, l)]
  <2>1. Len(p) \in Nat
    BY PathsAssumption
  <2>2. IsFiniteSet(0..Len(p))
    BY <2>1, FS_Interval
  <2>3. f \in Surjection(0..Len(p), Prefixes(p))
    BY DEF Surjection, Prefixes
  <2>. QED
    BY <2>2, <2>3, FS_Surjection
<1>2. IsFiniteSet({Prefixes(p) : p \in Path})
  <2>. DEFINE f == [p \in Path |-> Prefixes(p)]
  <2>1. f \in Surjection(Path, {Prefixes(p) : p \in Path})
    BY DEF Surjection
  <2>. QED
    BY <2>1, PathAssumption, FS_Surjection
<1>3. IsFiniteSet(UNION {Prefixes(p) : p \in Path})
  BY <1>1, <1>2, FS_UNION
<1>. QED
  BY <1>3, FS_Singleton, FS_Union, Zenon DEF Node

(* What a negotiation sees of a node: a tombstone or a live file has the   *)
(* path of a file.                                                         *)
StateOK(p, s) ==
  /\ IsTombstone(s) => p \in Path /\ s.deletedAt \in Int /\ ~IsLive(s)
  /\ IsLive(s) /\ ~s.isDirectory => p \in Path

DeletionTime == Int \ {NoTime}

(* What is decided of a path that is not a file's concerns what is below.  *)
DecidedOK(ds) ==
  /\ DOMAIN ds \subseteq Node
  /\ \A p \in DOMAIN ds :
       /\ ds[p].isFile => p \in Path
       /\ ds[p].bucket \in {"DeletionWinsLeft", "DeletionWinsRight"}
            => p \in Path /\ ds[p].time \in DeletionTime

TimesOK(gone) == DOMAIN gone \subseteq Path /\ \A p \in DOMAIN gone : gone[p] \in DeletionTime

ToServerOK(m) ==
  /\ m.type = "uploadRequest" => m \in UploadMsg
  /\ m.type = "chunk" => m \in ChunkMsg
  /\ m.type = "downloadRequest" => m.path \in Path
  /\ m.type = "deleteRequest" => m.path \in Path /\ m.time \in DeletionTime

ListsOK(lists) ==
  \A q \in DOMAIN lists : \A p \in DOMAIN lists[q] :
    p \in Node /\ p # <<>> /\ Parent(p) = q /\ StateOK(p, lists[q][p].state)

DirectoryMsg == [type : {"directory"}, entries : [Path -> Entry]]

ToDeviceOK(m) ==
  /\ m.type = "negotiated" => ListsOK(m.lists)
  /\ m.type = "directory" => m \in DirectoryMsg
  /\ m.type = "uploadSize" => m.path \in Path
  /\ m.type = "download" => m \in DownloadedMsg /\ m.mtime # NoTime
  /\ m.type = "deleteAnswer" => m \in DeleteAnswerMsg

ServerTyped ==
  /\ store \in [Path -> Int]
  /\ index \in [Path -> Entry]
  /\ uploadMeta \in [Device -> [Path -> Meta]]

FilesTimed == now \in Nat /\ \A d \in Device, p \in Path : Present(fs[d][p]) => fs[d][p].mtime # NoTime

ToServerCarries(link) == \E S : link \in [Device -> Seq(S)] /\ \A m \in S : ToServerOK(m)

ToDeviceCarries(link) == \E S : link \in [Device -> Seq(S)] /\ \A m \in S : ToDeviceOK(m)

LinksOK == ToServerCarries(toServer) /\ ToDeviceCarries(toDevice)

DescentOK ==
  /\ DOMAIN decided = Device /\ \A d \in Device : DecidedOK(decided[d])
  /\ DOMAIN commandsToSend = Device /\ \A d \in Device : TimesOK(commandsToSend[d])

(* Of every process, running or not.                                       *)
TreesOK ==
  /\ DOMAIN tree = Device \cup {Server}
  /\ \A n \in Device \cup {Server} :
       Good(tree[n]) /\ \A p \in Path : Mirrors(tree[n], p, EntriesOf(n)[p])

StoresOK == DevicesOK /\ FilesTimed /\ ServerTyped

TInv == StoresOK /\ LinksOK /\ DescentOK /\ TreesOK

-----------------------------------------------------------------------------
(* The trees when records are made *)

EntriesNext(n) == IF n = Server THEN index' ELSE db'[n]

(* The records ps that are made anew, in this order, have all that changed. *)
CoversChange(ps, entries, old) ==
  /\ ps \in Seq(Path)
  /\ \A i \in 1..Len(ps) : Recordable(entries[ps[i]])
  /\ \A p \in Path : entries[p] = old[p] \/ \E i \in 1..Len(ps) : ps[i] = p

(* The process n, and no other, has made its records anew.                 *)
RecordsMade(n, entries, ps) ==
  /\ CoversChange(ps, entries, EntriesOf(n))
  /\ tree' = [tree EXCEPT ![n] = TreeAfter(n, entries, ps)]
  /\ EntriesNext(n) = entries
  /\ \A k \in (Device \cup {Server}) \ {n} : EntriesNext(k) = EntriesOf(k)

LEMMA RecordsKeep ==
  ASSUME TreesOK, NEW n \in Device \cup {Server}, NEW entries, NEW ps,
         RecordsMade(n, entries, ps)
  PROVE  TreesOK'
<1>. DEFINE u == TreeAfter(n, entries, ps)
<1>1. Good(tree[n]) /\ \A p \in Path : Mirrors(tree[n], p, EntriesOf(n)[p])
  BY DEF TreesOK
<1>2. Good(u) /\ \A p \in Path : Mirrors(u, p, entries[p])
  <2>. DEFINE old == EntriesOf(n)
  <2>1. \A p \in Path : Mirrors(tree[n], p, old[p])
    BY <1>1
  <2>2. /\ \A p \in Path : entries[p] = old[p] \/ \E i \in 1..Len(ps) : ps[i] = p
        /\ \A i \in 1..Len(ps) : Recordable(entries[ps[i]])
        /\ ps \in Seq(Path)
    BY DEF RecordsMade, CoversChange
  <2>. HIDE DEF old
  <2>. QED
    BY <1>1, <2>1, <2>2, TreeAfterIs
<1>. HIDE DEF u
<1>3. DOMAIN tree' = Device \cup {Server} /\ tree'[n] = u
      /\ \A k \in (Device \cup {Server}) \ {n} : tree'[k] = tree[k]
  BY DEF TreesOK, RecordsMade, u
<1>4. ASSUME NEW k \in Device \cup {Server}
      PROVE  Good(tree'[k]) /\ \A p \in Path : Mirrors(tree'[k], p, EntriesNext(k)[p])
  <2>1. CASE k = n
    BY <1>2, <1>3, <2>1 DEF RecordsMade
  <2>2. CASE k # n
    BY <1>3, <2>2 DEF TreesOK, RecordsMade
  <2>. QED
    BY <2>1, <2>2
<1>. QED
  BY <1>3, <1>4 DEF TreesOK, EntriesOf, EntriesNext

LEMMA TreesStay ==
  ASSUME TreesOK, UNCHANGED <<tree, db, index>>
  PROVE  TreesOK'
BY DEF TreesOK, EntriesOf

(* Exactly what changed is recorded.                                       *)
ChangesMade(n, entries) ==
  /\ \A p \in Path : Recordable(entries[p]) \/ entries[p] = EntriesOf(n)[p]
  /\ tree' = [tree EXCEPT ![n] =
                TreeAfter(n, entries, SetToSeq(Changed(EntriesOf(n), entries)))]
  /\ EntriesNext(n) = entries
  /\ \A k \in (Device \cup {Server}) \ {n} : EntriesNext(k) = EntriesOf(k)

LEMMA ChangesKeep ==
  ASSUME TreesOK, NEW n \in Device \cup {Server}, NEW entries, ChangesMade(n, entries)
  PROVE  TreesOK'
<1>. DEFINE S  == Changed(EntriesOf(n), entries)
            ps == SetToSeq(S)
<1>1. S \subseteq Path /\ \A p \in Path : p \in S <=> EntriesOf(n)[p] # entries[p]
  BY DEF Changed
<1>2. tree' = [tree EXCEPT ![n] = TreeAfter(n, entries, ps)]
  BY DEF ChangesMade
<1>. HIDE DEF S
<1>3. IsFiniteSet(S)
  BY <1>1, PathAssumption, FS_Subset
<1>4. ps \in Seq(S) /\ \A x \in S : \E i \in 1..Len(ps) : ps[i] = x
  BY <1>3, SetToSeqAll
<1>. HIDE DEF ps
<1>5. ps \in Seq(Path) /\ \A i \in 1..Len(ps) : ps[i] \in S
  BY <1>1, <1>4
<1>6. \A i \in 1..Len(ps) : Recordable(entries[ps[i]])
  BY <1>1, <1>5 DEF ChangesMade
<1>7. \A p \in Path : entries[p] = EntriesOf(n)[p] \/ \E i \in 1..Len(ps) : ps[i] = p
  BY <1>1, <1>4
<1>8. RecordsMade(n, entries, ps)
  BY <1>2, <1>5, <1>6, <1>7 DEF RecordsMade, CoversChange, ChangesMade
<1>. QED
  BY <1>8, RecordsKeep

LEMMA DeviceEntries ==
  ASSUME DevicesOK, NEW d \in Device, NEW e, db' = [db EXCEPT ![d] = e], index' = index
  PROVE  /\ EntriesNext(d) = e /\ EntriesOf(d) = db[d]
         /\ \A k \in (Device \cup {Server}) \ {d} : EntriesNext(k) = EntriesOf(k)
BY ServerAssumption DEF DevicesOK, EntriesNext, EntriesOf

LEMMA ServerEntries ==
  ASSUME db' = db
  PROVE  /\ EntriesNext(Server) = index' /\ EntriesOf(Server) = index
         /\ \A k \in (Device \cup {Server}) \ {Server} : EntriesNext(k) = EntriesOf(k)
BY DEF EntriesNext, EntriesOf

-----------------------------------------------------------------------------
(* Links *)

LEMMA ServerLinkKeeps ==
  ASSUME NEW link, ToServerCarries(link), NEW d \in Device
  PROVE  /\ \A T : \A s \in Seq(T) : (\A m \in T : ToServerOK(m))
              => ToServerCarries([link EXCEPT ![d] = @ \o s])
         /\ \A m : ToServerOK(m) => ToServerCarries([link EXCEPT ![d] = Append(@, m)])
         /\ link[d] # <<>> => /\ ToServerOK(Head(link[d]))
                              /\ ToServerCarries([link EXCEPT ![d] = Tail(@)])
<1>1. PICK S : link \in [Device -> Seq(S)] /\ \A m \in S : ToServerOK(m)
  BY DEF ToServerCarries
<1>2. ASSUME NEW T, NEW s \in Seq(T), \A m \in T : ToServerOK(m)
      PROVE  ToServerCarries([link EXCEPT ![d] = @ \o s])
  <2>. DEFINE U == S \cup T
  <2>1. link \in [Device -> Seq(U)] /\ s \in Seq(U) /\ \A m \in U : ToServerOK(m)
    BY <1>1, <1>2
  <2>. HIDE DEF U
  <2>2. link[d] \o s \in Seq(U)
    BY <2>1
  <2>3. [link EXCEPT ![d] = @ \o s] \in [Device -> Seq(U)]
    BY <2>1, <2>2
  <2>. QED
    BY <2>1, <2>3 DEF ToServerCarries
<1>3. ASSUME NEW m, ToServerOK(m)
      PROVE  ToServerCarries([link EXCEPT ![d] = Append(@, m)])
  <2>. DEFINE U == S \cup {m}
  <2>1. link \in [Device -> Seq(U)] /\ m \in U /\ \A x \in U : ToServerOK(x)
    BY <1>1, <1>3
  <2>. HIDE DEF U
  <2>2. [link EXCEPT ![d] = Append(@, m)] \in [Device -> Seq(U)]
    BY <2>1, Sending
  <2>. QED
    BY <2>1, <2>2 DEF ToServerCarries
<1>4. ASSUME link[d] # <<>>
      PROVE  ToServerOK(Head(link[d])) /\ ToServerCarries([link EXCEPT ![d] = Tail(@)])
  <2>1. Head(link[d]) \in S /\ Tail(link[d]) \in Seq(S)
    BY <1>1, <1>4, HeadTailProperties
  <2>2. [link EXCEPT ![d] = Tail(@)] \in [Device -> Seq(S)]
    BY <1>1, <2>1
  <2>. QED
    BY <1>1, <2>1, <2>2 DEF ToServerCarries
<1>. QED
  BY <1>2, <1>3, <1>4

LEMMA DeviceLinkKeeps ==
  ASSUME NEW link, ToDeviceCarries(link), NEW d \in Device
  PROVE  /\ \A m : ToDeviceOK(m) => ToDeviceCarries([link EXCEPT ![d] = Append(@, m)])
         /\ link[d] # <<>> => /\ ToDeviceOK(Head(link[d]))
                              /\ ToDeviceCarries([link EXCEPT ![d] = Tail(@)])
<1>1. PICK S : link \in [Device -> Seq(S)] /\ \A m \in S : ToDeviceOK(m)
  BY DEF ToDeviceCarries
<1>3. ASSUME NEW m, ToDeviceOK(m)
      PROVE  ToDeviceCarries([link EXCEPT ![d] = Append(@, m)])
  <2>. DEFINE U == S \cup {m}
  <2>1. link \in [Device -> Seq(U)] /\ m \in U /\ \A x \in U : ToDeviceOK(x)
    BY <1>1, <1>3
  <2>. HIDE DEF U
  <2>2. [link EXCEPT ![d] = Append(@, m)] \in [Device -> Seq(U)]
    BY <2>1, Sending
  <2>. QED
    BY <2>1, <2>2 DEF ToDeviceCarries
<1>4. ASSUME link[d] # <<>>
      PROVE  ToDeviceOK(Head(link[d])) /\ ToDeviceCarries([link EXCEPT ![d] = Tail(@)])
  <2>1. Head(link[d]) \in S /\ Tail(link[d]) \in Seq(S)
    BY <1>1, <1>4, HeadTailProperties
  <2>2. [link EXCEPT ![d] = Tail(@)] \in [Device -> Seq(S)]
    BY <1>1, <2>1
  <2>. QED
    BY <1>1, <2>1, <2>2 DEF ToDeviceCarries
<1>. QED
  BY <1>3, <1>4

-----------------------------------------------------------------------------
(* Before anything happened *)

LEMMA TreesInit == MerkleInit => TInv
<1> SUFFICES ASSUME MerkleInit PROVE TInv
  OBVIOUS
<1>0. Untracked \in Entry /\ ~Tracked(Untracked)
  BY DEF Untracked, Tracked, Entry, NoTime, NoHash
<1>1. StoresOK
  BY <1>0 DEF MerkleInit, Init, StoresOK, DevicesOK, FilesTimed, ServerTyped, FileState, Gone,
     Meta, Present
<1>2. LinksOK
  <2>. DEFINE none == {}
  <2>1. /\ toServer \in [Device -> Seq(none)] /\ toDevice \in [Device -> Seq(none)]
        /\ \A m \in none : ToServerOK(m) /\ ToDeviceOK(m)
    BY DEF MerkleInit, Init
  <2>. HIDE DEF none
  <2>. QED
    BY <2>1 DEF LinksOK, ToServerCarries, ToDeviceCarries
<1>3. DescentOK
  <2>. DEFINE none == <<>>
  <2>1. DOMAIN none = {}
    OBVIOUS
  <2>2. DOMAIN decided = Device /\ DOMAIN commandsToSend = Device
        /\ \A d \in Device : decided[d] = none /\ commandsToSend[d] = none
    BY DEF MerkleInit
  <2>. HIDE DEF none
  <2>. QED
    BY <2>1, <2>2 DEF DescentOK, DecidedOK, TimesOK
<1>4. TreesOK
  <2>1. DOMAIN tree = Device \cup {Server}
        /\ \A n \in Device \cup {Server} : tree[n] = NewTree
    BY DEF MerkleInit
  <2>2. \A n \in Device \cup {Server}, p \in Path : ~Tracked(EntriesOf(n)[p])
    BY <1>0 DEF MerkleInit, Init, EntriesOf
  <2>. QED
    BY <2>1, <2>2, NewTreeIs DEF TreesOK, Mirrors
<1>. QED
  BY <1>1, <1>2, <1>3, <1>4 DEF TInv

-----------------------------------------------------------------------------
(* The user and the tick *)

LEMMA UserKeepsTrees ==
  ASSUME TInv, NEW d \in Device, NEW p \in Path, Write(d, p) \/ Delete(d, p),
         UNCHANGED merkleVars
  PROVE  TInv'
<1>1. UNCHANGED <<tree, decided, commandsToSend, db, index, store, uploadMeta, toServer, toDevice>>
  BY DEF Write, Delete, merkleVars, serverVars, netVars
<1>2. StoresOK'
  <2>1. CASE Write(d, p)
    <3>. DEFINE f == [content |-> edits + 1, mtime |-> now + 1]
    <3>1. f \in FileState /\ f.mtime # NoTime
      BY DEF TInv, StoresOK, DevicesOK, FilesTimed, FileState, Gone, NoTime
    <3>2. /\ now' = now + 1 /\ edits' = edits + 1
          /\ fs' = [fs EXCEPT ![d][p] = f]
      BY <2>1 DEF Write
    <3>. HIDE DEF f
    <3>3. DevicesOK'
      BY <1>1, <3>1, <3>2 DEF TInv, StoresOK, DevicesOK
    <3>4. FilesTimed'
      BY <3>1, <3>2 DEF TInv, StoresOK, DevicesOK, FilesTimed
    <3>. QED
      BY <1>1, <3>3, <3>4 DEF TInv, StoresOK, ServerTyped
  <2>2. CASE Delete(d, p)
    <3>1. /\ now' = now + 1 /\ edits' = edits + 1
          /\ fs' = [fs EXCEPT ![d][p] = NoFile]
      BY <2>2 DEF Delete
    <3>2. DevicesOK'
      BY <1>1, <3>1 DEF TInv, StoresOK, DevicesOK, FileState
    <3>3. FilesTimed'
      BY <3>1 DEF TInv, StoresOK, DevicesOK, FilesTimed, Present
    <3>. QED
      BY <1>1, <3>2, <3>3 DEF TInv, StoresOK, ServerTyped
  <2>. QED
    BY <2>1, <2>2
<1>3. LinksOK' /\ DescentOK'
  BY <1>1 DEF TInv, LinksOK, DescentOK
<1>4. TreesOK'
  BY <1>1, TreesStay DEF TInv
<1>. QED
  BY <1>2, <1>3, <1>4 DEF TInv

(* What the scan records of a path that has changed is a file or a         *)
(* deletion.                                                               *)
LEMMA ScanRecords ==
  ASSUME DevicesOK, FilesTimed, NEW d \in Device, NEW p \in Path, Scanned(d)[p] # db[d][p]
  PROVE  Recordable(Scanned(d)[p])
<1>1. CASE Present(fs[d][p]) /\ fs[d][p].mtime # db[d][p].mtime
  <2>1. fs[d][p].mtime # NoTime
    BY <1>1 DEF FilesTimed
  <2>2. Scanned(d)[p].mtime = fs[d][p].mtime
    <3>1. Scanned(d)[p] = RecordFile(db[d][p], fs[d][p].mtime, fs[d][p].content)
      BY <1>1 DEF Scanned
    <3>2. db[d][p] \in Entry
      BY DEF DevicesOK
    <3>. QED
      BY <3>1, <3>2 DEF RecordFile, Entry
  <2>. QED
    BY <2>1, <2>2 DEF Recordable, Tracked
<1>2. CASE ~(Present(fs[d][p]) /\ fs[d][p].mtime # db[d][p].mtime)
  <2>1. Scanned(d)[p] = RecordDeletion(db[d][p],
                          IF db[d][p].tomb # NoTime THEN db[d][p].tomb ELSE now + 1)
    BY <1>2 DEF Scanned
  <2>2. now + 1 # NoTime
    BY DEF FilesTimed, NoTime
  <2>. QED
    BY <2>1, <2>2 DEF RecordDeletion, Recordable
<1>. QED
  BY <1>1, <1>2

ScanOrder(changed, new, modified, rest, order, ps) ==
  /\ changed = new \cup modified \cup rest
  /\ order \in SetToSeqs(new)
  /\ ps = order \o SetToSeq(modified) \o SetToSeq(rest)

(* A scan records what it finds, in any order of the new files.            *)
LEMMA ScanOrders ==
  ASSUME DevicesOK, FilesTimed, NEW d \in Device,
         NEW new, NEW modified, NEW rest, NEW order, NEW ps,
         ScanOrder(Changed(db[d], Scanned(d)), new, modified, rest, order, ps)
  PROVE  CoversChange(ps, Scanned(d), db[d])
<1>. DEFINE C == Changed(db[d], Scanned(d))
            s == SetToSeq(modified)
            r == SetToSeq(rest)
<1>1. C \subseteq Path /\ \A p \in Path : p \in C <=> Scanned(d)[p] # db[d][p]
  BY DEF Changed
<1>2. new \cup modified \cup rest = C /\ new \subseteq C /\ modified \subseteq C /\ rest \subseteq C
  BY DEF ScanOrder
<1>. HIDE DEF C
<1>3. IsFiniteSet(new) /\ IsFiniteSet(modified) /\ IsFiniteSet(rest)
  <2>1. IsFiniteSet(C)
    BY <1>1, PathAssumption, FS_Subset
  <2>. QED
    BY <1>2, <2>1, FS_Subset
<1>4. /\ order \in Seq(new) /\ \A x \in new : \E i \in 1..Len(order) : order[i] = x
      /\ s \in Seq(modified) /\ \A x \in modified : \E i \in 1..Len(s) : s[i] = x
      /\ r \in Seq(rest) /\ \A x \in rest : \E i \in 1..Len(r) : r[i] = x
  <2>1. order \in Seq(new) /\ \A x \in new : \E i \in 1..Len(order) : order[i] = x
    BY <1>3, OrderAll DEF ScanOrder
  <2>2. s \in Seq(modified) /\ \A x \in modified : \E i \in 1..Len(s) : s[i] = x
    BY <1>3, SetToSeqAll
  <2>3. r \in Seq(rest) /\ \A x \in rest : \E i \in 1..Len(r) : r[i] = x
    BY <1>3, SetToSeqAll
  <2>. QED
    BY <2>1, <2>2, <2>3
<1>5. ps = (order \o s) \o r
  BY DEF ScanOrder
<1>. HIDE DEF s, r
<1>6. order \in Seq(C) /\ s \in Seq(C) /\ r \in Seq(C)
  BY <1>2, <1>4
<1>7. LET os == order \o s IN
      /\ os \in Seq(C)
      /\ Len(os) = Len(order) + Len(s)
      /\ \A i \in 1..Len(order) : os[i] = order[i]
      /\ \A i \in 1..Len(s) : os[Len(order) + i] = s[i]
  BY <1>6
<1>. DEFINE os == order \o s
<1>8. \A x \in new \cup modified : \E i \in 1..Len(os) : os[i] = x
  <2>1. ASSUME NEW x \in new
        PROVE  \E i \in 1..Len(os) : os[i] = x
    <3>1. PICK i \in 1..Len(order) : order[i] = x
      BY <1>4
    <3>2. i \in 1..Len(os)
      BY <1>6, <1>7
    <3>. QED
      BY <1>7, <3>1, <3>2
  <2>2. ASSUME NEW x \in modified
        PROVE  \E i \in 1..Len(os) : os[i] = x
    <3>1. PICK i \in 1..Len(s) : s[i] = x
      BY <1>4
    <3>2. Len(order) + i \in 1..Len(os)
      BY <1>6, <1>7
    <3>. QED
      BY <1>7, <3>1, <3>2
  <2>. QED
    BY <2>1, <2>2
<1>9. os \in Seq(C) /\ ps = os \o r
  BY <1>5, <1>7
<1>. HIDE DEF os
<1>10. /\ ps \in Seq(C)
       /\ Len(ps) = Len(os) + Len(r)
       /\ \A i \in 1..Len(os) : ps[i] = os[i]
       /\ \A i \in 1..Len(r) : ps[Len(os) + i] = r[i]
  BY <1>6, <1>9
<1>11. \A x \in C : \E i \in 1..Len(ps) : ps[i] = x
  <2>1. ASSUME NEW x \in new \cup modified
        PROVE  \E i \in 1..Len(ps) : ps[i] = x
    <3>1. PICK i \in 1..Len(os) : os[i] = x
      BY <1>8, <2>1
    <3>2. i \in 1..Len(ps)
      BY <1>6, <1>9, <1>10
    <3>. QED
      BY <1>10, <3>1, <3>2
  <2>2. ASSUME NEW x \in rest
        PROVE  \E i \in 1..Len(ps) : ps[i] = x
    <3>1. PICK i \in 1..Len(r) : r[i] = x
      BY <1>4
    <3>2. Len(os) + i \in 1..Len(ps)
      BY <1>6, <1>9, <1>10
    <3>. QED
      BY <1>10, <3>1, <3>2
  <2>. QED
    BY <1>2, <2>1, <2>2
<1>12. \A i \in 1..Len(ps) : ps[i] \in C
  BY <1>10
<1>13. ps \in Seq(Path)
  BY <1>1, <1>10
<1>. QED
  BY <1>1, <1>11, <1>12, <1>13, ScanRecords DEF CoversChange

LEMMA TickKeepsTrees ==
  ASSUME TInv, NEW d \in Device, MerkleTick(d)
  PROVE  TInv'
<1>1. UNCHANGED <<edits, fs, store, index, uploadMeta, toDevice, commandsToSend>>
  BY DEF MerkleTick, serverVars
<1>2. CASE UNCHANGED <<now, db, tree, decided, toServer>>
  <2>1. StoresOK'
    BY <1>1, <1>2 DEF TInv, StoresOK, DevicesOK, FilesTimed, ServerTyped
  <2>2. LinksOK' /\ DescentOK'
    BY <1>1, <1>2 DEF TInv, LinksOK, DescentOK
  <2>3. TreesOK'
    BY <1>1, <1>2, TreesStay DEF TInv
  <2>. QED
    BY <2>1, <2>2, <2>3 DEF TInv
<1>3. CASE ScanNegotiates(d)
  <2>. DEFINE new == {p \in Changed(db[d], Scanned(d)) : ~Tracked(db[d][p])}
              modified == {p \in Changed(db[d], Scanned(d)) \ new : Tracked(Scanned(d)[p])}
              rest == Changed(db[d], Scanned(d)) \ (new \cup modified)
  <2>1. /\ db' = [db EXCEPT ![d] = Scanned(d)]
        /\ now' = now \/ now' = now + 1
    BY <1>3 DEF ScanNegotiates, ScanAndApply
  <2>2. PICK order \in SetToSeqs(new) :
          Follow(d, Scanned(d), order \o SetToSeq(modified) \o SetToSeq(rest))
    BY <1>3 DEF ScanNegotiates
  <2>3. new \cup modified \cup rest = Changed(db[d], Scanned(d))
    OBVIOUS
  <2>. HIDE DEF new, modified, rest
  <2>4. Scanned(d) \in [Path -> Entry]
    BY ScannedEntries DEF TInv, StoresOK
  <2>5. TreesOK'
    <3>. DEFINE ps == order \o SetToSeq(modified) \o SetToSeq(rest)
                e  == Scanned(d)
    <3>0. ps = order \o SetToSeq(modified) \o SetToSeq(rest)
      OBVIOUS
    <3>. HIDE DEF ps
    <3>1. CoversChange(ps, e, db[d])
      <4>1. DevicesOK /\ FilesTimed
        BY DEF TInv, StoresOK
      <4>2. ScanOrder(Changed(db[d], Scanned(d)), new, modified, rest, order, ps)
        BY <2>3, <3>0 DEF ScanOrder
      <4>. QED
        BY <4>1, <4>2, ScanOrders
    <3>2. tree' = [tree EXCEPT ![d] = TreeAfter(d, e, ps)]
      BY <2>2 DEF Follow, ps
    <3>3. db' = [db EXCEPT ![d] = e]
      BY <2>1
    <3>. HIDE DEF e
    <3>4. /\ EntriesNext(d) = e /\ EntriesOf(d) = db[d]
          /\ \A k \in (Device \cup {Server}) \ {d} : EntriesNext(k) = EntriesOf(k)
      BY <1>1, <3>3, DeviceEntries DEF TInv, StoresOK
    <3>5. RecordsMade(d, e, ps)
      BY <3>1, <3>2, <3>4 DEF RecordsMade
    <3>. QED
      BY <3>5, RecordsKeep DEF TInv
  <2>6. StoresOK'
    BY <1>1, <2>1, <2>4 DEF TInv, StoresOK, DevicesOK, FilesTimed, ServerTyped
  <2>7. DescentOK'
    <3>. DEFINE none == <<>>
    <3>1. decided' = [decided EXCEPT ![d] = none]
      BY <1>3 DEF ScanNegotiates
    <3>2. DecidedOK(none)
      <4>1. DOMAIN none = {}
        OBVIOUS
      <4>. HIDE DEF none
      <4>. QED
        BY <4>1 DEF DecidedOK
    <3>. HIDE DEF none
    <3>. QED
      BY <1>1, <3>1, <3>2 DEF TInv, DescentOK
  <2>8. LinksOK'
    <3>. DEFINE m == StartNegotiation(d)
    <3>1. toServer' = toServer \/ toServer' = [toServer EXCEPT ![d] = Append(@, m)]
      BY <1>3 DEF ScanNegotiates
    <3>2. ToServerOK(m)
      BY DEF StartNegotiation, ToServerOK
    <3>. HIDE DEF m
    <3>3. ToServerCarries(toServer')
      <4>1. ToServerCarries(toServer)
        BY DEF TInv, LinksOK
      <4>2. ToServerCarries([toServer EXCEPT ![d] = Append(@, m)])
        BY <3>2, <4>1, ServerLinkKeeps, Zenon
      <4>. QED
        BY <3>1, <4>1, <4>2
    <3>. QED
      BY <1>1, <3>3 DEF TInv, LinksOK
  <2>. QED
    BY <2>5, <2>6, <2>7, <2>8 DEF TInv
<1>. QED
  BY <1>2, <1>3 DEF MerkleTick

-----------------------------------------------------------------------------
(* What a listing shows *)

(* A node of a tree that mirrors the records is in one of the states a     *)
(* negotiation expects.                                                    *)
LEMMA NodeStateOK ==
  ASSUME NEW t, Good(t), NEW entries \in [Path -> Entry],
         \A p \in Path : Mirrors(t, p, entries[p]), NEW q
  PROVE  StateOK(q, NodeState(t, q))
<1>1. CASE q \notin DOMAIN t
  BY <1>1 DEF NodeState, Absent, StateOK, IsTombstone, IsLive
<1>2. CASE q \in DOMAIN t /\ IsDeleted(t[q])
  <2>1. q \in Path
    BY <1>2 DEF Good, Shape, NodeOK
  <2>2. t[q].deletedAt = entries[q].tomb
    BY <1>2, <2>1 DEF Mirrors
  <2>3. t[q].deletedAt \in Int
    BY <2>1, <2>2 DEF Entry
  <2>. QED
    BY <1>2, <2>1, <2>3 DEF NodeState, Tombstone, Absent, StateOK, IsTombstone, IsLive
<1>3. CASE q \in DOMAIN t /\ ~IsDeleted(t[q])
  <2>1. IsDirectory(t[q]) \/ q \in Path
    BY <1>3 DEF Good, Shape, NodeOK, IsDirectory
  <2>. QED
    BY <1>3, <2>1 DEF NodeState, StateOK, IsTombstone, IsLive
<1>. QED
  BY <1>1, <1>2, <1>3

(* A directory's children are its nodes.                                   *)
LEMMA ChildrenAre ==
  ASSUME NEW t, Good(t), NEW q \in DOMAIN t, NEW p \in DOMAIN ChildEntries(t, q)
  PROVE  /\ p \in DOMAIN t /\ p \in Node /\ p # <<>> /\ Parent(p) = q
         /\ ChildEntries(t, q)[p].state = NodeState(t, p)
<1>1. p \in ToSet(t[q].children)
  BY DEF ChildEntries
<1>2. PICK i \in DOMAIN t[q].children : t[q].children[i] = p
  BY <1>1 DEF ToSet
<1>3. NodeOK(t, q)
  BY DEF Good, Shape
<1>4. i \in 1..Len(t[q].children)
  BY <1>3 DEF NodeOK
<1>5. p \in DOMAIN t /\ p # <<>> /\ Parent(p) = q
  BY <1>2, <1>3, <1>4 DEF NodeOK
<1>6. ChildEntries(t, q)[p].state = NodeState(t, p)
  BY <1>1 DEF ChildEntries
<1>. QED
  BY <1>5, <1>6 DEF Good, Shape

LEMMA ListingsOK ==
  ASSUME NEW t, Good(t), NEW entries \in [Path -> Entry],
         \A p \in Path : Mirrors(t, p, entries[p]), NEW parents \in SUBSET DOMAIN t
  PROVE  ToDeviceOK(ListingOf(t, parents))
<1>. DEFINE m == ListingOf(t, parents)
<1>1. m.type = "negotiated" /\ m.lists = [q \in parents |-> ChildEntries(t, q)]
  BY DEF ListingOf
<1>. HIDE DEF m
<1>2. ListsOK(m.lists)
  <2>. SUFFICES ASSUME NEW q \in parents, NEW p \in DOMAIN ChildEntries(t, q)
                PROVE  /\ p \in Node /\ p # <<>> /\ Parent(p) = q
                       /\ StateOK(p, ChildEntries(t, q)[p].state)
    BY <1>1 DEF ListsOK
  <2>. QED
    BY ChildrenAre, NodeStateOK
<1>. QED
  BY <1>1, <1>2 DEF ToDeviceOK, m

-----------------------------------------------------------------------------
(* The server *)

ServerKept == ServerTyped' /\ ToDeviceCarries(toDevice') /\ TreesOK'

LEMMA AnswerCarries ==
  ASSUME ToDeviceCarries(toDevice), NEW d \in Device, NEW m, ToDeviceOK(m), Answer(d, m)
  PROVE  ToDeviceCarries(toDevice')
<1>1. toDevice' = [toDevice EXCEPT ![d] = Append(@, m)]
  BY DEF Answer
<1>. QED
  BY <1>1, DeviceLinkKeeps

(* A request that changes no record.                                       *)
LEMMA ServerStays ==
  ASSUME TInv, UNCHANGED <<store, index, uploadMeta, db, tree>>, ToDeviceCarries(toDevice')
  PROVE  ServerKept
<1>1. ServerTyped'
  BY DEF TInv, StoresOK, ServerTyped
<1>2. TreesOK'
  BY TreesStay DEF TInv
<1>. QED
  BY <1>1, <1>2 DEF ServerKept

LEMMA ServeNegotiationKeeps ==
  ASSUME TInv, NEW d \in Device, NEW m, ServeNegotiation(d, m), UNCHANGED <<db, tree>>
  PROVE  ServerKept
<1>. DEFINE t == tree[Server]
<1>1. Good(t) /\ \A p \in Path : Mirrors(t, p, index[p])
  BY DEF TInv, TreesOK, EntriesOf
<1>2. index \in [Path -> Entry] /\ ToDeviceCarries(toDevice)
  BY DEF TInv, StoresOK, ServerTyped, LinksOK
<1>3. UNCHANGED <<store, index, uploadMeta>>
  BY DEF ServeNegotiation, serverVars
<1>4. \/ toDevice' = toDevice
      \/ \E parents \in SUBSET DOMAIN t : Answer(d, ListingOf(t, parents))
  <2>1. CASE m.phase = 0
    <3>1. (IF m.root = RootHash(t) THEN {} ELSE {<<>>}) \in SUBSET DOMAIN t
      BY <1>1 DEF Good, Shape
    <3>2. Answer(d, ListingOf(t, IF m.root = RootHash(t) THEN {} ELSE {<<>>}))
      BY <2>1 DEF ServeNegotiation
    <3>. QED
      BY <3>1, <3>2
  <2>2. CASE m.phase # 0 /\ \E q \in m.parents : q \notin DOMAIN t \/ ~IsDirectory(t[q])
    BY <2>2 DEF ServeNegotiation
  <2>3. CASE m.phase # 0 /\ ~\E q \in m.parents : q \notin DOMAIN t \/ ~IsDirectory(t[q])
    BY <2>3 DEF ServeNegotiation
  <2>. QED
    BY <2>1, <2>2, <2>3
<1>. HIDE DEF t
<1>5. ToDeviceCarries(toDevice')
  <2>1. CASE toDevice' = toDevice
    BY <1>2, <2>1
  <2>2. ASSUME NEW parents \in SUBSET DOMAIN t, Answer(d, ListingOf(t, parents))
        PROVE  ToDeviceCarries(toDevice')
    <3>1. ToDeviceOK(ListingOf(t, parents))
      BY <1>1, <1>2, ListingsOK
    <3>. QED
      BY <1>2, <2>2, <3>1, AnswerCarries
  <2>. QED
    BY <1>4, <2>1, <2>2
<1>. QED
  BY <1>3, <1>5, ServerStays

LEMMA ServeDirectoryKeeps ==
  ASSUME TInv, NEW d \in Device, NEW m, ServeDirectory(d, m), UNCHANGED <<db, tree>>
  PROVE  ServerKept
<1>. DEFINE entries == [p \in Path |-> IF IsStrictPrefix(m.path, p) THEN index[p]
                                       ELSE Untracked]
            answer  == [type |-> "directory", entries |-> entries]
<1>1. index \in [Path -> Entry] /\ ToDeviceCarries(toDevice)
  BY DEF TInv, StoresOK, ServerTyped, LinksOK
<1>2. Untracked \in Entry
  BY DEF Untracked, Entry, NoTime, NoHash
<1>3. entries \in [Path -> Entry]
  BY <1>1, <1>2
<1>4. UNCHANGED <<store, index, uploadMeta>> /\ Answer(d, answer)
  BY DEF ServeDirectory, serverVars
<1>. HIDE DEF entries
<1>5. ToDeviceOK(answer)
  BY <1>3 DEF ToDeviceOK, DirectoryMsg
<1>. HIDE DEF answer
<1>. QED
  BY <1>1, <1>4, <1>5, AnswerCarries, ServerStays

LEMMA ServeUploadRequestKeeps ==
  ASSUME TInv, NEW d \in Device, NEW m, ToServerOK(m), ServeUploadRequest(d, m),
         UNCHANGED <<db, tree>>
  PROVE  ServerKept
<1>. DEFINE answer == [type |-> "uploadSize", path |-> m.path, chunks |-> m.size]
            meta   == [mtime |-> m.mtime, hash |-> m.hash]
<1>1. m \in UploadMsg
  BY DEF ServeUploadRequest, ToServerOK
<1>2. ToDeviceOK(answer) /\ meta \in Meta
  BY <1>1 DEF ToDeviceOK, UploadMsg, Meta
<1>3. /\ uploadMeta' = [uploadMeta EXCEPT ![d][m.path] = meta]
      /\ UNCHANGED <<store, index>> /\ Answer(d, answer)
  BY DEF ServeUploadRequest
<1>. HIDE DEF answer, meta
<1>4. ToDeviceCarries(toDevice')
  BY <1>2, <1>3, AnswerCarries DEF TInv, LinksOK
<1>5. ServerTyped'
  BY <1>2, <1>3 DEF TInv, StoresOK, ServerTyped
<1>6. TreesOK'
  BY <1>3, TreesStay DEF TInv
<1>. QED
  BY <1>4, <1>5, <1>6 DEF ServerKept

LEMMA ServeDownloadRequestKeeps ==
  ASSUME TInv, NEW d \in Device, NEW m, ToServerOK(m), ServeDownloadRequest(d, m),
         UNCHANGED <<db, tree>>
  PROVE  ServerKept
<1>. DEFINE answer == [type |-> "download", path |-> m.path, mtime |-> index[m.path].mtime,
                       hash |-> index[m.path].hash, content |-> store[m.path]]
<1>1. m.path \in Path
  BY DEF ServeDownloadRequest, ToServerOK
<1>2. UNCHANGED <<store, index, uploadMeta>>
  BY DEF ServeDownloadRequest, serverVars
<1>3. \/ toDevice' = toDevice
      \/ /\ store[m.path] # Gone /\ Tracked(index[m.path])
         /\ Answer(d, answer)
  BY DEF ServeDownloadRequest
<1>4. store[m.path] # Gone /\ Tracked(index[m.path]) => ToDeviceOK(answer)
  <2>1. index[m.path] \in Entry /\ store[m.path] \in Int
    BY <1>1 DEF TInv, StoresOK, ServerTyped
  <2>2. store[m.path] # Gone => answer \in DownloadedMsg
    BY <1>1, <2>1 DEF DownloadedMsg, Entry
  <2>3. answer.type = "download" /\ answer.mtime = index[m.path].mtime
    OBVIOUS
  <2>. HIDE DEF answer
  <2>. QED
    BY <2>2, <2>3 DEF ToDeviceOK, Tracked
<1>. HIDE DEF answer
<1>5. ToDeviceCarries(toDevice')
  BY <1>3, <1>4, AnswerCarries DEF TInv, LinksOK
<1>. QED
  BY <1>2, <1>5, ServerStays

(* What the server records in its tree is what it records in its index.    *)
LEMMA ServerFollows ==
  ASSUME TreesOK, Rerecorded(Server, index, index'), db' = db,
         \A p \in Path : Recordable(index'[p]) \/ index'[p] = index[p]
  PROVE  TreesOK'
<1>1. /\ EntriesNext(Server) = index' /\ EntriesOf(Server) = index
      /\ \A k \in (Device \cup {Server}) \ {Server} : EntriesNext(k) = EntriesOf(k)
  BY ServerEntries
<1>2. ChangesMade(Server, index')
  BY <1>1 DEF ChangesMade, Rerecorded
<1>. QED
  BY <1>2, ChangesKeep

LEMMA ServeChunkKeeps ==
  ASSUME TInv, NEW d \in Device, NEW m, ToServerOK(m), ServeChunk(d, m),
         Rerecorded(Server, index, index'), db' = db
  PROVE  ServerKept
<1>1. m \in ChunkMsg
  BY DEF ServeChunk, ToServerOK
<1>2. m.path \in Path
  BY <1>1 DEF ChunkMsg
<1>3. CASE UNCHANGED <<store, index, uploadMeta, toDevice>>
  <2>1. TreesOK'
    BY <1>3, ServerFollows DEF TInv
  <2>. QED
    BY <1>3, <2>1 DEF TInv, StoresOK, ServerTyped, LinksOK, ServerKept
<1>4. CASE uploadMeta[d][m.path] # NoMeta /\ m.path \in saving
  <2>. DEFINE meta   == uploadMeta[d][m.path]
              e      == RecordFile(index[m.path], meta.mtime, meta.hash)
              answer == [type |-> "uploadAck", path |-> m.path]
  <2>1. meta.mtime \in Int \ {NoTime} /\ meta.hash \in Int
    BY <1>2, <1>4 DEF TInv, StoresOK, ServerTyped, Meta
  <2>2. e \in Entry /\ e.mtime = meta.mtime
    BY <1>2, <2>1, RecordFileTyped DEF TInv, StoresOK, ServerTyped
  <2>3. /\ store' = [store EXCEPT ![m.path] = m.content]
        /\ index' = [index EXCEPT ![m.path] = e]
        /\ uploadMeta' = [uploadMeta EXCEPT ![d][m.path] = NoMeta]
        /\ Answer(d, answer)
    BY <1>4 DEF ServeChunk
  <2>4. ToDeviceOK(answer)
    BY DEF ToDeviceOK
  <2>5. Recordable(e)
    BY <2>1, <2>2 DEF Recordable, Tracked
  <2>. HIDE DEF meta, e, answer
  <2>6. ServerTyped'
    BY <1>1, <1>2, <2>2, <2>3 DEF TInv, StoresOK, ServerTyped, ChunkMsg, Meta
  <2>7. ToDeviceCarries(toDevice')
    BY <2>3, <2>4, AnswerCarries DEF TInv, LinksOK
  <2>8. \A p \in Path : Recordable(index'[p]) \/ index'[p] = index[p]
    BY <1>2, <2>3, <2>5 DEF TInv, StoresOK, ServerTyped
  <2>9. TreesOK'
    BY <2>8, ServerFollows DEF TInv
  <2>. QED
    BY <2>6, <2>7, <2>9 DEF ServerKept
<1>. QED
  BY <1>3, <1>4 DEF ServeChunk, serverVars

LEMMA ServeDeleteKeeps ==
  ASSUME TInv, NEW d \in Device, NEW m, ToServerOK(m), MerkleServeDelete(d, m), db' = db
  PROVE  ServerKept
<1>1. m.path \in Path /\ m.time \in DeletionTime
  BY DEF MerkleServeDelete, ToServerOK
<1>2. CASE ServeDeleteAborts(m)
  <2>1. /\ store' = [store EXCEPT ![m.path] = Gone]
        /\ UNCHANGED <<index, uploadMeta, toDevice, tree>>
    BY <1>2 DEF ServeDeleteAborts
  <2>2. ServerTyped'
    <3>1. store \in [Path -> Int] /\ Gone \in Int
      BY DEF TInv, StoresOK, ServerTyped, Gone
    <3>2. store' \in [Path -> Int]
      BY <2>1, <3>1
    <3>. QED
      BY <2>1, <3>2 DEF TInv, StoresOK, ServerTyped
  <2>3. TreesOK'
    BY <2>1, TreesStay DEF TInv
  <2>. QED
    BY <2>1, <2>2, <2>3 DEF TInv, LinksOK, ServerKept
<1>3. CASE ServeDelete(d, m) /\ Rerecorded(Server, index, index')
  <2>. DEFINE e == RecordDeletion(index[m.path], m.time)
  <2>1. e \in Entry /\ Recordable(e)
    BY <1>1 DEF RecordDeletion, Recordable, Entry, DeletionTime, NoTime, NoHash
  <2>2. \/ UNCHANGED <<store, index>>
        \/ /\ store' = [store EXCEPT ![m.path] = Gone]
           /\ index' = [index EXCEPT ![m.path] = e]
    BY <1>3 DEF ServeDelete, RemoveFile
  <2>3. uploadMeta' = uploadMeta
    BY <1>3 DEF ServeDelete
  <2>4. ToDeviceCarries(toDevice')
    <3>1. PICK done \in BOOLEAN :
            Answer(d, [type |-> "deleteAnswer", path |-> m.path, done |-> done])
      BY <1>3 DEF ServeDelete
    <3>. DEFINE answer == [type |-> "deleteAnswer", path |-> m.path, done |-> done]
    <3>2. ToDeviceOK(answer) /\ Answer(d, answer)
      BY <1>1, <3>1 DEF ToDeviceOK, DeleteAnswerMsg
    <3>. HIDE DEF answer
    <3>. QED
      BY <3>2, AnswerCarries DEF TInv, LinksOK
  <2>. HIDE DEF e
  <2>5. ServerTyped'
    BY <1>1, <2>1, <2>2, <2>3 DEF TInv, StoresOK, ServerTyped, Gone
  <2>6. \A p \in Path : Recordable(index'[p]) \/ index'[p] = index[p]
    BY <1>1, <2>1, <2>2 DEF TInv, StoresOK, ServerTyped
  <2>7. TreesOK'
    BY <1>3, <2>6, ServerFollows DEF TInv
  <2>. QED
    BY <2>4, <2>5, <2>7 DEF ServerKept
<1>. QED
  BY <1>2, <1>3 DEF MerkleServeDelete

LEMMA ServeFailedDeleteKeeps ==
  ASSUME TInv, NEW d \in Device, NEW m, ToServerOK(m), ServeFailedDelete(d, m),
         UNCHANGED tree, db' = db
  PROVE  ServerKept
<1>. DEFINE answer == [type |-> "deleteAnswer", path |-> m.path, done |-> FALSE]
<1>1. m.path \in Path /\ UNCHANGED <<store, index, uploadMeta>> /\ Answer(d, answer)
  BY DEF ServeFailedDelete, ToServerOK, serverVars
<1>2. ToDeviceOK(answer)
  BY <1>1 DEF ToDeviceOK, DeleteAnswerMsg
<1>. HIDE DEF answer
<1>3. ToDeviceCarries(toDevice')
  BY <1>1, <1>2, AnswerCarries DEF TInv, LinksOK
<1>. QED
  BY <1>1, <1>3, ServerStays

LEMMA ServerKeepsTrees ==
  ASSUME TInv, NEW d \in Device, MerkleServerReceive(d)
  PROVE  TInv'
<1>. DEFINE m == Head(toServer[d])
<1>1. UNCHANGED <<now, edits, fs, db, decided, commandsToSend>>
  BY DEF MerkleServerReceive, userVars, descentVars
<1>2. ToServerOK(m) /\ ToServerCarries(toServer')
  BY ServerLinkKeeps DEF MerkleServerReceive, ServerTakes, TInv, LinksOK
<1>3. \/ ServeNegotiation(d, m) /\ UNCHANGED tree
      \/ ServeDirectory(d, m) /\ UNCHANGED tree
      \/ ServeUploadRequest(d, m) /\ UNCHANGED tree
      \/ ServeDownloadRequest(d, m) /\ UNCHANGED tree
      \/ ServeChunk(d, m) /\ Rerecorded(Server, index, index')
      \/ MerkleServeDelete(d, m)
      \/ ServeFailedDelete(d, m) /\ UNCHANGED tree
  BY DEF MerkleServerReceive
<1>. HIDE DEF m
<1>4. ServerKept
  BY <1>1, <1>2, <1>3, ServeNegotiationKeeps, ServeDirectoryKeeps, ServeUploadRequestKeeps,
     ServeDownloadRequestKeeps, ServeChunkKeeps, ServeDeleteKeeps, ServeFailedDeleteKeeps
<1>5. StoresOK'
  BY <1>1, <1>4 DEF TInv, StoresOK, DevicesOK, FilesTimed, ServerKept
<1>6. DescentOK'
  BY <1>1 DEF TInv, DescentOK
<1>. QED
  BY <1>2, <1>4, <1>5, <1>6 DEF TInv, LinksOK, ServerKept

-----------------------------------------------------------------------------
(* What a round of the descent decides *)

LEMMA DecisionOK ==
  ASSUME NEW p, NEW l, NEW r, StateOK(p, l), StateOK(p, r),
         Decision(l, r).bucket # "InSync"
  PROVE  /\ Decision(l, r).isFile => p \in Path
         /\ Decision(l, r).bucket \in {"DeletionWinsLeft", "DeletionWinsRight"}
              => p \in Path /\ Decision(l, r).time \in DeletionTime
<1>1. Decision(l, r).bucket = ClassifyPath(l, r)
  BY DEF Decision
<1>2. IsLive(l) \/ IsLive(r)
  BY <1>1 DEF ClassifyPath
<1>3. Decision(l, r).isFile => p \in Path
  <2>1. CASE IsLive(l)
    BY <2>1 DEF Decision, StateOK
  <2>2. CASE ~IsLive(l)
    BY <1>2, <2>2 DEF Decision, StateOK
  <2>. QED
    BY <2>1, <2>2
<1>4. ASSUME ClassifyPath(l, r) \in {"DeletionWinsLeft", "DeletionWinsRight"}
      PROVE  p \in Path /\ Decision(l, r).time \in DeletionTime
  <2>1. Decision(l, r).time = IF IsTombstone(l) THEN l.deletedAt ELSE r.deletedAt
    BY DEF Decision
  <2>2. IsTombstone(l) \/ IsTombstone(r)
    BY <1>4 DEF ClassifyPath, ClassifyLive, DeletedAfter
  <2>. QED
    BY <2>1, <2>2 DEF StateOK, DeletionTime, IsTombstone
<1>. QED
  BY <1>1, <1>3, <1>4

LEMMA RoundDecides ==
  ASSUME NEW t, Good(t), NEW entries \in [Path -> Entry],
         \A p \in Path : Mirrors(t, p, entries[p]),
         NEW lists, ListsOK(lists), DOMAIN lists \subseteq DOMAIN t
  PROVE  DecidedOK(Decisions(RoundOf(t, lists)))
<1>. DEFINE round == RoundOf(t, lists)
            ds    == Decisions(round)
<1>1. DOMAIN round = Differing(t, lists)
      /\ \A p \in DOMAIN round :
           round[p] = Decision(NodeState(t, p), StateIn(lists[Parent(p)], p))
  BY DEF RoundOf
<1>2. ASSUME NEW p \in Differing(t, lists)
      PROVE  p \in Node /\ Parent(p) \in DOMAIN lists
  <2>1. PICK q \in DOMAIN lists : p \in SymmetricHashDiff(ChildEntries(t, q), lists[q])
    BY DEF Differing
  <2>2. p \in DOMAIN ChildEntries(t, q) \/ p \in DOMAIN lists[q]
    BY <2>1 DEF SymmetricHashDiff
  <2>3. CASE p \in DOMAIN ChildEntries(t, q)
    BY <2>3, ChildrenAre
  <2>4. CASE p \in DOMAIN lists[q]
    BY <2>4 DEF ListsOK
  <2>. QED
    BY <2>2, <2>3, <2>4
<1>3. ASSUME NEW p \in Differing(t, lists)
      PROVE  StateOK(p, StateIn(lists[Parent(p)], p))
  <2>1. CASE p \in DOMAIN lists[Parent(p)]
    BY <1>2, <2>1 DEF ListsOK, StateIn
  <2>2. CASE p \notin DOMAIN lists[Parent(p)]
    BY <2>2 DEF StateIn, Absent, StateOK, IsTombstone, IsLive
  <2>. QED
    BY <2>1, <2>2
<1>. HIDE DEF round
<1>4. /\ DOMAIN ds \subseteq DOMAIN round
      /\ \A p \in DOMAIN ds : ds[p] = round[p] /\ round[p].bucket # "InSync"
  BY DEF Decisions, Restrict, PathsWith
<1>. HIDE DEF ds
<1>5. ASSUME NEW p \in DOMAIN ds
      PROVE  /\ ds[p].isFile => p \in Path
             /\ ds[p].bucket \in {"DeletionWinsLeft", "DeletionWinsRight"}
                  => p \in Path /\ ds[p].time \in DeletionTime
  <2>. DEFINE l == NodeState(t, p)
              r == StateIn(lists[Parent(p)], p)
  <2>1. ds[p] = Decision(l, r) /\ p \in Differing(t, lists)
    BY <1>1, <1>4
  <2>2. StateOK(p, l)
    BY NodeStateOK
  <2>3. StateOK(p, r)
    BY <1>3, <2>1
  <2>. HIDE DEF l, r
  <2>4. Decision(l, r).bucket # "InSync"
    BY <1>4, <2>1
  <2>. QED
    BY <2>1, <2>2, <2>3, <2>4, DecisionOK
<1>6. DOMAIN ds \subseteq Node
  BY <1>1, <1>2, <1>4
<1>7. DecidedOK(ds)
  BY <1>5, <1>6 DEF DecidedOK
<1>. QED
  BY <1>7 DEF ds, round

LEMMA OverIs ==
  ASSUME NEW new, NEW old
  PROVE  /\ DOMAIN Over(new, old) = DOMAIN new \cup DOMAIN old
         /\ \A p \in DOMAIN new : Over(new, old)[p] = new[p]
         /\ \A p \in DOMAIN old \ DOMAIN new : Over(new, old)[p] = old[p]
BY DEF Over

LEMMA OverDecides ==
  ASSUME NEW new, NEW old, DecidedOK(new), DecidedOK(old)
  PROVE  DecidedOK(Over(new, old))
<1>. DEFINE ds == Over(new, old)
<1>1. /\ DOMAIN ds = DOMAIN new \cup DOMAIN old
      /\ \A p \in DOMAIN new : ds[p] = new[p]
      /\ \A p \in DOMAIN old \ DOMAIN new : ds[p] = old[p]
  BY OverIs
<1>. HIDE DEF ds
<1>2. DecidedOK(ds)
  BY <1>1 DEF DecidedOK
<1>. QED
  BY <1>2 DEF ds

-----------------------------------------------------------------------------
(* What is sent *)

SendsOK(s) == \E T : s \in Seq(T) /\ \A m \in T : ToServerOK(m)

LEMMA SendsJoin ==
  ASSUME NEW s, NEW r, SendsOK(s), SendsOK(r)
  PROVE  SendsOK(s \o r)
<1>1. PICK S : s \in Seq(S) /\ \A m \in S : ToServerOK(m)
  BY DEF SendsOK
<1>2. PICK R : r \in Seq(R) /\ \A m \in R : ToServerOK(m)
  BY DEF SendsOK
<1>. DEFINE T == S \cup R
<1>3. s \in Seq(T) /\ r \in Seq(T) /\ \A m \in T : ToServerOK(m)
  BY <1>1, <1>2
<1>. HIDE DEF T
<1>4. s \o r \in Seq(T)
  BY <1>3
<1>. QED
  BY <1>3, <1>4 DEF SendsOK

LEMMA SendsEach ==
  ASSUME NEW n \in Nat, NEW s, DOMAIN s = 1..n, s = [i \in 1..n |-> s[i]],
         \A i \in 1..n : ToServerOK(s[i])
  PROVE  SendsOK(s)
<1>. DEFINE T == {s[i] : i \in 1..n}
<1>1. \A i \in 1..n : s[i] \in T
  OBVIOUS
<1>2. \A m \in T : ToServerOK(m)
  OBVIOUS
<1>. HIDE DEF T
<1>3. s \in Seq(T)
  BY <1>1
<1>. QED
  BY <1>2, <1>3 DEF SendsOK

LEMMA UploadSends ==
  ASSUME DevicesOK, NEW d \in Device, NEW p \in Path
  PROVE  ToServerOK(UploadRequest(d, p))
<1>. DEFINE m == UploadRequest(d, p)
<1>1. m.type = "uploadRequest"
  BY DEF UploadRequest
<1>2. m \in UploadMsg
  BY <1>1, UploadRequestTyped, ServerMsgOf
<1>. HIDE DEF m
<1>. QED
  BY <1>1, <1>2 DEF ToServerOK, m

LEMMA UploadsSend ==
  ASSUME DevicesOK, NEW d \in Device, NEW ds, DecidedOK(ds), NEW bucket
  PROVE  SendsOK(UploadsFor(d, ds, bucket))
<1>. DEFINE S  == UNION {IF ds[q].isFile THEN {q} ELSE UploadsBelow(d, q) :
                           q \in PathsWith(ds, bucket)}
            ps == SetToSeq(S)
            s  == UploadsFor(d, ds, bucket)
<1>1. S \subseteq Path
  <2>. SUFFICES ASSUME NEW q \in PathsWith(ds, bucket)
                PROVE  (IF ds[q].isFile THEN {q} ELSE UploadsBelow(d, q)) \subseteq Path
    OBVIOUS
  <2>1. q \in DOMAIN ds
    BY DEF PathsWith
  <2>. QED
    BY <2>1 DEF DecidedOK, UploadsBelow
<1>2. s = [i \in 1..Len(ps) |-> UploadRequest(d, ps[i])]
  BY DEF UploadsFor
<1>. HIDE DEF S, s
<1>3. ps \in Seq(S)
  BY <1>1, PathAssumption, FS_Subset, SetToSeqAll
<1>. HIDE DEF ps
<1>4. Len(ps) \in Nat /\ \A i \in 1..Len(ps) : ps[i] \in Path
  BY <1>1, <1>3
<1>5. \A i \in 1..Len(ps) : ToServerOK(s[i])
  BY <1>2, <1>4, UploadSends
<1>6. SendsOK(s)
  BY <1>2, <1>4, <1>5, SendsEach
<1>. QED
  BY <1>6 DEF s

LEMMA DownloadsSend ==
  ASSUME NEW ds, DecidedOK(ds), NEW ps \in Seq(DOMAIN ds)
  PROVE  SendsOK(DownloadsFor(ds, ps))
<1>. DEFINE s == DownloadsFor(ds, ps)
<1>1. s = [i \in 1..Len(ps) |-> IF ds[ps[i]].isFile THEN DownloadRequest(ps[i])
                                ELSE DirectoryRequest(ps[i])]
  BY DEF DownloadsFor
<1>2. Len(ps) \in Nat /\ \A i \in 1..Len(ps) : ps[i] \in DOMAIN ds
  OBVIOUS
<1>3. ASSUME NEW i \in 1..Len(ps)
      PROVE  ToServerOK(s[i])
  <2>1. ds[ps[i]].isFile => ps[i] \in Path
    BY <1>2 DEF DecidedOK
  <2>2. CASE ds[ps[i]].isFile
    <3>1. s[i] = DownloadRequest(ps[i])
      BY <1>1, <2>2
    <3>. HIDE DEF s
    <3>. QED
      BY <2>1, <2>2, <3>1 DEF DownloadRequest, ToServerOK
  <2>3. CASE ~ds[ps[i]].isFile
    <3>1. s[i] = DirectoryRequest(ps[i])
      BY <1>1, <2>3
    <3>. HIDE DEF s
    <3>. QED
      BY <3>1 DEF DirectoryRequest, ToServerOK
  <2>. QED
    BY <2>2, <2>3
<1>. HIDE DEF s
<1>4. SendsOK(s)
  BY <1>1, <1>2, <1>3, SendsEach
<1>. QED
  BY <1>4 DEF s

LEMMA CommandsSend ==
  ASSUME NEW gone, TimesOK(gone)
  PROVE  SendsOK(Commands(gone))
<1>. DEFINE ps == SetToSeq(DOMAIN gone)
            s  == Commands(gone)
<1>1. s = [i \in 1..Len(ps) |-> [type |-> "deleteRequest", path |-> ps[i], time |-> gone[ps[i]]]]
  BY DEF Commands
<1>. HIDE DEF s
<1>2. ps \in Seq(DOMAIN gone)
  BY PathAssumption, FS_Subset, SetToSeqAll DEF TimesOK
<1>. HIDE DEF ps
<1>3. Len(ps) \in Nat /\ \A i \in 1..Len(ps) : ps[i] \in DOMAIN gone
  BY <1>2
<1>4. \A i \in 1..Len(ps) : ToServerOK(s[i])
  BY <1>1, <1>3 DEF ToServerOK, TimesOK
<1>5. SendsOK(s)
  BY <1>1, <1>3, <1>4, SendsEach
<1>. QED
  BY <1>5 DEF s

LEMMA RequestsSend ==
  ASSUME DevicesOK, NEW d \in Device, NEW ds, DecidedOK(ds),
         NEW order \in SetToSeqs(PathsWith(ds, "OnlyInRight"))
  PROVE  SendsOK(DecidedRequests(d, ds, order))
<1>1. \A bucket : PathsWith(ds, bucket) \subseteq DOMAIN ds /\ IsFiniteSet(PathsWith(ds, bucket))
  <2>1. \A bucket : PathsWith(ds, bucket) \subseteq DOMAIN ds
    BY DEF PathsWith
  <2>2. IsFiniteSet(DOMAIN ds)
    BY NodesFinite, FS_Subset DEF DecidedOK
  <2>. QED
    BY <2>1, <2>2, FS_Subset
<1>. DEFINE right == SetToSeq(PathsWith(ds, "ModifiedWinsRight"))
<1>2. order \in Seq(DOMAIN ds)
  <2>1. order \in Seq(PathsWith(ds, "OnlyInRight"))
    BY <1>1, OrderAll
  <2>. QED
    BY <1>1, <2>1
<1>3. right \in Seq(DOMAIN ds)
  <2>1. right \in Seq(PathsWith(ds, "ModifiedWinsRight"))
    BY <1>1, SetToSeqAll
  <2>. HIDE DEF right
  <2>. QED
    BY <1>1, <2>1
<1>. HIDE DEF right
<1>4. SendsOK(DownloadsFor(ds, order)) /\ SendsOK(DownloadsFor(ds, right))
  BY <1>2, <1>3, DownloadsSend
<1>. DEFINE a == UploadsFor(d, ds, "OnlyInLeft")
            b == DownloadsFor(ds, order)
            c == UploadsFor(d, ds, "ModifiedWinsLeft")
            e == DownloadsFor(ds, right)
<1>5. SendsOK(a) /\ SendsOK(b) /\ SendsOK(c) /\ SendsOK(e)
  BY <1>4, UploadsSend
<1>6. DecidedRequests(d, ds, order) = a \o b \o c \o e
  BY DEF DecidedRequests, right
<1>. HIDE DEF a, b, c, e
<1>7. SendsOK(a \o b)
  BY <1>5, SendsJoin
<1>8. SendsOK(a \o b \o c)
  BY <1>5, <1>7, SendsJoin
<1>. QED
  BY <1>5, <1>6, <1>8, SendsJoin

(* The two halves of a naive negotiation: the transfers and the deletes.   *)
LEMMA NaiveSends ==
  ASSUME DevicesOK, NEW d \in Device, NEW entries
  PROVE  SendsOK(TransferRequests(d, entries)) /\ SendsOK(DeleteRequests(d, entries))
<1>1. ASSUME NEW bucket
      PROVE  SendsOK(Uploads(d, entries, bucket)) /\ SendsOK(Downloads(d, entries, bucket))
  <2>. DEFINE ps == InBucket(d, entries, bucket)
              u  == Uploads(d, entries, bucket)
              w  == Downloads(d, entries, bucket)
  <2>1. ps \in Seq(Path \X {1, 2})
    BY InBucketPaths
  <2>2. /\ u = [i \in 1..Len(ps) |-> UploadRequest(d, ps[i][1])]
        /\ w = [i \in 1..Len(ps) |-> DownloadRequest(ps[i][1])]
    BY DEF Uploads, Downloads
  <2>. HIDE DEF ps, u, w
  <2>3. Len(ps) \in Nat /\ \A i \in 1..Len(ps) : ps[i][1] \in Path
    BY <2>1
  <2>4. \A i \in 1..Len(ps) : ToServerOK(u[i])
    BY <2>2, <2>3, UploadSends
  <2>5. \A i \in 1..Len(ps) : ToServerOK(w[i])
    <3>1. \A p \in Path : ToServerOK(DownloadRequest(p))
      BY DEF DownloadRequest, ToServerOK
    <3>. QED
      BY <2>2, <2>3, <3>1
  <2>6. SendsOK(u)
    BY <2>2, <2>3, <2>4, SendsEach
  <2>7. SendsOK(w)
    BY <2>2, <2>3, <2>5, SendsEach
  <2>. QED
    BY <2>6, <2>7 DEF u, w
<1>2. SendsOK(TransferRequests(d, entries))
  <2>. DEFINE a == Uploads(d, entries, "OnlyInLeft")
              b == Downloads(d, entries, "OnlyInRight")
              c == Uploads(d, entries, "ModifiedWinsLeft")
              e == Downloads(d, entries, "ModifiedWinsRight")
  <2>1. SendsOK(a) /\ SendsOK(b) /\ SendsOK(c) /\ SendsOK(e)
    BY <1>1
  <2>2. TransferRequests(d, entries) = a \o b \o c \o e
    BY DEF TransferRequests
  <2>. HIDE DEF a, b, c, e
  <2>3. SendsOK(a \o b)
    BY <2>1, SendsJoin
  <2>4. SendsOK(a \o b \o c)
    BY <2>1, <2>3, SendsJoin
  <2>. QED
    BY <2>1, <2>2, <2>4, SendsJoin
<1>3. SendsOK(DeleteRequests(d, entries))
  <2>. DEFINE S  == {p \in Path : Buckets(d, entries)[p] = "DeletionWinsLeft"}
              ps == SetToSeq(S)
              s  == DeleteRequests(d, entries)
  <2>1. \A p \in S : p \in Path /\ Buckets(d, entries)[p] = "DeletionWinsLeft"
    OBVIOUS
  <2>2. s = [i \in 1..Len(ps) |-> DeleteRequest(d, ps[i])]
    BY DEF DeleteRequests
  <2>. HIDE DEF S, s
  <2>3. ps \in Seq(S)
    BY <2>1, PathAssumption, FS_Subset, SetToSeqAll
  <2>. HIDE DEF ps
  <2>4. Len(ps) \in Nat /\ \A i \in 1..Len(ps) : ps[i] \in S
    BY <2>3
  <2>5. ASSUME NEW p \in S
        PROVE  ToServerOK(DeleteRequest(d, p))
    <3>1. p \in Path /\ db[d][p] \in Entry
      BY <2>1 DEF DevicesOK
    <3>2. ClassifyPath(SideOf(d, db[d][p]), SideOf(d, entries[p])) = "DeletionWinsLeft"
      BY <2>1 DEF Buckets
    <3>3. IsTombstone(SideOf(d, db[d][p]))
      BY <3>2 DEF ClassifyPath, ClassifyLive, DeletedAfter
    <3>4. db[d][p].tomb # NoTime
      BY <3>3 DEF SideOf, IsTombstone, LiveFile, Absent
    <3>. QED
      BY <3>1, <3>4 DEF DeleteRequest, ToServerOK, DeletionTime, Entry
  <2>6. \A i \in 1..Len(ps) : ToServerOK(s[i])
    BY <2>2, <2>4, <2>5
  <2>7. SendsOK(s)
    BY <2>2, <2>4, <2>6, SendsEach
  <2>. QED
    BY <2>7 DEF s
<1>. QED
  BY <1>2, <1>3

-----------------------------------------------------------------------------
(* What a device records *)

(* Local files are deleted and recorded.                                   *)
LEMMA TombstonesKeep ==
  ASSUME DevicesOK, FilesTimed, TreesOK, NEW d \in Device, NEW gone, TimesOK(gone),
         ApplyTombstones(d, gone), UNCHANGED <<now, edits, index>>
  PROVE  DevicesOK' /\ FilesTimed' /\ TreesOK'
<1>. DEFINE e == [p \in Path |-> IF p \in DOMAIN gone THEN RecordDeletion(db[d][p], gone[p])
                                 ELSE db[d][p]]
            f == [p \in Path |-> IF p \in DOMAIN gone THEN NoFile ELSE fs[d][p]]
            ps == SetToSeq(DOMAIN gone)
<1>1. /\ fs' = [fs EXCEPT ![d] = f]
      /\ db' = [db EXCEPT ![d] = e]
      /\ tree' = [tree EXCEPT ![d] = TreeAfter(d, e, ps)]
  BY DEF ApplyTombstones, Follow
<1>2. \A p \in DOMAIN gone : p \in Path /\ gone[p] \in Int /\ gone[p] # NoTime
  BY DEF TimesOK, DeletionTime
<1>3. e \in [Path -> Entry]
  <2>1. \A p \in DOMAIN gone : RecordDeletion(db[d][p], gone[p]) \in Entry
    BY <1>2 DEF RecordDeletion, Entry, NoTime, NoHash
  <2>. QED
    BY <2>1 DEF DevicesOK
<1>4. f \in [Path -> FileState]
  BY DEF DevicesOK, FileState
<1>5. CoversChange(ps, e, db[d])
  <2>1. ps \in Seq(DOMAIN gone) /\ \A x \in DOMAIN gone : \E i \in 1..Len(ps) : ps[i] = x
    <3>1. IsFiniteSet(DOMAIN gone)
      BY PathAssumption, FS_Subset DEF TimesOK
    <3>. QED
      BY <3>1, SetToSeqAll
  <2>2. \A p \in DOMAIN gone : Recordable(e[p])
    BY <1>2 DEF RecordDeletion, Recordable
  <2>3. \A p \in Path : p \in DOMAIN gone \/ e[p] = db[d][p]
    OBVIOUS
  <2>. HIDE DEF e, ps
  <2>4. ps \in Seq(Path) /\ \A i \in 1..Len(ps) : ps[i] \in DOMAIN gone
    <3>. DEFINE G == DOMAIN gone
    <3>1. ps \in Seq(G) /\ G \subseteq Path
      BY <1>2, <2>1
    <3>. HIDE DEF G
    <3>2. ps \in Seq(Path) /\ \A i \in 1..Len(ps) : ps[i] \in G
      BY <3>1
    <3>. QED
      BY <3>2 DEF G
  <2>. QED
    BY <2>1, <2>2, <2>3, <2>4 DEF CoversChange
<1>6. \A p \in Path : f[p] = NoFile \/ f[p] = fs[d][p]
  OBVIOUS
<1>. HIDE DEF e, f, ps
<1>7. DevicesOK'
  BY <1>1, <1>3, <1>4 DEF DevicesOK
<1>8. FilesTimed'
  BY <1>1, <1>4, <1>6 DEF FilesTimed, DevicesOK, Present
<1>9. TreesOK'
  <2>1. /\ EntriesNext(d) = e /\ EntriesOf(d) = db[d]
        /\ \A k \in (Device \cup {Server}) \ {d} : EntriesNext(k) = EntriesOf(k)
    BY <1>1, DeviceEntries
  <2>2. RecordsMade(d, e, ps)
    BY <1>1, <1>5, <2>1 DEF RecordsMade
  <2>. QED
    BY <2>2, RecordsKeep
<1>. QED
  BY <1>7, <1>8, <1>9

(* What a device records in its tree is what it records in its database.   *)
LEMMA DeviceFollows ==
  ASSUME DevicesOK, TreesOK, NEW d \in Device, NEW e, db' = [db EXCEPT ![d] = e],
         Rerecorded(d, db[d], e), index' = index,
         \A p \in Path : Recordable(e[p]) \/ e[p] = db[d][p]
  PROVE  TreesOK'
<1>1. /\ EntriesNext(d) = e /\ EntriesOf(d) = db[d]
      /\ \A k \in (Device \cup {Server}) \ {d} : EntriesNext(k) = EntriesOf(k)
  BY DeviceEntries
<1>2. ChangesMade(d, e)
  BY <1>1 DEF ChangesMade, Rerecorded
<1>. QED
  BY <1>2, ChangesKeep

(* Requests leave with the staged commands, or the commands stay.          *)
LEMMA StartKeeps ==
  ASSUME ToServerCarries(toServer), DescentOK, NEW d \in Device, NEW requests,
         SendsOK(requests), NEW staged, TimesOK(staged), NEW due,
         StartRequests(d, requests, staged, due)
  PROVE  /\ ToServerCarries(toServer')
         /\ DOMAIN commandsToSend' = Device
         /\ \A x \in Device : TimesOK(commandsToSend'[x])
<1>. DEFINE flushed == IF due = 0 THEN Commands(staged) ELSE <<>>
            left    == IF due = 0 THEN <<>> ELSE staged
<1>1. /\ toServer' = [toServer EXCEPT ![d] = @ \o requests \o flushed]
      /\ commandsToSend' = [commandsToSend EXCEPT ![d] = left]
  BY DEF StartRequests
<1>. DEFINE none == <<>>
<1>2. SendsOK(none) /\ TimesOK(none)
  <2>. DEFINE T == {}
  <2>1. none \in Seq(T) /\ \A m \in T : ToServerOK(m)
    OBVIOUS
  <2>2. DOMAIN none = {}
    OBVIOUS
  <2>. HIDE DEF none, T
  <2>. QED
    BY <2>1, <2>2 DEF SendsOK, TimesOK
<1>3. SendsOK(flushed) /\ TimesOK(left)
  <2>1. CASE due = 0
    <3>1. flushed = Commands(staged) /\ left = none
      BY <2>1
    <3>. QED
      BY <1>2, <3>1, CommandsSend
  <2>2. CASE due # 0
    <3>1. flushed = none /\ left = staged
      BY <2>2
    <3>. QED
      BY <1>2, <3>1
  <2>. QED
    BY <2>1, <2>2
<1>. HIDE DEF flushed, left, none
<1>4. PICK T, U : /\ requests \in Seq(T) /\ \A m \in T : ToServerOK(m)
                 /\ flushed \in Seq(U) /\ \A m \in U : ToServerOK(m)
  BY <1>3 DEF SendsOK
<1>5. ToServerCarries(toServer')
  <2>. DEFINE x    == toServer[d] \o requests
              link == [toServer EXCEPT ![d] = x]
  <2>1. ToServerCarries(link)
    BY <1>4, ServerLinkKeeps
  <2>2. link[d] = x /\ toServer' = [toServer EXCEPT ![d] = x \o flushed]
    <3>1. DOMAIN toServer = Device
      BY DEF ToServerCarries
    <3>. QED
      BY <1>1, <3>1
  <2>3. toServer' = [link EXCEPT ![d] = x \o flushed]
    <3>. HIDE DEF x
    <3>. QED
      BY <2>2
  <2>. HIDE DEF link, x
  <2>4. ToServerCarries([link EXCEPT ![d] = @ \o flushed])
    BY <1>4, <2>1, ServerLinkKeeps
  <2>. QED
    BY <2>2, <2>3, <2>4
<1>6. /\ DOMAIN commandsToSend' = Device
      /\ \A x \in Device : TimesOK(commandsToSend'[x])
  BY <1>1, <1>3 DEF DescentOK
<1>. QED
  BY <1>5, <1>6

-----------------------------------------------------------------------------
(* The answers a device takes *)

DeviceKept ==
  /\ DevicesOK' /\ FilesTimed' /\ TreesOK'
  /\ ToServerCarries(toServer') /\ DescentOK'

LEMMA DescentStays == DescentOK /\ UNCHANGED <<decided, commandsToSend>> => DescentOK'
BY DEF DescentOK

LEMMA StagedTimes ==
  ASSUME TInv, NEW d \in Device, NEW ds, DecidedOK(ds)
  PROVE  TimesOK(Staged(d, ds))
<1>. DEFINE new    == [p \in PathsWith(ds, "DeletionWinsLeft") |-> ds[p].time]
            old    == commandsToSend[d]
            staged == Staged(d, ds)
<1>1. TimesOK(new)
  BY DEF TimesOK, PathsWith, DecidedOK
<1>2. TimesOK(old)
  BY DEF TInv, DescentOK
<1>3. staged = Over(new, old)
  BY DEF Staged
<1>. HIDE DEF new, old, staged
<1>4. /\ DOMAIN staged = DOMAIN new \cup DOMAIN old
      /\ \A p \in DOMAIN new : staged[p] = new[p]
      /\ \A p \in DOMAIN old \ DOMAIN new : staged[p] = old[p]
  <2>1. /\ DOMAIN Over(new, old) = DOMAIN new \cup DOMAIN old
        /\ \A p \in DOMAIN new : Over(new, old)[p] = new[p]
        /\ \A p \in DOMAIN old \ DOMAIN new : Over(new, old)[p] = old[p]
    BY OverIs
  <2>. QED
    BY <1>3, <2>1
<1>5. TimesOK(staged)
  BY <1>1, <1>2, <1>4 DEF TimesOK
<1>. QED
  BY <1>5 DEF staged

LEMMA CompletedKeeps ==
  ASSUME TInv, NEW d \in Device, NEW ds, DecidedOK(ds), NegotiationCompleted(d, ds),
         decided' = [decided EXCEPT ![d] = ds], UNCHANGED <<now, edits, index>>
  PROVE  DeviceKept
<1>. DEFINE S    == {p \in PathsWith(ds, "DeletionWinsRight") : Present(fs[d][p])}
            gone == [p \in S |-> ds[p].time]
<1>1. TimesOK(gone)
  BY DEF TimesOK, PathsWith, DecidedOK
<1>2. ApplyTombstones(d, gone)
  BY DEF NegotiationCompleted
<1>. HIDE DEF gone
<1>3. DevicesOK' /\ FilesTimed' /\ TreesOK'
  BY <1>1, <1>2, TombstonesKeep DEF TInv, StoresOK
<1>. DEFINE staged == Staged(d, ds)
<1>4. TimesOK(staged)
  BY StagedTimes
<1>. HIDE DEF staged
<1>5. PICK order \in SetToSeqs(PathsWith(ds, "OnlyInRight")) :
        StartRequests(d, DecidedRequests(d, ds, order), staged,
                      DirectoriesIn(DecidedRequests(d, ds, order)))
  BY DEF NegotiationCompleted, staged
<1>. DEFINE requests == DecidedRequests(d, ds, order)
            due      == DirectoriesIn(requests)
<1>6. SendsOK(requests)
  BY RequestsSend DEF TInv, StoresOK
<1>7. StartRequests(d, requests, staged, due)
  BY <1>5
<1>. HIDE DEF requests, due
<1>8. /\ ToServerCarries(toServer')
      /\ DOMAIN commandsToSend' = Device
      /\ \A x \in Device : TimesOK(commandsToSend'[x])
  BY <1>4, <1>6, <1>7, StartKeeps DEF TInv, LinksOK
<1>9. DescentOK'
  BY <1>8 DEF TInv, DescentOK
<1>. QED
  BY <1>3, <1>8, <1>9 DEF DeviceKept

LEMMA ReceiveNegotiationKeeps ==
  ASSUME TInv, NEW d \in Device, NEW m, ToDeviceOK(m), ReceiveNegotiation(d, m),
         index' = index
  PROVE  DeviceKept
<1>. DEFINE t     == tree[d]
            round == RoundOf(t, m.lists)
            ds    == Over(Decisions(round), decided[d])
            next  == NextParents(round)
<1>1. UNCHANGED <<now, edits>> /\ ListsOK(m.lists)
  BY DEF ReceiveNegotiation, userVars, ToDeviceOK
<1>2. CASE UNCHANGED <<fs, db, toServer, tree, decided, commandsToSend>>
  BY <1>1, <1>2, TreesStay, DescentStays
     DEF TInv, StoresOK, DevicesOK, FilesTimed, LinksOK, DeviceKept
<1>3. CASE DOMAIN m.lists \subseteq DOMAIN t
  <2>1. DecidedOK(Decisions(round))
    <3>1. Good(t) /\ \A p \in Path : Mirrors(t, p, db[d][p])
      BY ServerAssumption DEF TInv, TreesOK, EntriesOf
    <3>2. db[d] \in [Path -> Entry]
      BY DEF TInv, StoresOK, DevicesOK
    <3>. HIDE DEF t
    <3>. QED
      BY <1>1, <1>3, <3>1, <3>2, RoundDecides
  <2>2. DecidedOK(ds)
    BY <2>1, OverDecides DEF TInv, DescentOK
  <2>3. /\ decided' = [decided EXCEPT ![d] = ds]
        /\ \/ /\ toServer' = [toServer EXCEPT ![d] = Append(@,
                     [type |-> "negotiate", phase |-> 1, root |-> EmptyHash,
                      parents |-> next])]
              /\ UNCHANGED <<fs, db, tree, commandsToSend>>
           \/ NegotiationCompleted(d, ds)
    BY <1>3 DEF ReceiveNegotiation
  <2>. HIDE DEF ds
  <2>4. CASE /\ toServer' = [toServer EXCEPT ![d] = Append(@,
                     [type |-> "negotiate", phase |-> 1, root |-> EmptyHash,
                      parents |-> next])]
             /\ UNCHANGED <<fs, db, tree, commandsToSend>>
    <3>. DEFINE ask == [type |-> "negotiate", phase |-> 1, root |-> EmptyHash, parents |-> next]
    <3>1. ToServerOK(ask)
      BY DEF ToServerOK
    <3>2. toServer' = [toServer EXCEPT ![d] = Append(@, ask)]
      BY <2>4
    <3>. HIDE DEF ask
    <3>3. ToServerCarries([toServer EXCEPT ![d] = Append(@, ask)])
      BY <3>1, ServerLinkKeeps, Zenon DEF TInv, LinksOK
    <3>4. ToServerCarries(toServer')
      BY <3>2, <3>3
    <3>5. DescentOK'
      BY <2>2, <2>3, <2>4 DEF TInv, DescentOK
    <3>6. TreesOK'
      BY <2>4, TreesStay DEF TInv
    <3>7. DevicesOK' /\ FilesTimed'
      BY <1>1, <2>4 DEF TInv, StoresOK, DevicesOK, FilesTimed
    <3>. QED
      BY <3>4, <3>5, <3>6, <3>7 DEF DeviceKept
  <2>5. CASE NegotiationCompleted(d, ds)
    BY <1>1, <2>2, <2>3, <2>5, CompletedKeeps
  <2>. QED
    BY <2>3, <2>4, <2>5
<1>. QED
  BY <1>2, <1>3 DEF ReceiveNegotiation, merkleVars

(* A directory's listing, while one is expected.                           *)
LEMMA ListingKeeps ==
  ASSUME TInv, NEW d \in Device, NEW m \in DirectoryMsg,
         ApplyTombstones(d, [p \in {q \in Path : m.entries[q].tomb # NoTime /\ Present(fs[d][q])}
                               |-> m.entries[p].tomb]),
         StartRequests(d, DownloadsOf(m.entries), commandsToSend[d],
                       ListingsDue(d, m.entries)),
         UNCHANGED <<now, edits, index, decided>>
  PROVE  DeviceKept
<1>. DEFINE S    == {q \in Path : m.entries[q].tomb # NoTime /\ Present(fs[d][q])}
            gone == [p \in S |-> m.entries[p].tomb]
<1>1. \A p \in Path : m.entries[p].tomb \in Int
  BY DEF DirectoryMsg, Entry
<1>2. TimesOK(gone) /\ ApplyTombstones(d, gone)
  BY <1>1 DEF TimesOK, DeletionTime
<1>. HIDE DEF gone
<1>3. DevicesOK' /\ FilesTimed' /\ TreesOK'
  BY <1>2, TombstonesKeep DEF TInv, StoresOK
<1>4. SendsOK(DownloadsOf(m.entries))
  <2>. DEFINE T  == {p \in Path : Tracked(m.entries[p])}
              ps == SetToSeq(T)
              s  == DownloadsOf(m.entries)
  <2>1. s = [i \in DOMAIN ps |-> DownloadRequest(ps[i])]
    BY DEF DownloadsOf
  <2>2. T \subseteq Path
    OBVIOUS
  <2>. HIDE DEF T, s
  <2>3. ps \in Seq(T)
    BY <2>2, PathAssumption, FS_Subset, SetToSeqAll
  <2>. HIDE DEF ps
  <2>4. Len(ps) \in Nat /\ DOMAIN ps = 1..Len(ps) /\ \A i \in 1..Len(ps) : ps[i] \in Path
    BY <2>2, <2>3
  <2>5. \A p \in Path : ToServerOK(DownloadRequest(p))
    BY DEF DownloadRequest, ToServerOK
  <2>6. \A i \in 1..Len(ps) : ToServerOK(s[i])
    BY <2>1, <2>4, <2>5
  <2>7. SendsOK(s)
    BY <2>1, <2>4, <2>6, SendsEach
  <2>. QED
    BY <2>7 DEF s
<1>5. TimesOK(commandsToSend[d])
  BY DEF TInv, DescentOK
<1>. DEFINE requests == DownloadsOf(m.entries)
            staged   == commandsToSend[d]
            due      == ListingsDue(d, m.entries)
<1>6. SendsOK(requests) /\ TimesOK(staged) /\ StartRequests(d, requests, staged, due)
  BY <1>4, <1>5
<1>. HIDE DEF requests, staged, due
<1>7. /\ ToServerCarries(toServer')
      /\ DOMAIN commandsToSend' = Device
      /\ \A x \in Device : TimesOK(commandsToSend'[x])
  BY <1>6, StartKeeps DEF TInv, LinksOK
<1>8. DescentOK'
  BY <1>7 DEF TInv, DescentOK
<1>. QED
  BY <1>3, <1>7, <1>8 DEF DeviceKept

(* The same listing, taken for the answer of a naive server.               *)
LEMMA ListKeeps ==
  ASSUME TInv, NEW d \in Device, NEW m, m.entries \in [Path -> Entry],
         ReceiveList(d, m), Rerecorded(d, db[d], db'[d]),
         UNCHANGED <<index, decided, commandsToSend>>
  PROVE  DeviceKept
<1>. DEFINE gone == DeletedHere(d, m.entries)
            e == [p \in Path |-> IF p \in gone THEN RecordDeletion(db[d][p], m.entries[p].tomb)
                                 ELSE db[d][p]]
            f == [p \in Path |-> IF p \in gone THEN NoFile ELSE fs[d][p]]
            requests == TransferRequests(d, m.entries)
            deletes  == DeleteRequests(d, m.entries)
<1>0. DevicesOK /\ FilesTimed /\ TreesOK /\ ToServerCarries(toServer) /\ DescentOK
  BY DEF TInv, StoresOK, LinksOK
<1>1. /\ fs' = [fs EXCEPT ![d] = f]
      /\ db' = [db EXCEPT ![d] = e]
      /\ toServer' = [toServer EXCEPT ![d] = @ \o requests \o deletes]
      /\ UNCHANGED <<now, edits>>
  BY DEF ReceiveList, userVars
<1>2. ASSUME NEW p \in gone
      PROVE  p \in Path /\ m.entries[p].tomb # NoTime
  <2>1. p \in Path /\ ClassifyPath(SideOf(d, db[d][p]), SideOf(d, m.entries[p])) = "DeletionWinsRight"
    BY DEF DeletedHere, Buckets
  <2>2. IsTombstone(SideOf(d, m.entries[p]))
    BY <2>1 DEF ClassifyPath, ClassifyLive, DeletedAfter
  <2>. QED
    BY <2>1, <2>2 DEF SideOf, IsTombstone, LiveFile, Absent
<1>3. e \in [Path -> Entry]
  <2>1. \A p \in Path : RecordDeletion(db[d][p], m.entries[p].tomb) \in Entry
    BY DEF RecordDeletion, Entry, NoTime, NoHash
  <2>. QED
    BY <1>0, <2>1 DEF DevicesOK
<1>4. f \in [Path -> FileState] /\ \A p \in Path : f[p] = NoFile \/ f[p] = fs[d][p]
  BY <1>0 DEF DevicesOK, FileState
<1>5. \A p \in Path : Recordable(e[p]) \/ e[p] = db[d][p]
  BY <1>2 DEF RecordDeletion, Recordable
<1>6. SendsOK(requests) /\ SendsOK(deletes)
  BY <1>0, NaiveSends
<1>. HIDE DEF gone, e, f, requests, deletes
<1>7. DevicesOK'
  BY <1>0, <1>1, <1>3, <1>4 DEF DevicesOK
<1>8. FilesTimed'
  BY <1>0, <1>1, <1>4 DEF FilesTimed, DevicesOK, Present
<1>9. TreesOK'
  <2>1. db'[d] = e
    BY <1>0, <1>1 DEF DevicesOK
  <2>2. Rerecorded(d, db[d], e)
    BY <2>1
  <2>. QED
    BY <1>0, <1>1, <1>5, <2>2, DeviceFollows
<1>10. ToServerCarries(toServer')
  <2>. DEFINE x    == toServer[d] \o requests
              link == [toServer EXCEPT ![d] = x]
  <2>1. PICK T, U : /\ requests \in Seq(T) /\ \A n \in T : ToServerOK(n)
                    /\ deletes \in Seq(U) /\ \A n \in U : ToServerOK(n)
    BY <1>6 DEF SendsOK
  <2>2. ToServerCarries(link)
    BY <1>0, <2>1, ServerLinkKeeps
  <2>3. link[d] = x /\ toServer' = [toServer EXCEPT ![d] = x \o deletes]
    <3>1. DOMAIN toServer = Device
      BY <1>0 DEF ToServerCarries
    <3>. QED
      BY <1>1, <3>1
  <2>4. toServer' = [link EXCEPT ![d] = x \o deletes]
    <3>. HIDE DEF x
    <3>. QED
      BY <2>3
  <2>. HIDE DEF link, x
  <2>5. ToServerCarries([link EXCEPT ![d] = @ \o deletes])
    BY <2>1, <2>2, ServerLinkKeeps
  <2>. QED
    BY <2>3, <2>4, <2>5
<1>. QED
  BY <1>0, <1>7, <1>8, <1>9, <1>10, DescentStays DEF DeviceKept

LEMMA ReceiveDirectoryKeeps ==
  ASSUME TInv, NEW d \in Device, NEW m, ToDeviceOK(m), ReceiveDirectory(d, m),
         index' = index
  PROVE  DeviceKept
<1>1. m \in DirectoryMsg
  BY DEF ReceiveDirectory, ToDeviceOK
<1>2. CASE inMerkleApply[d]
  <2>1. /\ ApplyTombstones(d, [p \in {q \in Path : m.entries[q].tomb # NoTime /\ Present(fs[d][q])}
                                 |-> m.entries[p].tomb])
        /\ StartRequests(d, DownloadsOf(m.entries), commandsToSend[d],
                         ListingsDue(d, m.entries))
        /\ UNCHANGED <<now, edits, decided>>
    BY <1>2 DEF ReceiveDirectory, userVars
  <2>. QED
    BY <1>1, <2>1, ListingKeeps
<1>3. CASE ~inMerkleApply[d]
  <2>. DEFINE n == [m EXCEPT !.type = "list"]
  <2>1. n.entries \in [Path -> Entry]
    BY <1>1 DEF DirectoryMsg
  <2>2. ReceiveList(d, n) /\ Rerecorded(d, db[d], db'[d]) /\ UNCHANGED <<decided, commandsToSend>>
    BY <1>3 DEF ReceiveDirectory
  <2>. HIDE DEF n
  <2>. QED
    BY <2>1, <2>2, ListKeeps
<1>. QED
  BY <1>2, <1>3

LEMMA UploadSizeKeeps ==
  ASSUME TInv, NEW d \in Device, NEW m, ToDeviceOK(m), ReceiveUploadSize(d, m),
         Rerecorded(d, db[d], db'[d]), UNCHANGED <<index, decided, commandsToSend>>
  PROVE  DeviceKept
<1>. DEFINE content == IF Present(fs[d][m.path]) THEN fs[d][m.path].content ELSE Empty
            chunk   == [type |-> "chunk", path |-> m.path, content |-> content]
<1>0. DevicesOK /\ FilesTimed /\ TreesOK /\ ToServerCarries(toServer) /\ DescentOK
  BY DEF TInv, StoresOK, LinksOK
<1>1. m.path \in Path
  BY DEF ReceiveUploadSize, ToDeviceOK
<1>2. content \in Int \ {Gone}
  BY <1>0, <1>1 DEF DevicesOK, FileState, Present, Empty, Gone
<1>3. UNCHANGED <<now, edits, fs, db>>
  BY DEF ReceiveUploadSize, userVars
<1>4. \/ toServer' = toServer
      \/ toServer' = [toServer EXCEPT ![d] = Append(@, chunk)]
  BY DEF ReceiveUploadSize
<1>. HIDE DEF content
<1>5. ToServerOK(chunk)
  BY <1>1, <1>2 DEF ToServerOK, ChunkMsg
<1>. HIDE DEF chunk
<1>6. ToServerCarries([toServer EXCEPT ![d] = Append(@, chunk)])
  BY <1>0, <1>5, ServerLinkKeeps, Zenon
<1>7. ToServerCarries(toServer')
  BY <1>0, <1>4, <1>6
<1>8. TreesOK'
  <2>. DEFINE e == db[d]
  <2>1. db' = [db EXCEPT ![d] = e] /\ Rerecorded(d, db[d], e)
        /\ \A p \in Path : Recordable(e[p]) \/ e[p] = db[d][p]
    BY <1>0, <1>3 DEF DevicesOK
  <2>. HIDE DEF e
  <2>. QED
    BY <1>0, <2>1, DeviceFollows
<1>9. DevicesOK' /\ FilesTimed'
  BY <1>0, <1>3 DEF DevicesOK, FilesTimed
<1>. QED
  BY <1>0, <1>7, <1>8, <1>9, DescentStays DEF DeviceKept

LEMMA UploadAckKeeps ==
  ASSUME TInv, NEW d \in Device, NEW m, ReceiveUploadAck(d, m),
         Rerecorded(d, db[d], db'[d]), UNCHANGED <<index, decided, commandsToSend>>
  PROVE  DeviceKept
<1>0. DevicesOK /\ FilesTimed /\ TreesOK /\ ToServerCarries(toServer) /\ DescentOK
  BY DEF TInv, StoresOK, LinksOK
<1>1. UNCHANGED <<now, edits, fs, db, toServer>>
  BY DEF ReceiveUploadAck, userVars
<1>2. TreesOK'
  <2>. DEFINE e == db[d]
  <2>1. db' = [db EXCEPT ![d] = e] /\ Rerecorded(d, db[d], e)
        /\ \A p \in Path : Recordable(e[p]) \/ e[p] = db[d][p]
    BY <1>0, <1>1 DEF DevicesOK
  <2>. HIDE DEF e
  <2>. QED
    BY <1>0, <2>1, DeviceFollows
<1>3. DevicesOK' /\ FilesTimed'
  BY <1>0, <1>1 DEF DevicesOK, FilesTimed
<1>. QED
  BY <1>0, <1>1, <1>2, <1>3, DescentStays DEF DeviceKept

LEMMA DownloadKeeps ==
  ASSUME TInv, NEW d \in Device, NEW m, ToDeviceOK(m), ReceiveDownload(d, m),
         Rerecorded(d, db[d], db'[d]), UNCHANGED <<index, decided, commandsToSend>>
  PROVE  DeviceKept
<1>0. DevicesOK /\ FilesTimed /\ TreesOK /\ ToServerCarries(toServer) /\ DescentOK
  BY DEF TInv, StoresOK, LinksOK
<1>1. m \in DownloadedMsg /\ m.mtime # NoTime /\ m.path \in Path
  BY DEF ReceiveDownload, ToDeviceOK, DownloadedMsg
<1>. DEFINE f == [content |-> m.content, mtime |-> now + 1]
            r == RecordFile(db[d][m.path], m.mtime, m.hash)
            e == [db[d] EXCEPT ![m.path] = r]
<1>2. f \in FileState /\ f.mtime # NoTime
  BY <1>0, <1>1 DEF DownloadedMsg, FileState, FilesTimed, NoTime
<1>3. r \in Entry /\ r.mtime = m.mtime
  BY <1>0, <1>1, RecordFileTyped DEF DownloadedMsg, DevicesOK
<1>4. Recordable(r)
  BY <1>1, <1>3 DEF Recordable, Tracked
<1>5. UNCHANGED <<edits, toServer>>
  BY DEF ReceiveDownload
<1>6. CASE UNCHANGED <<now, fs, db>>
  <2>1. TreesOK'
    <3>. DEFINE k == db[d]
    <3>1. db' = [db EXCEPT ![d] = k] /\ Rerecorded(d, db[d], k)
          /\ \A p \in Path : Recordable(k[p]) \/ k[p] = db[d][p]
      BY <1>0, <1>6 DEF DevicesOK
    <3>. HIDE DEF k
    <3>. QED
      BY <1>0, <3>1, DeviceFollows
  <2>2. DevicesOK' /\ FilesTimed'
    BY <1>0, <1>5, <1>6 DEF DevicesOK, FilesTimed
  <2>. QED
    BY <1>0, <1>5, <2>1, <2>2, DescentStays DEF DeviceKept
<1>7. CASE /\ now' = now + 1
           /\ fs' = [fs EXCEPT ![d][m.path] = f]
           /\ db' = [db EXCEPT ![d][m.path] = r]
  <2>. HIDE DEF f, r
  <2>1. DevicesOK'
    BY <1>0, <1>1, <1>2, <1>3, <1>5, <1>7 DEF DevicesOK
  <2>2. FilesTimed'
    BY <1>0, <1>1, <1>2, <1>7 DEF FilesTimed, DevicesOK
  <2>3. db' = [db EXCEPT ![d] = e]
    BY <1>7
  <2>4. \A p \in Path : Recordable(e[p]) \/ e[p] = db[d][p]
    BY <1>0, <1>1, <1>4 DEF DevicesOK
  <2>. HIDE DEF e
  <2>5. Rerecorded(d, db[d], e)
    <3>1. db'[d] = e
      BY <1>0, <2>3 DEF DevicesOK
    <3>. QED
      BY <3>1
  <2>6. TreesOK'
    BY <1>0, <2>3, <2>4, <2>5, DeviceFollows
  <2>. QED
    BY <1>0, <1>5, <2>1, <2>2, <2>6, DescentStays DEF DeviceKept
<1>. QED
  BY <1>6, <1>7 DEF ReceiveDownload

LEMMA DeleteAnswerKeeps ==
  ASSUME TInv, NEW d \in Device, NEW m, ToDeviceOK(m), ReceiveDeleteAnswer(d, m),
         Follow(d, db'[d], SetToSeq(Changed(db[d], db'[d]))),
         UNCHANGED <<index, decided, commandsToSend>>
  PROVE  DeviceKept
<1>0. DevicesOK /\ FilesTimed /\ TreesOK /\ ToServerCarries(toServer) /\ DescentOK
  BY DEF TInv, StoresOK, LinksOK
<1>1. m.path \in Path
  BY DEF ReceiveDeleteAnswer, ToDeviceOK, DeleteAnswerMsg
<1>. DEFINE r == RecordDeletion(db[d][m.path], 0)
            e == IF m.done THEN [db[d] EXCEPT ![m.path] = r] ELSE db[d]
<1>2. r \in Entry /\ Recordable(r)
  BY DEF RecordDeletion, Recordable, Entry, NoTime, NoHash
<1>3. UNCHANGED <<now, edits, fs, toServer>> /\ db' = IF m.done THEN [db EXCEPT ![d][m.path] = r] ELSE db
  BY DEF ReceiveDeleteAnswer, userVars
<1>. HIDE DEF r
<1>4. db' = [db EXCEPT ![d] = e]
  BY <1>0, <1>3 DEF DevicesOK
<1>5. e \in [Path -> Entry] /\ \A p \in Path : Recordable(e[p]) \/ e[p] = db[d][p]
  BY <1>0, <1>1, <1>2 DEF DevicesOK
<1>. HIDE DEF e
<1>6. Rerecorded(d, db[d], e)
  <2>1. db'[d] = e
    BY <1>0, <1>4 DEF DevicesOK
  <2>. QED
    BY <2>1 DEF Follow, Rerecorded
<1>7. TreesOK'
  BY <1>0, <1>4, <1>5, <1>6, DeviceFollows
<1>8. DevicesOK' /\ FilesTimed'
  BY <1>0, <1>3, <1>4, <1>5 DEF DevicesOK, FilesTimed
<1>. QED
  BY <1>0, <1>3, <1>7, <1>8, DescentStays DEF DeviceKept

LEMMA DeviceKeepsTrees ==
  ASSUME TInv, NEW d \in Device, MerkleDeviceReceive(d)
  PROVE  TInv'
<1>. DEFINE m == Head(toDevice[d])
<1>1. UNCHANGED <<store, index, uploadMeta>>
  BY DEF MerkleDeviceReceive, serverVars
<1>2. ToDeviceOK(m) /\ ToDeviceCarries(toDevice')
  BY DeviceLinkKeeps DEF MerkleDeviceReceive, DeviceTakes, TInv, LinksOK
<1>3. \/ ReceiveNegotiation(d, m)
      \/ ReceiveDirectory(d, m)
      \/ /\ ReceiveUploadSize(d, m) \/ ReceiveUploadAck(d, m) \/ ReceiveDownload(d, m)
         /\ Rerecorded(d, db[d], db'[d])
         /\ UNCHANGED <<decided, commandsToSend>>
      \/ /\ ReceiveDeleteAnswer(d, m)
         /\ Follow(d, db'[d], SetToSeq(Changed(db[d], db'[d])))
         /\ UNCHANGED <<decided, commandsToSend>>
  BY DEF MerkleDeviceReceive, descentVars
<1>. HIDE DEF m
<1>4. DeviceKept
  BY <1>1, <1>2, <1>3, ReceiveNegotiationKeeps, ReceiveDirectoryKeeps, UploadSizeKeeps,
     UploadAckKeeps, DownloadKeeps, DeleteAnswerKeeps
<1>5. ServerTyped'
  BY <1>1 DEF TInv, StoresOK, ServerTyped
<1>. QED
  BY <1>2, <1>4, <1>5 DEF DeviceKept, TInv, StoresOK, LinksOK

-----------------------------------------------------------------------------
(* The tree of every device and of the server follows its metadata, from   *)
(* the scan of an edited file to the download on another device.           *)
THEOREM TreesHold == MerkleSpec => []TInv
<1>1. TInv /\ [MerkleNext]_allVars => TInv'
  <2> SUFFICES ASSUME TInv, [MerkleNext]_allVars PROVE TInv'
    OBVIOUS
  <2>1. CASE MerkleNext
    <3>1. PICK d \in Device :
            \/ \E p \in Path : UserWrites(d, p) \/ UserDeletes(d, p)
            \/ MerkleTick(d)
            \/ MerkleDeviceReceive(d)
            \/ MerkleServerReceive(d)
      BY <2>1 DEF MerkleNext
    <3>2. CASE \E p \in Path : UserWrites(d, p) \/ UserDeletes(d, p)
      BY <3>2, UserKeepsTrees DEF UserWrites, UserDeletes
    <3>3. CASE MerkleTick(d)
      BY <3>3, TickKeepsTrees
    <3>4. CASE MerkleDeviceReceive(d)
      BY <3>4, DeviceKeepsTrees
    <3>5. CASE MerkleServerReceive(d)
      BY <3>5, ServerKeepsTrees
    <3>. QED
      BY <3>1, <3>2, <3>3, <3>4, <3>5
  <2>2. CASE UNCHANGED allVars
    <3>1. UNCHANGED <<now, edits, fs, db, store, index, uploadMeta, toServer, toDevice, tree,
                      decided, commandsToSend>>
      BY <2>2 DEF allVars, vars, userVars, serverVars, netVars, merkleVars
    <3>2. StoresOK' /\ LinksOK' /\ DescentOK'
      BY <3>1 DEF TInv, StoresOK, DevicesOK, FilesTimed, ServerTyped, LinksOK, DescentOK
    <3>3. TreesOK'
      BY <3>1, TreesStay DEF TInv
    <3>. QED
      BY <3>2, <3>3 DEF TInv
  <2>. QED
    BY <2>1, <2>2
<1>. QED
  BY <1>1, TreesInit, PTL DEF MerkleSpec

(* A live file has the two fields that are set and nothing else.           *)
LEMMA LiveFileIs ==
  ASSUME NEW x, NEW y
  PROVE  LiveFile(x, y) = [mtime |-> x, deletedAt |-> NoTime, isDirectory |-> FALSE, hash |-> y]
<1>. DEFINE r == [mtime |-> NoTime, deletedAt |-> NoTime, isDirectory |-> FALSE, hash |-> NoHash]
            u == [r EXCEPT !.mtime = x]
            w == [u EXCEPT !.hash = y]
            v == [mtime |-> x, deletedAt |-> NoTime, isDirectory |-> FALSE, hash |-> y]
            fields == {"mtime", "deletedAt", "isDirectory", "hash"}
<1>1. /\ DOMAIN r = fields /\ r.deletedAt = NoTime /\ r.isDirectory = FALSE
      /\ DOMAIN v = fields /\ v = [k \in DOMAIN v |-> v[k]]
      /\ v.mtime = x /\ v.deletedAt = NoTime /\ v.isDirectory = FALSE /\ v.hash = y
  OBVIOUS
<1>. HIDE DEF r, v
<1>2. /\ DOMAIN u = fields /\ u.mtime = x
      /\ u.deletedAt = r.deletedAt /\ u.isDirectory = r.isDirectory
  BY <1>1
<1>. HIDE DEF u
<1>3. /\ DOMAIN w = fields /\ w = [k \in DOMAIN w |-> w[k]] /\ w.hash = y
      /\ w.mtime = u.mtime /\ w.deletedAt = u.deletedAt /\ w.isDirectory = u.isDirectory
  BY <1>2
<1>4. LiveFile(x, y) = w
  BY DEF LiveFile, Absent, u, w, r
<1>. HIDE DEF w
<1>5. \A k \in fields : w[k] = v[k]
  BY <1>1, <1>2, <1>3
<1>6. w = v
  BY <1>1, <1>3, <1>5
<1>. QED
  BY <1>4, <1>6 DEF v

LEMMA MirrorFollows ==
  ASSUME NEW t, Good(t), NEW p \in Path, NEW e \in Entry, Mirrors(t, p, e)
  PROVE  IF Tracked(e)
         THEN /\ NodeState(t, p) = LiveFile(e.mtime, NoHash)
              /\ t[p].hash = FileHash(e.hash)
         ELSE NodeState(t, p) \in {Absent, Tombstone(e.tomb)}
<1>1. CASE Tracked(e)
  <2>1. /\ p \in DOMAIN t /\ ~IsDeleted(t[p])
        /\ t[p].mtime = e.mtime /\ t[p].hash = FileHash(e.hash)
    BY <1>1 DEF Mirrors
  <2>2. ~IsDirectory(t[p])
    BY <2>1 DEF Good, Shape, NodeOK, IsDirectory
  <2>. DEFINE live == [mtime |-> e.mtime, deletedAt |-> NoTime, isDirectory |-> FALSE,
                       hash |-> NoHash]
  <2>3. LiveFile(e.mtime, NoHash) = live
    BY LiveFileIs
  <2>4. NodeState(t, p) = live
    <3>1. IsDirectory(t[p]) = FALSE
      BY <2>2 DEF IsDirectory
    <3>2. NodeState(t, p) = [mtime |-> t[p].mtime, deletedAt |-> NoTime,
                             isDirectory |-> IsDirectory(t[p]), hash |-> NoHash]
      BY <2>1 DEF NodeState
    <3>. QED
      BY <2>1, <3>1, <3>2
  <2>. HIDE DEF live
  <2>. QED
    BY <1>1, <2>1, <2>3, <2>4
<1>2. CASE ~Tracked(e)
  BY <1>2 DEF Mirrors, NodeState
<1>. QED
  BY <1>1, <1>2

(* A tracked file is a live leaf with its time and hash, another path is   *)
(* no node or a tombstone of the recorded time, and every hash in a tree   *)
(* is the hash of what is below it, in every state (verifyHashes).         *)
THEOREM TreesCorrect == MerkleSpec => []TreeFollowsMetadata
<1>1. TInv => TreeFollowsMetadata
  <2> SUFFICES ASSUME TInv PROVE TreeFollowsMetadata
    OBVIOUS
  <2>1. ASSUME NEW n \in Device \cup {Server}
        PROVE  /\ Verified(tree[n])
               /\ \A p \in Path : LET e == EntriesOf(n)[p] IN
                    IF Tracked(e)
                    THEN /\ NodeState(tree[n], p) = LiveFile(e.mtime, NoHash)
                         /\ tree[n][p].hash = FileHash(e.hash)
                    ELSE NodeState(tree[n], p) \in {Absent, Tombstone(e.tomb)}
    <3>1. Good(tree[n]) /\ \A p \in Path : Mirrors(tree[n], p, EntriesOf(n)[p])
      BY DEF TInv, TreesOK
    <3>2. \A p \in Path : EntriesOf(n)[p] \in Entry
      BY DEF TInv, StoresOK, DevicesOK, ServerTyped, EntriesOf
    <3>3. Verified(tree[n])
      BY <3>1 DEF Good
    <3>. QED
      BY <3>1, <3>2, <3>3, MirrorFollows
  <2>. QED
    BY <2>1 DEF TreeFollowsMetadata
<1>. QED
  BY <1>1, TreesHold, PTL

-----------------------------------------------------------------------------
(* What the descent has under way *)

(* A connection: a sequence, of whatever messages.                         *)
Line(q) == \E S : q \in Seq(S)

(* It holds messages of these types only.                                  *)
Kinds(q, types) == \A i \in DOMAIN q : q[i].type \in types

(* How many messages of certain types a connection holds.                  *)
LEMMA NumberIs == \A types, q : NumberOf(types, q) = Cardinality(OfTypes(q, types))
BY DEF NumberOf, OfTypes

LEMMA NumberSent ==
  ASSUME NEW q, Line(q), NEW x, NEW types
  PROVE  /\ Line(Append(q, x)) /\ NumberOf(types, q) \in Nat
         /\ NumberOf(types, Append(q, x))
              = NumberOf(types, q) + (IF x.type \in types THEN 1 ELSE 0)
<1>1. PICK S : q \in Seq(S)
  BY DEF Line
<1>. DEFINE T == S \cup {x}
<1>2. q \in Seq(T) /\ x \in T
  BY <1>1
<1>. HIDE DEF T
<1>3. Append(q, x) \in Seq(T)
  BY <1>2
<1>. QED
  BY <1>2, <1>3, SendCounts, OfTypesFinite, NumberIs DEF Line

LEMMA NumberTaken ==
  ASSUME NEW q, Line(q), q # <<>>, NEW types
  PROVE  /\ Line(Tail(q)) /\ NumberOf(types, q) \in Nat /\ NumberOf(types, Tail(q)) \in Nat
         /\ NumberOf(types, q)
              = NumberOf(types, Tail(q)) + (IF Head(q).type \in types THEN 1 ELSE 0)
<1>1. PICK S : q \in Seq(S)
  BY DEF Line
<1>2. Tail(q) \in Seq(S)
  BY <1>1, HeadTailProperties
<1>. QED
  BY <1>1, <1>2, TakeCounts, OfTypesFinite, NumberIs DEF Line

LEMMA NumberJoined ==
  ASSUME NEW q, Line(q), NEW r, Line(r), NEW types
  PROVE  /\ Line(q \o r) /\ NumberOf(types, q) \in Nat /\ NumberOf(types, r) \in Nat
         /\ NumberOf(types, q \o r) = NumberOf(types, q) + NumberOf(types, r)
<1>1. PICK S : q \in Seq(S)
  BY DEF Line
<1>2. PICK R : r \in Seq(R)
  BY DEF Line
<1>. DEFINE T == S \cup R
<1>3. q \in Seq(T) /\ r \in Seq(T)
  BY <1>1, <1>2
<1>. HIDE DEF T
<1>4. q \o r \in Seq(T)
  BY <1>3
<1>. QED
  BY <1>3, <1>4, JoinCounts, OfTypesFinite, NumberIs DEF Line

LEMMA NumberNone ==
  ASSUME NEW q, NEW kinds, Kinds(q, kinds), NEW types, kinds \cap types = {}
  PROVE  NumberOf(types, q) = 0
<1>1. OfTypes(q, types) = {}
  BY DEF Kinds, OfTypes
<1>. QED
  BY <1>1, NumberIs, FS_EmptySet

(* Only the types that occur count.                                        *)
LEMMA NumberSame ==
  ASSUME NEW q, NEW kinds, Kinds(q, kinds), NEW A, NEW B, kinds \cap A = kinds \cap B
  PROVE  NumberOf(A, q) = NumberOf(B, q)
<1>1. OfTypes(q, A) = OfTypes(q, B)
  BY DEF Kinds, OfTypes
<1>. QED
  BY <1>1, NumberIs

LEMMA KindsJoin ==
  ASSUME NEW q, Line(q), NEW r, Line(r), NEW kinds, Kinds(q, kinds), Kinds(r, kinds)
  PROVE  Line(q \o r) /\ Kinds(q \o r, kinds)
<1>1. PICK S : q \in Seq(S)
  BY DEF Line
<1>2. PICK R : r \in Seq(R)
  BY DEF Line
<1>. DEFINE s == q \o r
<1>3. /\ Len(q) \in Nat /\ Len(r) \in Nat
      /\ DOMAIN q = 1..Len(q) /\ DOMAIN r = 1..Len(r) /\ DOMAIN s = 1..(Len(q) + Len(r))
      /\ \A i \in 1..(Len(q) + Len(r)) : s[i] = IF i <= Len(q) THEN q[i] ELSE r[i - Len(q)]
  <2>. DEFINE T == S \cup R
  <2>1. q \in Seq(T) /\ r \in Seq(T)
    BY <1>1, <1>2
  <2>. HIDE DEF T
  <2>. QED
    BY <2>1
<1>. HIDE DEF s
<1>4. ASSUME NEW i \in DOMAIN s
      PROVE  s[i].type \in kinds
  <2>1. CASE i <= Len(q)
    <3>1. i \in DOMAIN q /\ s[i] = q[i]
      BY <1>3, <2>1
    <3>. QED
      BY <3>1 DEF Kinds
  <2>2. CASE ~(i <= Len(q))
    <3>1. i - Len(q) \in DOMAIN r /\ s[i] = r[i - Len(q)]
      BY <1>3, <2>2
    <3>. QED
      BY <3>1 DEF Kinds
  <2>. QED
    BY <2>1, <2>2
<1>. QED
  BY <1>4, NumberJoined DEF s, Kinds

LEMMA SendsLine == \A s : SendsOK(s) => Line(s)
BY DEF SendsOK, Line

-----------------------------------------------------------------------------
(* What a device asks for when a negotiation is over *)

RequestTypes == {"uploadRequest", "downloadRequest", "listDirectory"}

LEMMA RequestKinds ==
  ASSUME DevicesOK, NEW d \in Device, NEW ds, DecidedOK(ds),
         NEW order \in SetToSeqs(PathsWith(ds, "OnlyInRight"))
  PROVE  /\ Line(DecidedRequests(d, ds, order))
         /\ Kinds(DecidedRequests(d, ds, order), RequestTypes)
<1>1. ASSUME NEW bucket
      PROVE  Kinds(UploadsFor(d, ds, bucket), RequestTypes)
  BY DEF UploadsFor, UploadRequest, Kinds, RequestTypes
<1>2. ASSUME NEW ps
      PROVE  Kinds(DownloadsFor(ds, ps), RequestTypes)
  BY DEF DownloadsFor, DownloadRequest, DirectoryRequest, Kinds, RequestTypes
<1>3. \A bucket : PathsWith(ds, bucket) \subseteq DOMAIN ds /\ IsFiniteSet(PathsWith(ds, bucket))
  <2>1. \A bucket : PathsWith(ds, bucket) \subseteq DOMAIN ds
    BY DEF PathsWith
  <2>2. IsFiniteSet(DOMAIN ds)
    BY NodesFinite, FS_Subset DEF DecidedOK
  <2>. QED
    BY <2>1, <2>2, FS_Subset
<1>. DEFINE right == SetToSeq(PathsWith(ds, "ModifiedWinsRight"))
<1>4. order \in Seq(DOMAIN ds)
  <2>1. order \in Seq(PathsWith(ds, "OnlyInRight"))
    BY <1>3, OrderAll
  <2>. QED
    BY <1>3, <2>1
<1>5. right \in Seq(DOMAIN ds)
  <2>1. right \in Seq(PathsWith(ds, "ModifiedWinsRight"))
    BY <1>3, SetToSeqAll
  <2>. HIDE DEF right
  <2>. QED
    BY <1>3, <2>1
<1>. HIDE DEF right
<1>. DEFINE a == UploadsFor(d, ds, "OnlyInLeft")
            b == DownloadsFor(ds, order)
            c == UploadsFor(d, ds, "ModifiedWinsLeft")
            e == DownloadsFor(ds, right)
<1>6. Line(a) /\ Line(b) /\ Line(c) /\ Line(e)
  BY <1>4, <1>5, UploadsSend, DownloadsSend, SendsLine
<1>7. DecidedRequests(d, ds, order) = a \o b \o c \o e
  BY DEF DecidedRequests, right
<1>8. Kinds(a, RequestTypes) /\ Kinds(b, RequestTypes) /\ Kinds(c, RequestTypes) /\ Kinds(e, RequestTypes)
  BY <1>1, <1>2
<1>. HIDE DEF a, b, c, e
<1>9. Line(a \o b) /\ Kinds(a \o b, RequestTypes)
  BY <1>6, <1>8, KindsJoin
<1>10. Line(a \o b \o c) /\ Kinds(a \o b \o c, RequestTypes)
  BY <1>6, <1>8, <1>9, KindsJoin
<1>. QED
  BY <1>6, <1>7, <1>8, <1>10, KindsJoin

LEMMA CommandKinds ==
  ASSUME NEW staged, TimesOK(staged)
  PROVE  Line(Commands(staged)) /\ Kinds(Commands(staged), {"deleteRequest"})
<1>1. Kinds(Commands(staged), {"deleteRequest"})
  BY DEF Commands, Kinds
<1>. QED
  BY <1>1, CommandsSend, SendsLine

-----------------------------------------------------------------------------
(* The accounts of the descent *)

ListingTypes == {"listDirectory", "directory"}
RoundTypes   == {"negotiate", "negotiated"}

(* What a device knows of the messages of its descent, and what there are. *)
(* No negotiation is open while a listing is expected.                     *)
Expects(toS, toD, due, apply, open, staged) ==
  /\ due = NumberOf(ListingTypes, toS) + NumberOf(ListingTypes, toD)
  /\ apply <=> due # 0
  /\ NumberOf(RoundTypes, toS) + NumberOf(RoundTypes, toD) = IF open THEN 1 ELSE 0
  /\ DOMAIN staged # {} => due # 0
  /\ open => due = 0

Awaits(d) ==
  /\ negotiating[d] \in BOOLEAN
  /\ Expects(toServer[d], toDevice[d], pendingDirectoryRequests[d], inMerkleApply[d],
             negotiating[d], commandsToSend[d])

BothRun(d) == Running(d) /\ Running(Server)

LinesOK ==
  /\ DOMAIN toServer = Device /\ DOMAIN toDevice = Device
  /\ \A d \in Device : Line(toServer[d]) /\ Line(toDevice[d])

CountersOK ==
  /\ DOMAIN negotiating = Device /\ DOMAIN inMerkleApply = Device
  /\ DOMAIN pendingDirectoryRequests = Device
  /\ DOMAIN failure = Device \cup {Server}

NInv == CountersOK /\ \A d \in Device : BothRun(d) => Awaits(d)

LEMMA LinesAre == TInv => LinesOK
<1>. SUFFICES ASSUME TInv PROVE LinesOK
  OBVIOUS
<1>1. PICK S : toServer \in [Device -> Seq(S)]
  BY DEF TInv, LinksOK, ToServerCarries
<1>2. PICK R : toDevice \in [Device -> Seq(R)]
  BY DEF TInv, LinksOK, ToDeviceCarries
<1>. QED
  BY <1>1, <1>2 DEF LinesOK, Line

(* From f to g no more than the value of d changes.                        *)
At(f, g, d) == g = f \/ \E a : g = [f EXCEPT ![d] = a]

LEMMA AtElsewhere ==
  ASSUME NEW f, DOMAIN f = Device, NEW g, NEW d, At(f, g, d)
  PROVE  DOMAIN g = Device /\ \A e \in Device \ {d} : g[e] = f[e]
BY DEF At

FailsOnly ==
  \/ failure' = failure
  \/ \E n, what : what # "none" /\ failure' = [failure EXCEPT ![n] = what]

(* Only the device d and its connection change, and a process that has     *)
(* failed does not run again.                                              *)
OnlyFor(d) ==
  /\ At(toServer, toServer', d) /\ At(toDevice, toDevice', d)
  /\ At(negotiating, negotiating', d) /\ At(inMerkleApply, inMerkleApply', d)
  /\ At(pendingDirectoryRequests, pendingDirectoryRequests', d)
  /\ At(commandsToSend, commandsToSend', d)
  /\ FailsOnly

LEMMA FailsKeep ==
  ASSUME CountersOK, FailsOnly
  PROVE  /\ DOMAIN failure' = Device \cup {Server}
         /\ \A n \in Device \cup {Server} : failure'[n] = "none" => failure[n] = "none"
BY DEF CountersOK, FailsOnly

LEMMA OthersAwait ==
  ASSUME TInv, NInv, NEW d \in Device, OnlyFor(d),
         Awaits(d) /\ BothRun(d)' => Awaits(d)'
  PROVE  NInv'
<1>1. CountersOK' /\ \A n \in Device \cup {Server} : failure'[n] = "none" => failure[n] = "none"
  BY AtElsewhere, FailsKeep DEF OnlyFor, NInv, CountersOK
<1>2. ASSUME NEW e \in Device, BothRun(e)', e # d
      PROVE  Awaits(e)'
  <2>1. Awaits(e)
    BY <1>1, <1>2 DEF NInv, BothRun, Running
  <2>2. /\ toServer'[e] = toServer[e] /\ toDevice'[e] = toDevice[e]
        /\ pendingDirectoryRequests'[e] = pendingDirectoryRequests[e]
        /\ inMerkleApply'[e] = inMerkleApply[e] /\ negotiating'[e] = negotiating[e]
        /\ commandsToSend'[e] = commandsToSend[e]
    <3>1. LinesOK /\ DOMAIN commandsToSend = Device
      BY LinesAre DEF TInv, DescentOK
    <3>. QED
      BY <1>2, <3>1, AtElsewhere DEF OnlyFor, NInv, CountersOK, LinesOK
  <2>. QED
    BY <2>1, <2>2 DEF Awaits
<1>3. BothRun(d)' => Awaits(d)'
  BY <1>1 DEF NInv, BothRun, Running
<1>. QED
  BY <1>1, <1>2, <1>3 DEF NInv

(* A message of neither kind that comes or goes changes nothing.           *)
LEMMA ExpectsSent ==
  ASSUME NEW toS, Line(toS), NEW toD, NEW due, NEW apply, NEW open, NEW staged,
         Expects(toS, toD, due, apply, open, staged),
         NEW x, x.type \notin ListingTypes \cup RoundTypes
  PROVE  Line(Append(toS, x)) /\ Expects(Append(toS, x), toD, due, apply, open, staged)
<1>1. /\ NumberOf(ListingTypes, Append(toS, x)) = NumberOf(ListingTypes, toS)
      /\ NumberOf(RoundTypes, Append(toS, x)) = NumberOf(RoundTypes, toS)
      /\ Line(Append(toS, x))
  BY NumberSent
<1>. QED
  BY <1>1 DEF Expects

LEMMA ExpectsTaken ==
  ASSUME NEW toS, NEW toD, Line(toD), toD # <<>>, NEW due, NEW apply, NEW open, NEW staged,
         Expects(toS, toD, due, apply, open, staged),
         Head(toD).type \notin ListingTypes \cup RoundTypes
  PROVE  Expects(toS, Tail(toD), due, apply, open, staged)
<1>1. /\ NumberOf(ListingTypes, Tail(toD)) = NumberOf(ListingTypes, toD)
      /\ NumberOf(RoundTypes, Tail(toD)) = NumberOf(RoundTypes, toD)
  BY NumberTaken
<1>. QED
  BY <1>1 DEF Expects

(* The server answers a request, with a message of the same kind.          *)
LEMMA ExpectsAnswered ==
  ASSUME NEW toS, Line(toS), toS # <<>>, NEW toD, Line(toD), NEW due, NEW apply, NEW open,
         NEW staged, Expects(toS, toD, due, apply, open, staged), NEW x,
         Head(toS).type \in ListingTypes <=> x.type \in ListingTypes,
         Head(toS).type \in RoundTypes <=> x.type \in RoundTypes
  PROVE  Expects(Tail(toS), Append(toD, x), due, apply, open, staged)
<1>1. ASSUME NEW types, Head(toS).type \in types <=> x.type \in types
      PROVE  NumberOf(types, Tail(toS)) + NumberOf(types, Append(toD, x))
               = NumberOf(types, toS) + NumberOf(types, toD)
  <2>1. /\ NumberOf(types, Tail(toS)) \in Nat
        /\ NumberOf(types, toS)
             = NumberOf(types, Tail(toS)) + (IF Head(toS).type \in types THEN 1 ELSE 0)
    BY NumberTaken
  <2>2. /\ NumberOf(types, toD) \in Nat
        /\ NumberOf(types, Append(toD, x))
             = NumberOf(types, toD) + (IF x.type \in types THEN 1 ELSE 0)
    BY NumberSent
  <2>. QED
    BY <1>1, <2>1, <2>2
<1>. QED
  BY <1>1 DEF Expects

(* A device starts a negotiation.                                          *)
LEMMA ExpectsTick ==
  ASSUME NEW toS, Line(toS), NEW toD, Line(toD), NEW apply, NEW staged,
         Expects(toS, toD, 0, apply, FALSE, staged), NEW x, x.type = "negotiate"
  PROVE  Expects(Append(toS, x), toD, 0, apply, TRUE, staged)
<1>1. /\ NumberOf(ListingTypes, Append(toS, x)) = NumberOf(ListingTypes, toS)
      /\ NumberOf(RoundTypes, Append(toS, x)) = NumberOf(RoundTypes, toS) + 1
      /\ NumberOf(RoundTypes, toS) \in Nat /\ NumberOf(ListingTypes, toS) \in Nat
  BY NumberSent DEF ListingTypes, RoundTypes
<1>2. NumberOf(RoundTypes, toD) \in Nat
  BY NumberSent
<1>. QED
  BY <1>1, <1>2 DEF Expects

(* The answer of a round has come: it was the only one, and nothing else   *)
(* of the descent is on its way.                                           *)
LEMMA ExpectsEnd ==
  ASSUME NEW toS, Line(toS), NEW toD, Line(toD), toD # <<>>, NEW due, NEW apply,
         NEW open \in BOOLEAN, NEW staged, Expects(toS, toD, due, apply, open, staged),
         Head(toD).type = "negotiated"
  PROVE  /\ open /\ due = 0
         /\ NumberOf(ListingTypes, toS) + NumberOf(ListingTypes, Tail(toD)) = 0
         /\ NumberOf(RoundTypes, toS) + NumberOf(RoundTypes, Tail(toD)) = 0
<1>1. /\ NumberOf(ListingTypes, toD) = NumberOf(ListingTypes, Tail(toD))
      /\ NumberOf(RoundTypes, toD) = NumberOf(RoundTypes, Tail(toD)) + 1
      /\ NumberOf(RoundTypes, Tail(toD)) \in Nat
  BY NumberTaken DEF ListingTypes, RoundTypes
<1>2. NumberOf(RoundTypes, toS) \in Nat
  BY NumberSent
<1>3. open /\ due = 0
  BY <1>1, <1>2 DEF Expects
<1>. QED
  BY <1>1, <1>2, <1>3 DEF Expects

(* The request of the next round follows.                                  *)
LEMMA ExpectsRound ==
  ASSUME NEW toS, Line(toS), NEW toD, Line(toD), toD # <<>>, NEW due, NEW apply,
         NEW open \in BOOLEAN, NEW staged, Expects(toS, toD, due, apply, open, staged),
         Head(toD).type = "negotiated", NEW x, x.type = "negotiate"
  PROVE  Expects(Append(toS, x), Tail(toD), due, apply, open, staged)
<1>1. Line(Tail(toD))
  BY NumberTaken
<1>2. /\ open /\ due = 0
      /\ NumberOf(ListingTypes, toS) + NumberOf(ListingTypes, Tail(toD)) = 0
      /\ NumberOf(RoundTypes, toS) + NumberOf(RoundTypes, Tail(toD)) = 0
  BY ExpectsEnd
<1>4. open = TRUE
  BY <1>2
<1>5. Expects(toS, Tail(toD), 0, apply, FALSE, staged)
  BY <1>2 DEF Expects
<1>3. Expects(Append(toS, x), Tail(toD), 0, apply, TRUE, staged)
  BY <1>1, <1>5, ExpectsTick
<1>. QED
  BY <1>2, <1>3, <1>4

(* A listing has come.                                                     *)
LEMMA ExpectsListing ==
  ASSUME NEW toS, Line(toS), NEW toD, Line(toD), toD # <<>>, NEW due, NEW apply,
         NEW open \in BOOLEAN, NEW staged, Expects(toS, toD, due, apply, open, staged),
         Head(toD).type = "directory"
  PROVE  /\ apply /\ ~open
         /\ due \in Nat \ {0}
         /\ due - 1 = NumberOf(ListingTypes, toS) + NumberOf(ListingTypes, Tail(toD))
         /\ NumberOf(RoundTypes, toS) + NumberOf(RoundTypes, Tail(toD)) = 0
<1>1. /\ NumberOf(ListingTypes, toD) = NumberOf(ListingTypes, Tail(toD)) + 1
      /\ NumberOf(RoundTypes, toD) = NumberOf(RoundTypes, Tail(toD))
      /\ NumberOf(ListingTypes, Tail(toD)) \in Nat
  BY NumberTaken DEF ListingTypes, RoundTypes
<1>2. NumberOf(ListingTypes, toS) \in Nat
  BY NumberSent
<1>. QED
  BY <1>1, <1>2 DEF Expects

(* Requests and commands leave, listings among them.                       *)
LEMMA ExpectsStart ==
  ASSUME NEW toS, Line(toS), NEW toD, Line(toD), NEW requests, Line(requests),
         Kinds(requests, RequestTypes), NEW staged, TimesOK(staged), NEW due \in Nat,
         due = NumberOf(ListingTypes, toS) + NumberOf(ListingTypes, toD)
                 + NumberOf({"listDirectory"}, requests),
         NumberOf(RoundTypes, toS) + NumberOf(RoundTypes, toD) = 0
  PROVE  Expects(toS \o requests \o (IF due = 0 THEN Commands(staged) ELSE <<>>), toD, due,
                 due # 0, FALSE, IF due = 0 THEN <<>> ELSE staged)
<1>. DEFINE none == <<>>
            flushed == IF due = 0 THEN Commands(staged) ELSE none
            rest == IF due = 0 THEN none ELSE staged
            q == toS \o requests
<1>1. Line(none) /\ Kinds(none, {"deleteRequest"}) /\ DOMAIN none = {}
  BY DEF Line, Kinds
<1>. HIDE DEF none
<1>2. Line(flushed) /\ Kinds(flushed, {"deleteRequest"})
  BY <1>1, CommandKinds
<1>3. DOMAIN rest # {} => due # 0
  BY <1>1
<1>. HIDE DEF flushed, rest
<1>4. /\ NumberOf(ListingTypes, requests) = NumberOf({"listDirectory"}, requests)
      /\ NumberOf(RoundTypes, requests) = 0
  <2>1. RequestTypes \cap ListingTypes = RequestTypes \cap {"listDirectory"}
    BY DEF RequestTypes, ListingTypes
  <2>2. RequestTypes \cap RoundTypes = {}
    BY DEF RequestTypes, RoundTypes
  <2>. QED
    BY <2>1, <2>2, NumberSame, NumberNone
<1>5. NumberOf(ListingTypes, flushed) = 0 /\ NumberOf(RoundTypes, flushed) = 0
  <2>1. {"deleteRequest"} \cap ListingTypes = {} /\ {"deleteRequest"} \cap RoundTypes = {}
    BY DEF ListingTypes, RoundTypes
  <2>. QED
    BY <1>2, <2>1, NumberNone
<1>6. /\ Line(q)
      /\ \A types : /\ NumberOf(types, q) = NumberOf(types, toS) + NumberOf(types, requests)
                    /\ NumberOf(types, toS) \in Nat /\ NumberOf(types, requests) \in Nat
  BY NumberJoined
<1>. HIDE DEF q
<1>7. \A types : NumberOf(types, q \o flushed) = NumberOf(types, q) + NumberOf(types, flushed)
  BY <1>2, <1>6, NumberJoined
<1>8. \A types : NumberOf(types, toD) \in Nat
  BY NumberSent
<1>9. Expects(q \o flushed, toD, due, due # 0, FALSE, rest)
  <2>. DEFINE w == q \o flushed
  <2>1. /\ NumberOf(ListingTypes, w) = NumberOf(ListingTypes, toS) + NumberOf({"listDirectory"}, requests)
        /\ NumberOf(ListingTypes, toS) \in Nat /\ NumberOf({"listDirectory"}, requests) \in Nat
        /\ NumberOf(ListingTypes, toD) \in Nat
    BY <1>4, <1>5, <1>6, <1>7, <1>8
  <2>2. /\ NumberOf(RoundTypes, w) = NumberOf(RoundTypes, toS)
        /\ NumberOf(RoundTypes, toS) \in Nat
    BY <1>4, <1>5, <1>6, <1>7
  <2>. HIDE DEF w
  <2>3. due = NumberOf(ListingTypes, w) + NumberOf(ListingTypes, toD)
    BY <2>1
  <2>4. NumberOf(RoundTypes, w) + NumberOf(RoundTypes, toD) = 0
    BY <2>2
  <2>5. Expects(w, toD, due, due # 0, FALSE, rest)
    BY <1>3, <2>3, <2>4 DEF Expects
  <2>. QED
    BY <2>5 DEF w
<1>. QED
  BY <1>9 DEF q, flushed, rest, none

-----------------------------------------------------------------------------
(* Steps *)

LEMMA FollowFails == \A n, entries, ps : Follow(n, entries, ps) => FailsOnly
BY DEF Follow, FailsOnly

LEMMA StartAwaits ==
  ASSUME TInv, CountersOK, NEW d \in Device, NEW requests, Line(requests),
         Kinds(requests, RequestTypes), NEW staged, TimesOK(staged), NEW due,
         StartRequests(d, requests, staged, due), negotiating'[d] = FALSE,
         Line(toDevice'[d])
  PROVE  /\ At(toServer, toServer', d) /\ At(inMerkleApply, inMerkleApply', d)
         /\ At(pendingDirectoryRequests, pendingDirectoryRequests', d)
         /\ At(commandsToSend, commandsToSend', d)
         /\ /\ due \in Nat
            /\ due = NumberOf(ListingTypes, toServer[d]) + NumberOf(ListingTypes, toDevice'[d])
                       + NumberOf({"listDirectory"}, requests)
            /\ NumberOf(RoundTypes, toServer[d]) + NumberOf(RoundTypes, toDevice'[d]) = 0
            => Awaits(d)'
<1>. DEFINE sent == toServer[d] \o requests \o (IF due = 0 THEN Commands(staged) ELSE <<>>)
            left == IF due = 0 THEN <<>> ELSE staged
<1>1. /\ toServer' = [toServer EXCEPT ![d] = sent]
      /\ inMerkleApply' = [inMerkleApply EXCEPT ![d] = due # 0]
      /\ pendingDirectoryRequests' = [pendingDirectoryRequests EXCEPT ![d] = due]
      /\ commandsToSend' = [commandsToSend EXCEPT ![d] = left]
  BY DEF StartRequests
<1>2. LinesOK /\ DOMAIN commandsToSend = Device
  BY LinesAre DEF TInv, DescentOK
<1>3. ASSUME due \in Nat,
             due = NumberOf(ListingTypes, toServer[d]) + NumberOf(ListingTypes, toDevice'[d])
                     + NumberOf({"listDirectory"}, requests),
             NumberOf(RoundTypes, toServer[d]) + NumberOf(RoundTypes, toDevice'[d]) = 0
      PROVE  Awaits(d)'
  <2>1. Expects(sent, toDevice'[d], due, due # 0, FALSE, left)
    BY <1>2, <1>3, ExpectsStart DEF LinesOK
  <2>. HIDE DEF sent, left
  <2>. DEFINE waits == due # 0
  <2>2. Expects(sent, toDevice'[d], due, waits, FALSE, left)
    BY <2>1
  <2>3. inMerkleApply' = [inMerkleApply EXCEPT ![d] = waits]
    BY <1>1
  <2>. HIDE DEF waits
  <2>4. /\ toServer'[d] = sent /\ inMerkleApply'[d] = waits
        /\ pendingDirectoryRequests'[d] = due /\ commandsToSend'[d] = left
    BY <1>1, <1>2, <2>3 DEF CountersOK, LinesOK
  <2>. QED
    BY <2>2, <2>4 DEF Awaits
<1>. HIDE DEF sent, left
<1>4. At(inMerkleApply, inMerkleApply', d)
  BY <1>1 DEF At
<1>. QED
  BY <1>1, <1>3, <1>4 DEF At

LEMMA CompletedAwaits ==
  ASSUME TInv, CountersOK, NEW d \in Device, NEW ds, DecidedOK(ds),
         NegotiationCompleted(d, ds), Line(toDevice'[d]), At(toDevice, toDevice', d)
  PROVE  /\ OnlyFor(d)
         /\ Expects(toServer[d], toDevice'[d], 0, inMerkleApply[d], FALSE, commandsToSend[d])
              => Awaits(d)'
<1>. DEFINE staged == Staged(d, ds)
<1>1. TimesOK(staged)
  BY StagedTimes
<1>. HIDE DEF staged
<1>2. PICK order \in SetToSeqs(PathsWith(ds, "OnlyInRight")) :
        StartRequests(d, DecidedRequests(d, ds, order), staged,
                      DirectoriesIn(DecidedRequests(d, ds, order)))
  BY DEF NegotiationCompleted, staged
<1>. DEFINE requests == DecidedRequests(d, ds, order)
            due      == DirectoriesIn(requests)
<1>3. Line(requests) /\ Kinds(requests, RequestTypes)
  BY RequestKinds DEF TInv, StoresOK
<1>4. StartRequests(d, requests, staged, due) /\ due = NumberOf({"listDirectory"}, requests)
  BY <1>2 DEF DirectoriesIn
<1>. HIDE DEF requests, due
<1>5. due \in Nat
  BY <1>3, <1>4, NumberSent
<1>6. negotiating' = [negotiating EXCEPT ![d] = FALSE]
  BY DEF NegotiationCompleted
<1>7. negotiating'[d] = FALSE /\ At(negotiating, negotiating', d)
  BY <1>6 DEF CountersOK, At
<1>8. FailsOnly
  BY FollowFails DEF NegotiationCompleted, ApplyTombstones
<1>9. /\ At(toServer, toServer', d) /\ At(inMerkleApply, inMerkleApply', d)
      /\ At(pendingDirectoryRequests, pendingDirectoryRequests', d)
      /\ At(commandsToSend, commandsToSend', d)
      /\ /\ due \in Nat
         /\ due = NumberOf(ListingTypes, toServer[d]) + NumberOf(ListingTypes, toDevice'[d])
                    + NumberOf({"listDirectory"}, requests)
         /\ NumberOf(RoundTypes, toServer[d]) + NumberOf(RoundTypes, toDevice'[d]) = 0
         => Awaits(d)'
  BY <1>1, <1>3, <1>4, <1>7, StartAwaits
<1>10. ASSUME Expects(toServer[d], toDevice'[d], 0, inMerkleApply[d], FALSE, commandsToSend[d])
       PROVE  Awaits(d)'
  <2>1. /\ NumberOf(ListingTypes, toServer[d]) \in Nat /\ NumberOf(ListingTypes, toDevice'[d]) \in Nat
    BY LinesAre, NumberSent DEF LinesOK
  <2>. QED
    BY <1>4, <1>5, <1>9, <1>10, <2>1 DEF Expects
<1>. QED
  BY <1>7, <1>8, <1>9, <1>10 DEF OnlyFor

(* The device takes the first message.                                     *)
Took(d) ==
  /\ toDevice[d] # <<>> /\ DOMAIN toDevice = Device
  /\ toDevice' = [toDevice EXCEPT ![d] = Tail(@)]

LEMMA TookIs ==
  ASSUME NEW d \in Device, Took(d)
  PROVE  toDevice'[d] = Tail(toDevice[d]) /\ At(toDevice, toDevice', d)
BY DEF Took, At

LEMMA NegotiationAwaits ==
  ASSUME TInv, CountersOK, NEW d \in Device, Took(d), NEW m, m = Head(toDevice[d]),
         ToDeviceOK(m), ReceiveNegotiation(d, m)
  PROVE  OnlyFor(d) /\ (Awaits(d) /\ BothRun(d)' => Awaits(d)')
<1>. DEFINE ask == [type |-> "negotiate", phase |-> 1, root |-> EmptyHash,
                    parents |-> NextParents(RoundOf(tree[d], m.lists))]
            ds  == Over(Decisions(RoundOf(tree[d], m.lists)), decided[d])
<1>1. m.type = "negotiated" /\ ask.type = "negotiate"
  BY DEF ReceiveNegotiation
<1>2. \/ Fail(d, "no directory") /\ UNCHANGED <<toServer, merkleVars>>
      \/ /\ toServer' = [toServer EXCEPT ![d] = Append(@, ask)]
         /\ UNCHANGED <<negotiating, inMerkleApply, pendingDirectoryRequests, commandsToSend,
                        failure>>
      \/ /\ DOMAIN m.lists \subseteq DOMAIN tree[d]
         /\ NegotiationCompleted(d, ds)
  BY DEF ReceiveNegotiation
<1>. HIDE DEF ask
<1>3. /\ toDevice'[d] = Tail(toDevice[d]) /\ At(toDevice, toDevice', d) /\ toDevice[d] # <<>>
      /\ LinesOK /\ Line(toDevice[d]) /\ Line(toDevice'[d]) /\ Line(toServer[d])
  <2>1. LinesOK
    BY LinesAre
  <2>2. Line(toDevice[d]) /\ Line(toServer[d]) /\ toDevice[d] # <<>>
    BY <2>1 DEF LinesOK, Took
  <2>3. Line(Tail(toDevice[d]))
    BY <2>2, NumberTaken
  <2>. QED
    BY <2>1, <2>2, <2>3, TookIs
<1>4. CASE Fail(d, "no directory") /\ UNCHANGED <<toServer, merkleVars>>
  <2>1. UNCHANGED <<toServer, negotiating, inMerkleApply, pendingDirectoryRequests,
                    commandsToSend>>
    BY <1>4 DEF merkleVars
  <2>2. FailsOnly /\ ~BothRun(d)'
    BY <1>4 DEF FailsOnly, Fail, BothRun, Running, CountersOK
  <2>. QED
    BY <1>3, <2>1, <2>2 DEF OnlyFor, At
<1>5. CASE /\ toServer' = [toServer EXCEPT ![d] = Append(@, ask)]
           /\ UNCHANGED <<negotiating, inMerkleApply, pendingDirectoryRequests, commandsToSend,
                          failure>>
  <2>1. OnlyFor(d)
    BY <1>3, <1>5 DEF OnlyFor, At, FailsOnly
  <2>2. toServer'[d] = Append(toServer[d], ask)
    BY <1>3, <1>5 DEF LinesOK
  <2>3. Awaits(d) => Awaits(d)'
    <3>. SUFFICES ASSUME Awaits(d) PROVE Awaits(d)'
      OBVIOUS
    <3>. DEFINE toS == toServer[d]
                toD == toDevice[d]
                due == pendingDirectoryRequests[d]
                apply == inMerkleApply[d]
                open == negotiating[d]
                staged == commandsToSend[d]
    <3>1. /\ open \in BOOLEAN /\ Head(toD).type = "negotiated"
          /\ Expects(toS, toD, due, apply, open, staged)
      BY <1>1 DEF Awaits
    <3>4. Line(toS) /\ Line(toD) /\ toD # <<>>
      BY <1>3
    <3>. HIDE DEF toS, toD, due, apply, open, staged
    <3>2. Expects(Append(toS, ask), Tail(toD), due, apply, open, staged)
      BY <1>1, <3>1, <3>4, ExpectsRound
    <3>3. Expects(Append(toServer[d], ask), Tail(toDevice[d]), pendingDirectoryRequests[d],
                  inMerkleApply[d], negotiating[d], commandsToSend[d])
      BY <3>2 DEF toS, toD, due, apply, open, staged
    <3>. QED
      BY <1>3, <1>5, <2>2, <3>1, <3>3 DEF Awaits
  <2>. QED
    BY <2>1, <2>3
<1>6. CASE /\ DOMAIN m.lists \subseteq DOMAIN tree[d]
           /\ NegotiationCompleted(d, ds)
  <2>1. DecidedOK(ds)
    <3>. DEFINE t == tree[d]
    <3>1. Good(t) /\ \A p \in Path : Mirrors(t, p, db[d][p])
      BY ServerAssumption DEF TInv, TreesOK, EntriesOf
    <3>2. db[d] \in [Path -> Entry] /\ ListsOK(m.lists)
      BY <1>1 DEF TInv, StoresOK, DevicesOK, ToDeviceOK
    <3>3. DOMAIN m.lists \subseteq DOMAIN t
      BY <1>6
    <3>4. DecidedOK(decided[d])
      BY DEF TInv, DescentOK
    <3>. HIDE DEF t
    <3>5. DecidedOK(Decisions(RoundOf(t, m.lists)))
      BY <3>1, <3>2, <3>3, RoundDecides
    <3>6. DecidedOK(Over(Decisions(RoundOf(t, m.lists)), decided[d]))
      BY <3>4, <3>5, OverDecides
    <3>. QED
      BY <3>6 DEF t
  <2>. HIDE DEF ds
  <2>2. /\ OnlyFor(d)
        /\ Expects(toServer[d], toDevice'[d], 0, inMerkleApply[d], FALSE, commandsToSend[d])
             => Awaits(d)'
    BY <1>3, <1>6, <2>1, CompletedAwaits
  <2>3. ASSUME Awaits(d)
        PROVE  Expects(toServer[d], toDevice'[d], 0, inMerkleApply[d], FALSE, commandsToSend[d])
    <3>. DEFINE toS == toServer[d]
                toD == toDevice[d]
                due == pendingDirectoryRequests[d]
                apply == inMerkleApply[d]
                open == negotiating[d]
                staged == commandsToSend[d]
    <3>1. /\ open \in BOOLEAN /\ Head(toD).type = "negotiated"
          /\ Expects(toS, toD, due, apply, open, staged)
      BY <1>1, <2>3 DEF Awaits
    <3>4. Line(toS) /\ Line(toD) /\ toD # <<>>
      BY <1>3
    <3>. HIDE DEF toS, toD, due, apply, open, staged
    <3>3. /\ open /\ due = 0
          /\ NumberOf(ListingTypes, toS) + NumberOf(ListingTypes, Tail(toD)) = 0
          /\ NumberOf(RoundTypes, toS) + NumberOf(RoundTypes, Tail(toD)) = 0
      BY <3>1, <3>4, ExpectsEnd
    <3>5. Expects(toS, Tail(toD), 0, apply, FALSE, staged)
      BY <3>1, <3>3 DEF Expects
    <3>2. Expects(toServer[d], Tail(toDevice[d]), 0, inMerkleApply[d], FALSE, commandsToSend[d])
      BY <3>5 DEF toS, toD, due, apply, open, staged
    <3>. QED
      BY <1>3, <3>2
  <2>. QED
    BY <2>2, <2>3
<1>. QED
  BY <1>2, <1>4, <1>5, <1>6

LEMMA DownloadKinds ==
  ASSUME NEW entries
  PROVE  /\ Line(DownloadsOf(entries)) /\ Kinds(DownloadsOf(entries), RequestTypes)
         /\ NumberOf({"listDirectory"}, DownloadsOf(entries)) = 0
<1>. DEFINE S == {p \in Path : Tracked(entries[p])}
            ps == SetToSeq(S)
            s == DownloadsOf(entries)
<1>1. s = [i \in DOMAIN ps |-> DownloadRequest(ps[i])]
  BY DEF DownloadsOf
<1>2. ps \in Seq(S)
  <2>1. IsFiniteSet(S)
    BY PathAssumption, FS_Subset
  <2>. HIDE DEF S
  <2>. QED
    BY <2>1, SetToSeqAll
<1>. HIDE DEF S, ps, s
<1>3. Line(s)
  <2>. DEFINE T == {DownloadRequest(ps[i]) : i \in 1..Len(ps)}
  <2>1. DOMAIN ps = 1..Len(ps) /\ Len(ps) \in Nat
    BY <1>2
  <2>2. \A i \in 1..Len(ps) : DownloadRequest(ps[i]) \in T
    OBVIOUS
  <2>. HIDE DEF T
  <2>3. s \in Seq(T)
    BY <1>1, <2>1, <2>2
  <2>. QED
    BY <2>3 DEF Line
<1>4. Kinds(s, {"downloadRequest"}) /\ Kinds(s, RequestTypes)
  BY <1>1 DEF Kinds, DownloadRequest, RequestTypes
<1>5. NumberOf({"listDirectory"}, s) = 0
  <2>1. {"downloadRequest"} \cap {"listDirectory"} = {}
    OBVIOUS
  <2>. QED
    BY <1>4, <2>1, NumberNone
<1>. QED
  BY <1>3, <1>4, <1>5 DEF s

LEMMA DirectoryAwaits ==
  ASSUME TInv, CountersOK, NEW d \in Device, Took(d), NEW m, m = Head(toDevice[d]),
         ToDeviceOK(m), ReceiveDirectory(d, m)
  PROVE  OnlyFor(d) /\ (Awaits(d) /\ BothRun(d)' => Awaits(d)')
<1>1. m.type = "directory"
  BY DEF ReceiveDirectory
<1>2. /\ toDevice'[d] = Tail(toDevice[d]) /\ At(toDevice, toDevice', d) /\ toDevice[d] # <<>>
      /\ Line(toDevice[d]) /\ Line(toDevice'[d]) /\ Line(toServer[d])
  <2>1. Line(toDevice[d]) /\ Line(toServer[d]) /\ toDevice[d] # <<>>
    BY LinesAre DEF LinesOK, Took
  <2>2. Line(Tail(toDevice[d]))
    BY <2>1, NumberTaken
  <2>. QED
    BY <2>1, <2>2, TookIs
<1>3. ASSUME Awaits(d)
      PROVE  /\ inMerkleApply[d] /\ negotiating[d] = FALSE
             /\ pendingDirectoryRequests[d] \in Nat \ {0}
             /\ pendingDirectoryRequests[d] - 1
                  = NumberOf(ListingTypes, toServer[d]) + NumberOf(ListingTypes, toDevice'[d])
             /\ NumberOf(RoundTypes, toServer[d]) + NumberOf(RoundTypes, toDevice'[d]) = 0
  <2>. DEFINE toS == toServer[d]
              toD == toDevice[d]
              due == pendingDirectoryRequests[d]
              apply == inMerkleApply[d]
              open == negotiating[d]
              staged == commandsToSend[d]
  <2>1. /\ open \in BOOLEAN /\ Head(toD).type = "directory"
        /\ Expects(toS, toD, due, apply, open, staged)
    BY <1>1, <1>3 DEF Awaits
  <2>3. Line(toS) /\ Line(toD) /\ toD # <<>>
    BY <1>2
  <2>. HIDE DEF toS, toD, due, apply, open, staged
  <2>4. /\ apply /\ ~open
        /\ due \in Nat \ {0}
        /\ due - 1 = NumberOf(ListingTypes, toS) + NumberOf(ListingTypes, Tail(toD))
        /\ NumberOf(RoundTypes, toS) + NumberOf(RoundTypes, Tail(toD)) = 0
    BY <2>1, <2>3, ExpectsListing
  <2>2. /\ inMerkleApply[d] /\ ~negotiating[d]
        /\ pendingDirectoryRequests[d] \in Nat \ {0}
        /\ pendingDirectoryRequests[d] - 1
             = NumberOf(ListingTypes, toServer[d]) + NumberOf(ListingTypes, Tail(toDevice[d]))
        /\ NumberOf(RoundTypes, toServer[d]) + NumberOf(RoundTypes, Tail(toDevice[d])) = 0
    BY <2>4 DEF toS, toD, due, apply, open, staged
  <2>5. negotiating[d] \in BOOLEAN
    BY <2>1 DEF open
  <2>. QED
    BY <1>2, <2>2, <2>5
<1>4. CASE inMerkleApply[d]
  <2>. DEFINE requests == DownloadsOf(m.entries)
              staged   == commandsToSend[d]
              due      == ListingsDue(d, m.entries)
  <2>1. /\ StartRequests(d, requests, staged, due)
        /\ due = pendingDirectoryRequests[d] - 1
        /\ UNCHANGED negotiating /\ FailsOnly
    BY <1>4, FollowFails DEF ReceiveDirectory, ApplyTombstones, ListingsDue
  <2>2. /\ Line(requests) /\ Kinds(requests, RequestTypes) /\ TimesOK(staged)
        /\ NumberOf({"listDirectory"}, requests) = 0
    BY DownloadKinds DEF TInv, DescentOK
  <2>. HIDE DEF requests, staged, due
  <2>3. CASE negotiating[d] = FALSE
    <3>1. /\ At(toServer, toServer', d) /\ At(inMerkleApply, inMerkleApply', d)
          /\ At(pendingDirectoryRequests, pendingDirectoryRequests', d)
          /\ At(commandsToSend, commandsToSend', d)
          /\ /\ due \in Nat
             /\ due = NumberOf(ListingTypes, toServer[d]) + NumberOf(ListingTypes, toDevice'[d])
                        + NumberOf({"listDirectory"}, requests)
             /\ NumberOf(RoundTypes, toServer[d]) + NumberOf(RoundTypes, toDevice'[d]) = 0
             => Awaits(d)'
      BY <1>2, <2>1, <2>2, <2>3, StartAwaits
    <3>2. Awaits(d) => Awaits(d)'
      <4>1. \A n \in Nat \ {0} : n - 1 \in Nat /\ n - 1 + 0 = n - 1
        OBVIOUS
      <4>. QED
        BY <1>3, <2>1, <2>2, <3>1, <4>1
    <3>. QED
      BY <1>2, <2>1, <3>1, <3>2 DEF OnlyFor, At
  <2>4. CASE negotiating[d] # FALSE
    <3>1. ~Awaits(d)
      BY <1>3, <2>4
    <3>. QED
      BY <1>2, <2>1, <3>1 DEF OnlyFor, At, StartRequests
  <2>. QED
    BY <2>3, <2>4
<1>5. CASE ~inMerkleApply[d]
  <2>1. ~Awaits(d)
    BY <1>3, <1>5
  <2>2. /\ UNCHANGED <<negotiating, inMerkleApply, pendingDirectoryRequests, commandsToSend, failure>>
        /\ \E a : toServer' = [toServer EXCEPT ![d] = a]
    BY <1>5 DEF ReceiveDirectory, ReceiveList
  <2>. QED
    BY <1>2, <2>1, <2>2 DEF OnlyFor, At, FailsOnly
<1>. QED
  BY <1>4, <1>5

(* The other answers.                                                      *)
LEMMA AnswerAwaits ==
  ASSUME TInv, CountersOK, NEW d \in Device, Took(d), NEW m, m = Head(toDevice[d]),
         m.type \in {"uploadSize", "uploadAck", "download", "deleteAnswer"},
         UNCHANGED <<negotiating, inMerkleApply, pendingDirectoryRequests, commandsToSend>>,
         FailsOnly,
         \/ toServer' = toServer
         \/ \E x : x.type = "chunk" /\ toServer' = [toServer EXCEPT ![d] = Append(@, x)]
  PROVE  OnlyFor(d) /\ (Awaits(d) /\ BothRun(d)' => Awaits(d)')
<1>1. /\ toDevice'[d] = Tail(toDevice[d]) /\ At(toDevice, toDevice', d) /\ toDevice[d] # <<>>
      /\ LinesOK /\ Line(toDevice[d]) /\ Line(toServer[d])
  BY LinesAre, TookIs DEF LinesOK, Took
<1>2. OnlyFor(d)
  BY <1>1 DEF OnlyFor, At
<1>3. ASSUME Awaits(d)
      PROVE  Awaits(d)'
  <2>1. Expects(toServer[d], Tail(toDevice[d]), pendingDirectoryRequests[d], inMerkleApply[d],
                negotiating[d], commandsToSend[d])
    <3>1. m.type \notin ListingTypes \cup RoundTypes
      BY DEF ListingTypes, RoundTypes
    <3>. QED
      BY <1>1, <1>3, <3>1, ExpectsTaken DEF Awaits
  <2>2. CASE toServer' = toServer
    BY <1>1, <1>3, <2>1, <2>2 DEF Awaits
  <2>3. ASSUME NEW x, x.type = "chunk", toServer' = [toServer EXCEPT ![d] = Append(@, x)]
        PROVE  Awaits(d)'
    <3>1. toServer'[d] = Append(toServer[d], x)
      BY <1>1, <2>3 DEF LinesOK
    <3>2. x.type \notin ListingTypes \cup RoundTypes
      BY <2>3 DEF ListingTypes, RoundTypes
    <3>3. Expects(Append(toServer[d], x), Tail(toDevice[d]), pendingDirectoryRequests[d],
                  inMerkleApply[d], negotiating[d], commandsToSend[d])
      BY <1>1, <2>1, <3>2, ExpectsSent
    <3>. QED
      BY <1>1, <1>3, <3>1, <3>3 DEF Awaits
  <2>. QED
    BY <2>2, <2>3
<1>. QED
  BY <1>2, <1>3

LEMMA DeviceAwaits ==
  ASSUME TInv, NInv, NEW d \in Device, MerkleDeviceReceive(d)
  PROVE  NInv'
<1>. DEFINE m == Head(toDevice[d])
<1>1. Took(d)
  BY LinesAre DEF MerkleDeviceReceive, DeviceTakes, Took, LinesOK
<1>2. ToDeviceOK(m)
  BY <1>1, DeviceLinkKeeps DEF Took, TInv, LinksOK
<1>3. \/ ReceiveNegotiation(d, m)
      \/ ReceiveDirectory(d, m)
      \/ /\ ReceiveUploadSize(d, m) \/ ReceiveUploadAck(d, m) \/ ReceiveDownload(d, m)
         /\ UNCHANGED <<negotiating, inMerkleApply, pendingDirectoryRequests, commandsToSend>>
      \/ /\ ReceiveDeleteAnswer(d, m)
         /\ Follow(d, db'[d], SetToSeq(Changed(db[d], db'[d])))
         /\ UNCHANGED <<negotiating, inMerkleApply, pendingDirectoryRequests, commandsToSend>>
  BY DEF MerkleDeviceReceive, descentVars
<1>. HIDE DEF m
<1>4. m = Head(toDevice[d]) /\ CountersOK
  BY DEF m, NInv
<1>5. OnlyFor(d) /\ (Awaits(d) /\ BothRun(d)' => Awaits(d)')
  <2>1. CASE ReceiveNegotiation(d, m)
    BY <1>1, <1>2, <1>4, <2>1, NegotiationAwaits
  <2>2. CASE ReceiveDirectory(d, m)
    BY <1>1, <1>2, <1>4, <2>2, DirectoryAwaits
  <2>3. CASE /\ ReceiveUploadSize(d, m) \/ ReceiveUploadAck(d, m) \/ ReceiveDownload(d, m)
             /\ UNCHANGED <<negotiating, inMerkleApply, pendingDirectoryRequests, commandsToSend>>
    <3>1. m.type \in {"uploadSize", "uploadAck", "download", "deleteAnswer"}
      BY <2>3 DEF ReceiveUploadSize, ReceiveUploadAck, ReceiveDownload
    <3>2. FailsOnly
      BY <2>3 DEF ReceiveUploadSize, ReceiveUploadAck, ReceiveDownload, Fail, FailsOnly
    <3>3. \/ toServer' = toServer
          \/ \E x : x.type = "chunk" /\ toServer' = [toServer EXCEPT ![d] = Append(@, x)]
      <4>1. CASE ReceiveUploadAck(d, m) \/ ReceiveDownload(d, m)
        BY <4>1 DEF ReceiveUploadAck, ReceiveDownload
      <4>2. CASE ReceiveUploadSize(d, m)
        <5>. DEFINE chunk == [type |-> "chunk", path |-> m.path,
                              content |-> IF Present(fs[d][m.path]) THEN fs[d][m.path].content
                                          ELSE Empty]
        <5>1. chunk.type = "chunk"
          OBVIOUS
        <5>2. toServer' = toServer \/ toServer' = [toServer EXCEPT ![d] = Append(@, chunk)]
          BY <4>2 DEF ReceiveUploadSize
        <5>. HIDE DEF chunk
        <5>. QED
          BY <5>1, <5>2
      <4>. QED
        BY <2>3, <4>1, <4>2
    <3>. QED
      BY <1>1, <1>4, <2>3, <3>1, <3>2, <3>3, AnswerAwaits
  <2>4. CASE /\ ReceiveDeleteAnswer(d, m)
             /\ Follow(d, db'[d], SetToSeq(Changed(db[d], db'[d])))
             /\ UNCHANGED <<negotiating, inMerkleApply, pendingDirectoryRequests, commandsToSend>>
    <3>1. m.type = "deleteAnswer" /\ toServer' = toServer /\ FailsOnly
      BY <2>4, FollowFails DEF ReceiveDeleteAnswer
    <3>. QED
      BY <1>1, <1>4, <2>4, <3>1, AnswerAwaits
  <2>. QED
    BY <1>3, <2>1, <2>2, <2>3, <2>4
<1>. QED
  BY <1>5, OthersAwait

(* The server takes the first request, and answers at most once.           *)
LEMMA RequestAnswered ==
  ASSUME TInv, NEW d \in Device, MerkleServerReceive(d)
  PROVE  /\ toServer[d] # <<>> /\ toServer' = [toServer EXCEPT ![d] = Tail(@)]
         /\ UNCHANGED <<negotiating, inMerkleApply, pendingDirectoryRequests, commandsToSend>>
         /\ \/ /\ UNCHANGED toDevice
               /\ \E what : what # "none" /\ failure' = [failure EXCEPT ![Server] = what]
            \/ /\ UNCHANGED failure
               /\ \E x : /\ toDevice' = [toDevice EXCEPT ![d] = Append(@, x)]
                         /\ Head(toServer[d]).type \in ListingTypes <=> x.type \in ListingTypes
                         /\ Head(toServer[d]).type \in RoundTypes <=> x.type \in RoundTypes
<1>. DEFINE m == Head(toServer[d])
<1>1. /\ toServer[d] # <<>> /\ toServer' = [toServer EXCEPT ![d] = Tail(@)]
      /\ UNCHANGED <<negotiating, inMerkleApply, pendingDirectoryRequests, commandsToSend>>
  BY DEF MerkleServerReceive, ServerTakes, descentVars
<1>2. \/ ServeNegotiation(d, m) \/ ServeDirectory(d, m) \/ ServeUploadRequest(d, m)
      \/ ServeDownloadRequest(d, m) \/ ServeChunk(d, m) \/ MerkleServeDelete(d, m)
      \/ ServeFailedDelete(d, m)
  BY DEF MerkleServerReceive
<1>. HIDE DEF m
<1>. DEFINE Stops == /\ UNCHANGED toDevice
                     /\ \E what : what # "none" /\ failure' = [failure EXCEPT ![Server] = what]
            Says  == /\ UNCHANGED failure
                     /\ \E x : /\ toDevice' = [toDevice EXCEPT ![d] = Append(@, x)]
                               /\ m.type \in ListingTypes <=> x.type \in ListingTypes
                               /\ m.type \in RoundTypes <=> x.type \in RoundTypes
<1>3. ASSUME NEW what, what # "none", Fail(Server, what), UNCHANGED toDevice
      PROVE  Stops
  BY <1>3 DEF Fail
<1>4. ASSUME NEW x, Answer(d, x), UNCHANGED failure,
             m.type \in ListingTypes <=> x.type \in ListingTypes,
             m.type \in RoundTypes <=> x.type \in RoundTypes
      PROVE  Says
  BY <1>4 DEF Answer
<1>. HIDE DEF Stops, Says
<1>5. ServeNegotiation(d, m) => Stops \/ Says
  <2>. SUFFICES ASSUME ServeNegotiation(d, m) PROVE Stops \/ Says
    OBVIOUS
  <2>1. \A parents : ListingOf(tree[Server], parents).type = "negotiated"
    BY DEF ListingOf
  <2>2. \/ /\ UNCHANGED failure
           /\ \E parents : Answer(d, ListingOf(tree[Server], parents))
        \/ Fail(Server, "no directory") /\ UNCHANGED toDevice
    BY DEF ServeNegotiation
  <2>3. m.type = "negotiate"
    BY DEF ServeNegotiation
  <2>. QED
    BY <1>3, <1>4, <2>1, <2>2, <2>3 DEF ListingTypes, RoundTypes
<1>6. ServeDirectory(d, m) => Stops \/ Says
  <2>. SUFFICES ASSUME ServeDirectory(d, m) PROVE Stops \/ Says
    OBVIOUS
  <2>1. /\ m.type = "listDirectory" /\ UNCHANGED failure
        /\ \E x : x.type = "directory" /\ Answer(d, x)
    BY DEF ServeDirectory
  <2>. QED
    BY <1>4, <2>1 DEF ListingTypes, RoundTypes
<1>7. ServeUploadRequest(d, m) => Stops \/ Says
  <2>. SUFFICES ASSUME ServeUploadRequest(d, m) PROVE Stops \/ Says
    OBVIOUS
  <2>1. /\ m.type = "uploadRequest" /\ UNCHANGED failure
        /\ \E x : x.type = "uploadSize" /\ Answer(d, x)
    BY DEF ServeUploadRequest
  <2>. QED
    BY <1>4, <2>1 DEF ListingTypes, RoundTypes
<1>8. ServeDownloadRequest(d, m) => Stops \/ Says
  <2>. SUFFICES ASSUME ServeDownloadRequest(d, m) PROVE Stops \/ Says
    OBVIOUS
  <2>1. /\ m.type = "downloadRequest"
        /\ \/ UNCHANGED failure /\ \E x : x.type = "download" /\ Answer(d, x)
           \/ Fail(Server, "no file size") /\ UNCHANGED toDevice
           \/ Fail(Server, "no mtime or hash") /\ UNCHANGED toDevice
    BY DEF ServeDownloadRequest
  <2>. QED
    BY <1>3, <1>4, <2>1 DEF ListingTypes, RoundTypes
<1>9. ServeChunk(d, m) => Stops \/ Says
  <2>. SUFFICES ASSUME ServeChunk(d, m) PROVE Stops \/ Says
    OBVIOUS
  <2>1. /\ m.type = "chunk"
        /\ \/ UNCHANGED failure /\ \E x : x.type = "uploadAck" /\ Answer(d, x)
           \/ Fail(Server, "no upload state") /\ UNCHANGED toDevice
           \/ Fail(Server, "no active transfer") /\ UNCHANGED toDevice
    BY DEF ServeChunk
  <2>. QED
    BY <1>3, <1>4, <2>1 DEF ListingTypes, RoundTypes
<1>10. MerkleServeDelete(d, m) => Stops \/ Says
  <2>. SUFFICES ASSUME MerkleServeDelete(d, m) PROVE Stops \/ Says
    OBVIOUS
  <2>1. /\ m.type = "deleteRequest"
        /\ \/ UNCHANGED failure /\ \E x : x.type = "deleteAnswer" /\ Answer(d, x)
           \/ Fail(Server, "empty hash") /\ UNCHANGED toDevice
    BY DEF MerkleServeDelete, ServeDeleteAborts, ServeDelete
  <2>. QED
    BY <1>3, <1>4, <2>1 DEF ListingTypes, RoundTypes
<1>11. ServeFailedDelete(d, m) => Stops \/ Says
  <2>. SUFFICES ASSUME ServeFailedDelete(d, m) PROVE Stops \/ Says
    OBVIOUS
  <2>1. /\ m.type = "deleteRequest" /\ UNCHANGED failure
        /\ \E x : x.type = "deleteAnswer" /\ Answer(d, x)
    BY DEF ServeFailedDelete
  <2>. QED
    BY <1>4, <2>1 DEF ListingTypes, RoundTypes
<1>12. Stops \/ Says
  BY <1>2, <1>5, <1>6, <1>7, <1>8, <1>9, <1>10, <1>11
<1>. QED
  BY <1>1, <1>12 DEF Stops, Says, m

LEMMA ServerAwaits ==
  ASSUME TInv, NInv, NEW d \in Device, MerkleServerReceive(d)
  PROVE  NInv'
<1>1. LinesOK /\ CountersOK
  BY LinesAre DEF NInv
<1>2. /\ toServer[d] # <<>> /\ toServer' = [toServer EXCEPT ![d] = Tail(@)]
      /\ UNCHANGED <<negotiating, inMerkleApply, pendingDirectoryRequests, commandsToSend>>
      /\ toServer'[d] = Tail(toServer[d])
  BY <1>1, RequestAnswered DEF LinesOK
<1>3. CASE UNCHANGED toDevice /\ \E what : what # "none" /\ failure' = [failure EXCEPT ![Server] = what]
  <2>1. OnlyFor(d)
    BY <1>2, <1>3 DEF OnlyFor, At, FailsOnly
  <2>2. ~BothRun(d)'
    BY <1>1, <1>3 DEF BothRun, Running, CountersOK
  <2>. QED
    BY <2>1, <2>2, OthersAwait
<1>4. ASSUME UNCHANGED failure,
             NEW x, toDevice' = [toDevice EXCEPT ![d] = Append(@, x)],
             Head(toServer[d]).type \in ListingTypes <=> x.type \in ListingTypes,
             Head(toServer[d]).type \in RoundTypes <=> x.type \in RoundTypes
      PROVE  NInv'
  <2>1. OnlyFor(d)
    BY <1>2, <1>4 DEF OnlyFor, At, FailsOnly
  <2>2. toDevice'[d] = Append(toDevice[d], x) /\ Line(toServer[d]) /\ Line(toDevice[d])
    BY <1>1, <1>4 DEF LinesOK
  <2>3. ASSUME Awaits(d)
        PROVE  Awaits(d)'
    <3>1. Expects(toServer[d], toDevice[d], pendingDirectoryRequests[d], inMerkleApply[d],
                  negotiating[d], commandsToSend[d])
      BY <2>3 DEF Awaits
    <3>2. Expects(Tail(toServer[d]), Append(toDevice[d], x), pendingDirectoryRequests[d],
                  inMerkleApply[d], negotiating[d], commandsToSend[d])
      BY <1>2, <1>4, <2>2, <3>1, ExpectsAnswered
    <3>. QED
      BY <1>2, <2>2, <2>3, <3>2 DEF Awaits
  <2>. QED
    BY <2>1, <2>3, OthersAwait
<1>. QED
  BY <1>3, <1>4, RequestAnswered

(* A tick finds nothing left of the last synchronisation.                  *)
LEMMA TickAwaits ==
  ASSUME TInv, NInv, NEW d \in Device, MerkleTick(d), TicksWhenDrained
  PROVE  NInv'
<1>1. LinesOK /\ CountersOK /\ pendingDirectoryRequests[d] = 0
  BY LinesAre DEF NInv, MerkleTick, MerkleTickStarts, SyncFinished
<1>2. UNCHANGED <<toDevice, inMerkleApply, pendingDirectoryRequests, commandsToSend>>
  BY DEF MerkleTick
<1>3. CASE negotiating[d]
  <2>1. UNCHANGED <<toServer, negotiating, failure>>
    BY <1>3 DEF MerkleTick
  <2>2. OnlyFor(d) /\ (Awaits(d) => Awaits(d)')
    BY <1>2, <2>1 DEF OnlyFor, At, FailsOnly, Awaits
  <2>. QED
    BY <2>2, OthersAwait
<1>4. CASE ~negotiating[d]
  <2>. DEFINE start == StartNegotiation(d)
  <2>1. /\ negotiating' = [negotiating EXCEPT ![d] = TRUE]
        /\ toServer' = IF failure'[d] = "none" THEN [toServer EXCEPT ![d] = Append(@, start)]
                       ELSE toServer
        /\ FailsOnly
    BY <1>4, FollowFails DEF MerkleTick, ScanNegotiates
  <2>2. start.type = "negotiate"
    BY DEF StartNegotiation
  <2>. HIDE DEF start
  <2>3. OnlyFor(d)
    BY <1>2, <2>1 DEF OnlyFor, At
  <2>4. ASSUME Awaits(d), BothRun(d)'
        PROVE  Awaits(d)'
    <3>1. negotiating'[d] = TRUE /\ toServer'[d] = Append(toServer[d], start)
      BY <1>1, <2>1, <2>4 DEF BothRun, Running, LinesOK, CountersOK
    <3>2. Expects(toServer[d], toDevice[d], 0, inMerkleApply[d], FALSE, commandsToSend[d])
      BY <1>1, <1>4, <2>4 DEF Awaits, Expects
    <3>3. Expects(Append(toServer[d], start), toDevice[d], 0, inMerkleApply[d], TRUE,
                  commandsToSend[d])
      BY <1>1, <2>2, <3>2, ExpectsTick DEF LinesOK
    <3>. QED
      BY <1>1, <1>2, <3>1, <3>3 DEF Awaits
  <2>. QED
    BY <2>3, <2>4, OthersAwait
<1>. QED
  BY <1>3, <1>4

LEMMA NothingAwaited == MerkleInit => NInv
<1>. SUFFICES ASSUME MerkleInit PROVE NInv
  OBVIOUS
<1>. DEFINE none == <<>>
<1>1. /\ negotiating = [d \in Device |-> FALSE] /\ inMerkleApply = [d \in Device |-> FALSE]
      /\ pendingDirectoryRequests = [d \in Device |-> 0]
      /\ commandsToSend = [d \in Device |-> none]
      /\ toServer = [d \in Device |-> none] /\ toDevice = [d \in Device |-> none]
      /\ failure = [n \in Device \cup {Server} |-> "none"]
  BY DEF MerkleInit, Init
<1>2. DOMAIN none = {} /\ \A types : NumberOf(types, none) = 0
  <2>1. Kinds(none, {}) /\ DOMAIN none = {}
    BY DEF Kinds
  <2>. QED
    BY <2>1, NumberNone
<1>. HIDE DEF none
<1>3. \A d \in Device : Awaits(d)
  BY <1>1, <1>2 DEF Awaits, Expects
<1>. QED
  BY <1>1, <1>3 DEF NInv, CountersOK

(* The count of expected listings, the negotiation flag and the staged     *)
(* commands always stand for what is on the connection, for any devices,   *)
(* paths and edits, if a device that unlocked too early has finished what  *)
(* is left of its synchronisation when its timer fires.                    *)
THEOREM DescentIsAccounted ==
  ASSUME TicksWhenDrained
  PROVE  MerkleSpec => []DescentAccounts
<1>1. NInv => DescentAccounts
  <2>. SUFFICES ASSUME NInv, NEW d \in Device, Running(d), Running(Server)
                PROVE  /\ pendingDirectoryRequests[d] = InFlight(d, {"listDirectory", "directory"})
                       /\ inMerkleApply[d] <=> pendingDirectoryRequests[d] # 0
                       /\ InFlight(d, {"negotiate", "negotiated"}) = IF negotiating[d] THEN 1 ELSE 0
                       /\ DOMAIN commandsToSend[d] # {} => pendingDirectoryRequests[d] # 0
    BY DEF DescentAccounts
  <2>. QED
    BY DEF NInv, BothRun, Awaits, Expects, InFlight, ListingTypes, RoundTypes
<1>2. TInv /\ NInv /\ [MerkleNext]_allVars => NInv'
  <2> SUFFICES ASSUME TInv, NInv, [MerkleNext]_allVars PROVE NInv'
    OBVIOUS
  <2>1. ASSUME NEW d \in Device, NEW p \in Path, UserWrites(d, p) \/ UserDeletes(d, p)
        PROVE  NInv'
    <3>1. UNCHANGED <<toServer, toDevice, failure, negotiating, inMerkleApply,
                      pendingDirectoryRequests, commandsToSend>>
      BY <2>1 DEF UserWrites, UserDeletes, Write, Delete, netVars, merkleVars
    <3>. QED
      BY <3>1 DEF NInv, CountersOK, BothRun, Running, Awaits
  <2>2. CASE UNCHANGED allVars
    <3>1. UNCHANGED <<toServer, toDevice, failure, negotiating, inMerkleApply,
                      pendingDirectoryRequests, commandsToSend>>
      BY <2>2 DEF allVars, vars, netVars, merkleVars
    <3>. QED
      BY <3>1 DEF NInv, CountersOK, BothRun, Running, Awaits
  <2>. QED
    BY <2>1, <2>2, TickAwaits, DeviceAwaits, ServerAwaits DEF MerkleNext
<1>. QED
  BY <1>1, <1>2, NothingAwaited, TreesHold, PTL DEF MerkleSpec

=============================================================================
