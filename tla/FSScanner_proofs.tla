-------------------------- MODULE FSScanner_proofs --------------------------
(***************************************************************************)
(* What two scans of a quiet directory find, for any names, inodes, number *)
(* of changes and both kinds of callers.                                   *)
(*                                                                         *)
(* The theorems assume that no name is a directory at one time and a file  *)
(* at another (NamesApart).                                                *)
(***************************************************************************)
EXTENDS FSScanner, FiniteSetTheorems, SequenceTheorems, WellFoundedInduction, TLAPS

NamesApart == DirName \cap FileName = {}

Entry == [mtime : Nat, inode : Nat, isDir : BOOLEAN, isTombstoned : BOOLEAN]

Table(t) ==
  /\ DOMAIN t \subseteq FilePath \cup Dir
  /\ \A p \in DOMAIN t : t[p] \in Entry /\ t[p].isDir = (p \in Dir)

(* The disk is a tree of files and of directories, finitely many.          *)
Disk ==
  /\ ops \in Nat
  /\ DOMAIN files \subseteq FilePath
  /\ \A p \in DOMAIN files : files[p] \in [inode : Inode, mtime : 1..ops]
  /\ DOMAIN dirs \subseteq Dir
  /\ IsFiniteSet(DOMAIN dirs)
  /\ \A d \in DOMAIN dirs : dirs[d] \in Inode
  /\ \A p \in DOMAIN files : Above(p) \subseteq DOMAIN dirs

(* No directory that vanished is the one of a new path: the next scan      *)
(* reports no directory as renamed.                                        *)
NoMoves ==
  \A d \in MissingDirs, e \in DOMAIN dirs \ Live(TRUE) : tracked[d].inode # dirs[e]

ScanInv ==
  /\ Disk
  /\ Table(tracked)
  /\ scans \in Nat
  /\ scans >= 1 => NoMoves
  /\ scans >= 2 => Caught

-----------------------------------------------------------------------------
(* A set of numbers that has 0 and with each number the next has them all. *)
LEMMA Induction ==
  ASSUME NEW T, 0 \in T, \A n \in Nat : n \in T => n + 1 \in T
  PROVE  Nat \subseteq T
<1>. SUFFICES ASSUME NEW x \in Nat, x \notin T PROVE FALSE
  OBVIOUS
<1>. DEFINE Out == {1..n : n \in Nat \ T}
            R   == StrictSubsetOrdering(Nat)
<1>1. IsWellFoundedOn(R, FiniteSubsetsOf(Nat))
  BY FS_StrictSubsetOrderingWellFounded
<1>2. Out \subseteq FiniteSubsetsOf(Nat) /\ Out # {}
  <2>1. \A n \in Nat : IsFiniteSet(1..n)
    BY FS_Interval
  <2>. QED
    BY <2>1 DEF FiniteSubsetsOf
<1>3. PICK s \in Out : \A y \in Out : ~(<<y, s>> \in R)
  <2>. HIDE DEF R, Out
  <2>. QED
    BY <1>1, <1>2, WFMin, Zenon
<1>4. PICK n \in Nat \ T : s = 1..n
  BY <1>3
<1>5. n # 0 /\ n - 1 \in Nat /\ (n - 1) + 1 = n
  BY <1>4
<1>6. n - 1 \notin T
  BY <1>4, <1>5
<1>7. 1..(n - 1) \in Out
  BY <1>5, <1>6
<1>8. 1..(n - 1) \subseteq 1..n /\ n \in 1..n /\ n \notin 1..(n - 1)
  BY <1>5
<1>9. <<1..(n - 1), s>> \in R
  BY <1>4, <1>8 DEF StrictSubsetOrdering
<1>. QED
  BY <1>3, <1>7, <1>9

-----------------------------------------------------------------------------
(* Paths *)

LEMMA OneElement ==
  ASSUME NEW S, NEW s \in Seq(S), NEW i \in 1..Len(s), NEW t \in Seq(S),
         Len(t) = 1, t[1] = s[i]
  PROVE  SubSeq(s, i, i) = t
<1>. DEFINE u == SubSeq(s, i, i)
<1>1. u \in Seq(S) /\ Len(u) = 1 /\ u[1] = s[i]
  BY SubSeqProperties
<1>2. \A j \in 1..Len(u) : u[j] = t[j]
  BY <1>1
<1>. HIDE DEF u
<1>3. u = t
  BY <1>1, <1>2, SeqEqual
<1>. QED
  BY <1>3 DEF u

LEMMA Singles ==
  ASSUME NEW x
  PROVE  Len(<<x>>) = 1 /\ <<x>>[1] = x /\ SubSeq(<<x>>, 1, 1) = <<x>>
<1>. DEFINE s == <<x>>
<1>1. s \in Seq({x}) /\ Len(s) = 1 /\ s[1] = x /\ 1 \in 1..Len(s)
  OBVIOUS
<1>. HIDE DEF s
<1>2. SubSeq(s, 1, 1) = s
  BY <1>1, OneElement
<1>. QED
  BY <1>1, <1>2 DEF s

LEMMA Pairs ==
  ASSUME NEW x, NEW y
  PROVE  /\ Len(<<x, y>>) = 2 /\ <<x, y>>[1] = x /\ <<x, y>>[2] = y
         /\ SubSeq(<<x, y>>, 1, 1) = <<x>>
         /\ SubSeq(<<x, y>>, 2, 2) = <<y>>
         /\ <<x>> \o <<y>> = <<x, y>>
<1>. DEFINE s == <<x, y>>
            l == <<x>>
            r == <<y>>
            c == l \o r
<1>1. /\ s \in Seq({x, y}) /\ Len(s) = 2 /\ s[1] = x /\ s[2] = y
      /\ 1 \in 1..Len(s) /\ 2 \in 1..Len(s)
  OBVIOUS
<1>2. l \in Seq({x, y}) /\ Len(l) = 1 /\ l[1] = x
  OBVIOUS
<1>3. r \in Seq({x, y}) /\ Len(r) = 1 /\ r[1] = y
  OBVIOUS
<1>. HIDE DEF s, l, r
<1>4. SubSeq(s, 1, 1) = l /\ SubSeq(s, 2, 2) = r
  BY <1>1, <1>2, <1>3, OneElement
<1>5. c \in Seq({x, y}) /\ Len(c) = 2 /\ c[1] = x /\ c[2] = y
  <2>1. /\ c \in Seq({x, y}) /\ Len(c) = Len(l) + Len(r)
        /\ \A i \in 1..Len(l) + Len(r) :
             c[i] = IF i <= Len(l) THEN l[i] ELSE r[i - Len(l)]
    BY <1>2, <1>3, ConcatProperties
  <2>. HIDE DEF c
  <2>. QED
    BY <1>2, <1>3, <2>1
<1>. HIDE DEF c
<1>6. \A j \in 1..Len(c) : c[j] = s[j]
  BY <1>1, <1>5
<1>7. c = s
  BY <1>1, <1>5, <1>6, SeqEqual
<1>. QED
  BY <1>1, <1>4, <1>7 DEF s, l, r, c

(* A directory and a path are of different lengths or names.               *)
LEMMA Paths ==
  ASSUME NamesApart
  PROVE  /\ Dir \cap FilePath = {}
         /\ \A d \in Dir : Len(d) = 1 /\ d[1] \in DirName /\ d = <<d[1]>>
         /\ \A p \in FilePath : \/ Len(p) = 1 /\ p = <<p[1]>>
                                \/ Len(p) = 2 /\ p = <<p[1], p[2]>> /\ p[2] \in FileName
BY DEF NamesApart, Dir, FilePath

(* What is under a directory.                                              *)
LEMMA StrictlyBelow ==
  ASSUME NamesApart, NEW d \in Dir, NEW p \in FilePath
  PROVE  IsStrictPrefix(d, p) <=> \E n \in FileName : p = <<d[1], n>>
<1>1. PICK x \in DirName : d = <<x>>
  BY DEF Dir
<1>2. d[1] = x /\ Len(d) = 1 /\ SubSeq(d, 1, Len(d)) = <<x>>
  BY <1>1, Singles
<1>3. CASE \E n \in FileName : p = <<n>>
  <2>1. PICK n \in FileName : p = <<n>>
    BY <1>3
  <2>2. SubSeq(p, 1, Len(d)) = <<n>> /\ n # x
    BY <1>2, <2>1, Singles DEF NamesApart
  <2>. QED
    BY <1>2, <2>1, <2>2 DEF IsStrictPrefix, IsPrefix
<1>4. CASE \E y \in DirName, n \in FileName : p = <<y, n>>
  <2>1. PICK y \in DirName, n \in FileName : p = <<y, n>>
    BY <1>4
  <2>2. SubSeq(p, 1, Len(d)) = <<y>> /\ Len(p) = 2
    <3>1. Len(<<y, n>>) = 2 /\ SubSeq(<<y, n>>, 1, 1) = <<y>>
      BY Pairs
    <3>. QED
      BY <1>2, <2>1, <3>1
  <2>3. IsStrictPrefix(d, p) <=> x = y
    BY <1>1, <1>2, <2>1, <2>2 DEF IsStrictPrefix, IsPrefix
  <2>4. (\E k \in FileName : p = <<d[1], k>>) <=> x = y
    BY <1>2, <2>1
  <2>. QED
    BY <2>3, <2>4
<1>. QED
  BY <1>3, <1>4 DEF FilePath

(* No directory is under another.                                          *)
LEMMA DirsAreFlat ==
  ASSUME NEW d \in Dir, NEW e \in Dir
  PROVE  ~IsStrictPrefix(d, e)
<1>1. PICK x \in DirName : d = <<x>>
  BY DEF Dir
<1>2. PICK y \in DirName : e = <<y>>
  BY DEF Dir
<1>3. Len(d) = 1 /\ SubSeq(d, 1, 1) = <<x>> /\ SubSeq(e, 1, 1) = <<y>>
  BY <1>1, <1>2, Singles
<1>. QED
  BY <1>1, <1>2, <1>3 DEF IsStrictPrefix, IsPrefix

(* A file under a directory has a path under the directory's new path.     *)
LEMMA RebasedFile ==
  ASSUME NamesApart, NEW d \in Dir, NEW e \in Dir, NEW p \in Under(d)
  PROVE  /\ Rebased(p, d, e) \in Under(e)
         /\ Rebased(Rebased(p, d, e), e, d) = p
<1>1. PICK n \in FileName : p = <<d[1], n>>
  BY StrictlyBelow DEF Under
<1>2. PICK x \in DirName : d = <<x>>
  BY DEF Dir
<1>3. PICK y \in DirName : e = <<y>>
  BY DEF Dir
<1>4. Len(d) = 1 /\ Len(e) = 1 /\ d[1] = x /\ e[1] = y
  BY <1>2, <1>3
<1>5. \A k \in DirName : SubSeq(<<k, n>>, 2, 2) = <<n>>
  BY Pairs
<1>6. p = <<x, n>> /\ Len(p) = 2
  BY <1>1, <1>4, Pairs
<1>7. Rebased(p, d, e) = <<y>> \o <<n>>
  BY <1>3, <1>4, <1>5, <1>6 DEF Rebased
<1>8. <<y>> \o <<n>> = <<y, n>> /\ <<x>> \o <<n>> = <<x, n>>
  BY Pairs
<1>9. Rebased(<<y, n>>, e, d) = <<x>> \o <<n>>
  <2>1. Len(<<y, n>>) = 2
    BY Pairs
  <2>. QED
    BY <1>2, <1>4, <1>5, <2>1 DEF Rebased
<1>10. <<y, n>> \in FilePath
  BY DEF FilePath
<1>. QED
  BY <1>4, <1>6, <1>7, <1>8, <1>9, <1>10, StrictlyBelow DEF Under

-----------------------------------------------------------------------------
(* Tables *)

LEMMA OverIs ==
  ASSUME NEW a, NEW t
  PROVE  /\ DOMAIN Over(a, t) = DOMAIN a \cup DOMAIN t
         /\ \A p \in DOMAIN a : Over(a, t)[p] = a[p]
         /\ \A p \in DOMAIN t \ DOMAIN a : Over(a, t)[p] = t[p]
BY DEF Over

LEMMA WithoutIs ==
  ASSUME NEW t, NEW S
  PROVE  /\ DOMAIN Without(t, S) = DOMAIN t \ S
         /\ \A p \in DOMAIN t \ S : Without(t, S)[p] = t[p]
BY DEF Without

LEMMA Entries ==
  ASSUME Disk
  PROVE  /\ \A p \in DOMAIN files :
              /\ FileEntry(p) \in Entry /\ ~FileEntry(p).isDir
              /\ ~FileEntry(p).isTombstoned /\ FileEntry(p).mtime = files[p].mtime
         /\ \A d \in DOMAIN dirs :
              /\ DirEntry(d) \in Entry /\ DirEntry(d).isDir
              /\ ~DirEntry(d).isTombstoned /\ DirEntry(d).inode = dirs[d]
<1>1. ASSUME NEW p \in DOMAIN files
      PROVE  /\ FileEntry(p) \in Entry /\ ~FileEntry(p).isDir
             /\ ~FileEntry(p).isTombstoned /\ FileEntry(p).mtime = files[p].mtime
  <2>1. files[p].inode \in Nat /\ files[p].mtime \in Nat
    <3>1. files[p] \in [inode : Inode, mtime : 1..ops] /\ ops \in Nat
      BY DEF Disk
    <3>2. files[p].inode \in Inode /\ files[p].mtime \in 1..ops
      BY <3>1
    <3>3. files[p].inode \in Nat
      BY <3>2, ScannerAssumption
    <3>4. files[p].mtime \in Nat
      BY <3>1, <3>2
    <3>. QED
      BY <3>3, <3>4
  <2>. QED
    BY <2>1 DEF FileEntry, Entry
<1>2. ASSUME NEW d \in DOMAIN dirs
      PROVE  /\ DirEntry(d) \in Entry /\ DirEntry(d).isDir
             /\ ~DirEntry(d).isTombstoned /\ DirEntry(d).inode = dirs[d]
  <2>1. dirs[d] \in Nat
    BY ScannerAssumption DEF Disk
  <2>. QED
    BY <2>1 DEF DirEntry, Entry
<1>. QED
  BY <1>1, <1>2

(* Files are inserted with the directories above them that are not tracked. *)
LEMMA InsertIs ==
  ASSUME Disk, NEW t, NEW ps \in SUBSET DOMAIN files
  PROVE  /\ DOMAIN t \cup ps \subseteq DOMAIN Insert(t, ps)
         /\ \A p \in ps : Insert(t, ps)[p] = FileEntry(p)
         /\ \A p \in DOMAIN t \ ps : Insert(t, ps)[p] = t[p]
         /\ \A p \in DOMAIN Insert(t, ps) \ (DOMAIN t \cup ps) :
              p \in DOMAIN dirs /\ Insert(t, ps)[p] = DirEntry(p)
<1>. DEFINE new == [p \in ps |-> FileEntry(p)]
            u   == Over(new, t)
            above == (UNION {Above(p) : p \in ps}) \ DOMAIN u
            added == [d \in above |-> DirEntry(d)]
            ins == Over(added, u)
<1>1. Insert(t, ps) = ins
  BY DEF Insert, TrackAncestorDirs
<1>2. /\ DOMAIN u = ps \cup DOMAIN t
      /\ \A p \in ps : u[p] = FileEntry(p)
      /\ \A p \in DOMAIN t \ ps : u[p] = t[p]
  <2>1. DOMAIN new = ps /\ \A p \in ps : new[p] = FileEntry(p)
    OBVIOUS
  <2>. HIDE DEF new
  <2>2. /\ DOMAIN u = DOMAIN new \cup DOMAIN t
        /\ \A p \in DOMAIN new : u[p] = new[p]
        /\ \A p \in DOMAIN t \ DOMAIN new : u[p] = t[p]
    BY OverIs
  <2>. HIDE DEF u
  <2>. QED
    BY <2>1, <2>2
<1>3. above \subseteq DOMAIN dirs /\ above \cap DOMAIN u = {}
  <2>1. \A p \in ps : Above(p) \subseteq DOMAIN dirs
    BY DEF Disk
  <2>2. ASSUME NEW d \in above
        PROVE  d \in DOMAIN dirs /\ d \notin DOMAIN u
    <3>. HIDE DEF u
    <3>1. PICK p \in ps : d \in Above(p)
      OBVIOUS
    <3>. QED
      BY <2>1, <3>1
  <2>. HIDE DEF above
  <2>. QED
    BY <2>2
<1>4. DOMAIN added = above /\ \A d \in above : added[d] = DirEntry(d)
  OBVIOUS
<1>. HIDE DEF added, u, above, new
<1>5. /\ DOMAIN ins = above \cup DOMAIN u
      /\ \A d \in above : ins[d] = DirEntry(d)
      /\ \A p \in DOMAIN u : ins[p] = u[p]
  <2>1. /\ DOMAIN ins = DOMAIN added \cup DOMAIN u
        /\ \A d \in DOMAIN added : ins[d] = added[d]
        /\ \A p \in DOMAIN u \ DOMAIN added : ins[p] = u[p]
    BY OverIs
  <2>. HIDE DEF ins
  <2>. QED
    BY <1>3, <1>4, <2>1
<1>. HIDE DEF ins
<1>. QED
  BY <1>1, <1>2, <1>3, <1>5

LEMMA InsertTable ==
  ASSUME NamesApart, Disk, NEW t, Table(t), NEW ps \in SUBSET DOMAIN files
  PROVE  Table(Insert(t, ps))
<1>1. SUFFICES ASSUME NEW p \in DOMAIN Insert(t, ps)
               PROVE  /\ p \in FilePath \cup Dir
                      /\ Insert(t, ps)[p] \in Entry
                      /\ Insert(t, ps)[p].isDir = (p \in Dir)
  BY DEF Table
<1>2. CASE p \in ps
  BY <1>2, Entries, InsertIs, Paths DEF Disk, Entry
<1>3. CASE p \in DOMAIN t \ ps
  BY <1>3, InsertIs DEF Table
<1>4. CASE p \notin DOMAIN t \cup ps
  BY <1>4, <1>1, Entries, InsertIs DEF Disk, Entry
<1>. QED
  BY <1>2, <1>3, <1>4

(* A renamed directory is tracked by its new path, with what is under it;  *)
(* other directories are left alone.                                       *)
LEMMA MovedIs ==
  ASSUME NamesApart, Disk, NEW t, Table(t),
         NEW r, r.from \in Dir \ DOMAIN dirs, r.to \in DOMAIN dirs
  PROVE  /\ Table(Moved(t, r))
         /\ r.to \in DOMAIN Moved(t, r) /\ ~Moved(t, r)[r.to].isTombstoned
         /\ \A d \in (Dir \cap DOMAIN t) \ {r.from, r.to} :
              d \in DOMAIN Moved(t, r) /\ Moved(t, r)[d] = t[d]
         /\ \A d \in Dir \cap DOMAIN Moved(t, r) :
              \/ d \in DOMAIN t /\ Moved(t, r)[d] = t[d]
              \/ d \in DOMAIN dirs
<1>. DEFINE from == r.from
            to   == r.to
            rest == Without(t, {from})
            self == [d \in {to} |-> DirEntry(d)]
            own  == Over(self, rest)
            above == (UNION {Above(p) : p \in {to}}) \ DOMAIN own
            top  == Over([d \in above |-> DirEntry(d)], own)
            below == DOMAIN top \cap Under(from)
            rewrite == [q \in {Rebased(p, from, to) : p \in below} |->
                          top[Rebased(q, to, from)]]
            kept == Without(top, below)
            moved == Over(rewrite, kept)
<1>1. Moved(t, r) = moved
  BY DEF Moved, TrackAncestorDirs
<1>2. from \in Dir /\ to \in Dir /\ from # to
  BY DEF Disk
<1>3. /\ DOMAIN own = {to} \cup (DOMAIN t \ {from})
      /\ own[to] = DirEntry(to)
      /\ \A p \in DOMAIN t \ {from, to} : own[p] = t[p]
  <2>1. DOMAIN self = {to} /\ self[to] = DirEntry(to)
    OBVIOUS
  <2>2. /\ DOMAIN rest = DOMAIN t \ {from}
        /\ \A p \in DOMAIN t \ {from} : rest[p] = t[p]
    BY WithoutIs
  <2>. HIDE DEF self, rest, from, to
  <2>3. /\ DOMAIN own = DOMAIN self \cup DOMAIN rest
        /\ \A p \in DOMAIN self : own[p] = self[p]
        /\ \A p \in DOMAIN rest \ DOMAIN self : own[p] = rest[p]
    BY OverIs
  <2>. HIDE DEF own
  <2>. QED
    BY <2>1, <2>2, <2>3
<1>4. above = {}
  <2>1. Above(to) = {}
    BY <1>2, DirsAreFlat DEF Above
  <2>. QED
    BY <2>1
<1>5. /\ DOMAIN top = {to} \cup (DOMAIN t \ {from})
      /\ top[to] = DirEntry(to)
      /\ \A p \in DOMAIN t \ {from, to} : top[p] = t[p]
  <2>. DEFINE added == [d \in above |-> DirEntry(d)]
  <2>. HIDE DEF own, above, from, to
  <2>1. DOMAIN added = {}
    BY <1>4
  <2>. HIDE DEF added
  <2>2. /\ DOMAIN top = DOMAIN added \cup DOMAIN own
        /\ \A p \in DOMAIN own \ DOMAIN added : top[p] = own[p]
    BY OverIs DEF added
  <2>. HIDE DEF top
  <2>. QED
    BY <1>3, <2>1, <2>2
<1>6. /\ below \subseteq DOMAIN t \ {from, to}
      /\ below \subseteq FilePath
      /\ \A p \in below : top[p] = t[p] /\ t[p] \in Entry /\ ~t[p].isDir
  <2>1. below \subseteq FilePath
    BY DEF Under
  <2>2. below \subseteq DOMAIN t \ {from, to}
    BY <1>2, <1>5, <2>1, Paths
  <2>. HIDE DEF top, below, from, to
  <2>. QED
    BY <1>5, <2>1, <2>2, Paths DEF Table, Entry
<1>7. /\ DOMAIN rewrite \subseteq FilePath
      /\ \A q \in DOMAIN rewrite : rewrite[q] \in Entry /\ ~rewrite[q].isDir
  <2>1. SUFFICES ASSUME NEW q \in DOMAIN rewrite
                 PROVE  q \in FilePath /\ rewrite[q] \in Entry /\ ~rewrite[q].isDir
    OBVIOUS
  <2>2. PICK p \in below : q = Rebased(p, from, to)
    BY <2>1
  <2>3. q \in Under(to) /\ Rebased(q, to, from) = p
    <3>1. p \in Under(from)
      BY <2>2
    <3>. HIDE DEF from, to, below
    <3>. QED
      BY <1>2, <2>2, <3>1, RebasedFile
  <2>4. rewrite[q] = top[p]
    <3>. HIDE DEF top, below, from, to
    <3>. QED
      BY <2>1, <2>3
  <2>5. q \in FilePath
    BY <2>3 DEF Under
  <2>. HIDE DEF rewrite, top, below, from, to
  <2>. QED
    BY <1>6, <2>2, <2>4, <2>5
<1>8. /\ DOMAIN kept = DOMAIN top \ below
      /\ \A p \in DOMAIN top \ below : kept[p] = top[p]
  <2>. HIDE DEF top, below
  <2>. QED
    BY WithoutIs
<1>. HIDE DEF rewrite, kept, top, below
<1>9. /\ DOMAIN moved = DOMAIN rewrite \cup DOMAIN kept
      /\ \A p \in DOMAIN rewrite : moved[p] = rewrite[p]
      /\ \A p \in DOMAIN kept \ DOMAIN rewrite : moved[p] = kept[p]
  BY OverIs
<1>. HIDE DEF moved, from, to
<1>10. \A p \in DOMAIN moved \ DOMAIN rewrite :
         \/ p = to /\ moved[p] = DirEntry(to)
         \/ p \in DOMAIN t \ {from, to} /\ moved[p] = t[p]
  BY <1>5, <1>8, <1>9
<1>11. DirEntry(to) \in Entry /\ DirEntry(to).isDir /\ ~DirEntry(to).isTombstoned
  BY Entries DEF to
<1>12. Table(moved)
  <2>1. SUFFICES ASSUME NEW p \in DOMAIN moved
                 PROVE  p \in FilePath \cup Dir /\ moved[p] \in Entry
                        /\ moved[p].isDir = (p \in Dir)
    BY DEF Table
  <2>2. CASE p \in DOMAIN rewrite
    BY <1>7, <1>9, <2>2, Paths DEF Entry
  <2>3. CASE p \notin DOMAIN rewrite
    BY <1>2, <1>10, <1>11, <2>1, <2>3 DEF Table, Entry
  <2>. QED
    BY <2>2, <2>3
<1>13. to \in DOMAIN moved /\ ~moved[to].isTombstoned
  BY <1>2, <1>5, <1>6, <1>7, <1>8, <1>9, <1>11, Paths
<1>14. ASSUME NEW d \in (Dir \cap DOMAIN t) \ {from, to}
       PROVE  d \in DOMAIN moved /\ moved[d] = t[d]
  BY <1>5, <1>6, <1>7, <1>8, <1>9, <1>14, Paths
<1>15. ASSUME NEW d \in Dir \cap DOMAIN moved
       PROVE  \/ d \in DOMAIN t /\ moved[d] = t[d]
              \/ d \in DOMAIN dirs
  <2>1. d \notin DOMAIN rewrite
    BY <1>7, <1>15, Paths
  <2>2. to \in DOMAIN dirs
    BY DEF to
  <2>. QED
    BY <1>10, <1>15, <2>1, <2>2
<1>. QED
  BY <1>1, <1>12, <1>13, <1>14, <1>15 DEF from, to

(* What the caller makes of the files: new, modified, gone, and the old    *)
(* and the new paths of those that were renamed.                           *)
Based(new, modified, gone, old, renamed) ==
  LET t1 == Insert(tracked, new)
      t2 == Remodified(t1, modified)
      t3 == Buried(t2, gone)
      t4 == Without(t3, old)
  IN Insert(t4, renamed)

(* What the table t it leaves has: the files on the disk, and of the others *)
(* those that were neither gone nor renamed.                               *)
FilesTaken(t, new, gone, old, renamed) ==
  /\ Table(t)
  /\ \A d \in Dir \cap DOMAIN t : \/ d \in DOMAIN tracked /\ t[d] = tracked[d]
                                  \/ d \in DOMAIN dirs
  /\ \A d \in Dir \cap DOMAIN tracked : d \in DOMAIN t /\ t[d] = tracked[d]
  /\ \A p \in new \cup renamed : p \in DOMAIN t /\ t[p] = FileEntry(p)
  /\ \A p \in DOMAIN files \ CandidateNew :
       p \in DOMAIN t /\ ~t[p].isTombstoned /\ t[p].mtime = files[p].mtime
  /\ \A p \in (FilePath \cap DOMAIN t) \ DOMAIN files :
       /\ p \in DOMAIN tracked /\ t[p].inode = tracked[p].inode
       /\ ~t[p].isTombstoned => ~tracked[p].isTombstoned /\ p \notin gone \cup old

LEMMA BasedIs ==
  ASSUME NamesApart, Disk, Table(tracked),
         NEW new \in SUBSET CandidateNew, NEW renamed \in SUBSET CandidateNew,
         NEW gone \in SUBSET Missing, NEW old \in SUBSET Missing
  PROVE  FilesTaken(Based(new, ModifiedFiles, gone, old, renamed),
                    new, gone, old, renamed)
<1>. DEFINE t1 == Insert(tracked, new)
            t2 == Remodified(t1, ModifiedFiles)
            t3 == Buried(t2, gone)
            t4 == Without(t3, old)
            t  == Insert(t4, renamed)
<1>1. /\ CandidateNew \subseteq DOMAIN files
      /\ ModifiedFiles \subseteq DOMAIN files \ CandidateNew
      /\ Missing \cap DOMAIN files = {} /\ Missing \cap Dir = {}
      /\ DOMAIN files \cap Dir = {} /\ DOMAIN dirs \subseteq Dir
      /\ DOMAIN files \subseteq FilePath
  <2>1. Missing \cap Dir = {}
    BY DEF Missing, Live, Table
  <2>. QED
    BY <2>1, Paths DEF CandidateNew, ModifiedFiles, Missing, Disk
<1>2. /\ Table(t1)
      /\ DOMAIN tracked \cup new \subseteq DOMAIN t1
      /\ \A p \in new : t1[p] = FileEntry(p)
      /\ \A p \in DOMAIN tracked \ new : t1[p] = tracked[p]
      /\ \A p \in DOMAIN t1 \ (DOMAIN tracked \cup new) : p \in DOMAIN dirs
  BY <1>1, InsertIs, InsertTable
<1>. HIDE DEF t1
<1>3. /\ Table(t2)
      /\ DOMAIN t2 = DOMAIN t1
      /\ \A p \in DOMAIN t1 : t2[p].isTombstoned = t1[p].isTombstoned
                              /\ t2[p].inode = t1[p].inode
      /\ \A p \in DOMAIN t1 \ ModifiedFiles : t2[p] = t1[p]
      /\ \A p \in DOMAIN t1 \cap ModifiedFiles : t2[p].mtime = files[p].mtime
  <2>1. \A p \in ModifiedFiles : files[p].mtime \in Nat
    BY <1>1, Entries DEF Entry
  <2>2. \A p \in DOMAIN t1 : t1[p] \in Entry
    BY <1>2 DEF Table
  <2>. QED
    BY <1>2, <2>1, <2>2 DEF Remodified, Table, Entry
<1>. HIDE DEF t2
<1>4. /\ Table(t3)
      /\ DOMAIN t3 \subseteq DOMAIN t2
      /\ \A p \in DOMAIN t2 \ gone : p \in DOMAIN t3 /\ t3[p] = t2[p]
      /\ \A p \in DOMAIN t3 : t3[p].inode = t2[p].inode
      /\ \A p \in DOMAIN t3 \cap gone : t3[p].isTombstoned
  <2>1. CASE KeepsTombstones
    <3>1. t3 = [p \in DOMAIN t2 |->
                  IF p \in gone THEN [t2[p] EXCEPT !.isTombstoned = TRUE] ELSE t2[p]]
      BY <2>1 DEF Buried
    <3>2. /\ DOMAIN t3 = DOMAIN t2
          /\ \A p \in DOMAIN t2 \ gone : t3[p] = t2[p]
          /\ \A p \in DOMAIN t2 \cap gone : t3[p] = [t2[p] EXCEPT !.isTombstoned = TRUE]
      BY <3>1
    <3>. HIDE DEF t3
    <3>3. \A p \in DOMAIN t2 : t2[p] \in Entry
      BY <1>3 DEF Table
    <3>4. \A p \in DOMAIN t2 : /\ t3[p] \in Entry /\ t3[p].inode = t2[p].inode
                               /\ t3[p].isDir = t2[p].isDir
                               /\ p \in gone => t3[p].isTombstoned
      <4>1. SUFFICES ASSUME NEW p \in DOMAIN t2
                     PROVE  /\ t3[p] \in Entry /\ t3[p].inode = t2[p].inode
                            /\ t3[p].isDir = t2[p].isDir
                            /\ p \in gone => t3[p].isTombstoned
        OBVIOUS
      <4>2. CASE p \in gone
        <5>1. t3[p] = [t2[p] EXCEPT !.isTombstoned = TRUE]
          BY <3>2, <4>2
        <5>2. t2[p] \in Entry
          BY <3>3
        <5>. QED
          BY <5>1, <5>2 DEF Entry
      <4>3. CASE p \notin gone
        BY <3>2, <3>3, <4>3
      <4>. QED
        BY <4>2, <4>3
    <3>. QED
      BY <1>3, <3>2, <3>4 DEF Table
  <2>2. CASE ~KeepsTombstones
    <3>1. t3 = Without(t2, gone)
      BY <2>2 DEF Buried
    <3>. HIDE DEF t3
    <3>2. DOMAIN t3 = DOMAIN t2 \ gone /\ \A p \in DOMAIN t2 \ gone : t3[p] = t2[p]
      <4>. DEFINE w == Without(t2, gone)
      <4>1. DOMAIN w = DOMAIN t2 \ gone /\ \A p \in DOMAIN t2 \ gone : w[p] = t2[p]
        BY WithoutIs
      <4>. HIDE DEF w
      <4>2. t3 = w
        BY <3>1 DEF w
      <4>. QED
        BY <4>1, <4>2
    <3>. QED
      BY <1>3, <3>2 DEF Table
  <2>. QED
    BY <2>1, <2>2
<1>. HIDE DEF t3
<1>5. /\ Table(t4)
      /\ DOMAIN t4 = DOMAIN t3 \ old
      /\ \A p \in DOMAIN t3 \ old : t4[p] = t3[p]
  <2>1. DOMAIN t4 = DOMAIN t3 \ old /\ \A p \in DOMAIN t3 \ old : t4[p] = t3[p]
    BY WithoutIs
  <2>. HIDE DEF t4
  <2>. QED
    BY <1>4, <2>1 DEF Table
<1>. HIDE DEF t4
<1>6. /\ Table(t)
      /\ DOMAIN t4 \cup renamed \subseteq DOMAIN t
      /\ \A p \in renamed : t[p] = FileEntry(p)
      /\ \A p \in DOMAIN t4 \ renamed : t[p] = t4[p]
      /\ \A p \in DOMAIN t \ (DOMAIN t4 \cup renamed) : p \in DOMAIN dirs
  BY <1>1, <1>5, InsertIs, InsertTable
<1>. HIDE DEF t
<1>7. \A d \in Dir \cap DOMAIN t : \/ d \in DOMAIN tracked /\ t[d] = tracked[d]
                                   \/ d \in DOMAIN dirs
  <2>1. SUFFICES ASSUME NEW d \in Dir \cap DOMAIN t, d \notin DOMAIN dirs
                 PROVE  d \in DOMAIN tracked /\ t[d] = tracked[d]
    OBVIOUS
  <2>2. d \notin DOMAIN files
    BY <1>1
  <2>3. d \in DOMAIN t4 /\ t[d] = t4[d]
    BY <1>1, <1>6, <2>1, <2>2
  <2>4. d \in DOMAIN t3 /\ t4[d] = t3[d] /\ d \notin gone
    BY <1>1, <1>5, <2>3
  <2>5. d \in DOMAIN t1 /\ t3[d] = t1[d]
    BY <1>1, <1>3, <1>4, <2>2, <2>4
  <2>. QED
    BY <1>1, <1>2, <2>1, <2>2, <2>3, <2>4, <2>5
<1>8. \A d \in Dir \cap DOMAIN tracked : d \in DOMAIN t /\ t[d] = tracked[d]
  <2>1. SUFFICES ASSUME NEW d \in Dir \cap DOMAIN tracked
                 PROVE  d \in DOMAIN t /\ t[d] = tracked[d]
    OBVIOUS
  <2>2. d \notin DOMAIN files /\ d \notin Missing
    BY <1>1
  <2>3. d \in DOMAIN t2 /\ t2[d] = tracked[d]
    BY <1>1, <1>2, <1>3, <2>2
  <2>. QED
    BY <1>1, <1>4, <1>5, <1>6, <2>2, <2>3
<1>9. \A p \in new \cup renamed : p \in DOMAIN t /\ t[p] = FileEntry(p)
  <2>1. SUFFICES ASSUME NEW p \in new, p \notin renamed
                 PROVE  p \in DOMAIN t /\ t[p] = FileEntry(p)
    BY <1>6
  <2>2. p \notin ModifiedFiles /\ p \notin Missing
    BY <1>1
  <2>3. p \in DOMAIN t2 /\ t2[p] = FileEntry(p)
    BY <1>2, <1>3, <2>1, <2>2
  <2>. QED
    BY <1>4, <1>5, <1>6, <2>1, <2>2, <2>3
<1>10. \A p \in DOMAIN files \ CandidateNew :
         p \in DOMAIN t /\ ~t[p].isTombstoned /\ t[p].mtime = files[p].mtime
  <2>1. SUFFICES ASSUME NEW p \in DOMAIN files \ CandidateNew
                 PROVE  p \in DOMAIN t /\ ~t[p].isTombstoned /\ t[p].mtime = files[p].mtime
    OBVIOUS
  <2>2. p \in DOMAIN tracked /\ ~tracked[p].isTombstoned /\ p \notin Missing
    BY <1>1, <2>1 DEF CandidateNew
  <2>3. p \in DOMAIN t1 /\ t1[p] = tracked[p]
    BY <1>2, <2>1, <2>2
  <2>4. p \in DOMAIN t2 /\ ~t2[p].isTombstoned /\ t2[p].mtime = files[p].mtime
    <3>1. CASE p \in ModifiedFiles
      BY <1>3, <2>2, <2>3, <3>1
    <3>2. CASE p \notin ModifiedFiles
      <4>1. files[p].mtime = tracked[p].mtime
        BY <2>1, <3>2 DEF ModifiedFiles
      <4>. QED
        BY <1>3, <2>2, <2>3, <3>2, <4>1
    <3>. QED
      BY <3>1, <3>2
  <2>5. p \in DOMAIN t4 /\ t4[p] = t2[p]
    BY <1>4, <1>5, <2>2, <2>4
  <2>. QED
    BY <1>6, <2>1, <2>4, <2>5
<1>11. \A p \in (FilePath \cap DOMAIN t) \ DOMAIN files :
         /\ p \in DOMAIN tracked /\ t[p].inode = tracked[p].inode
         /\ ~t[p].isTombstoned => ~tracked[p].isTombstoned /\ p \notin gone \cup old
  <2>1. SUFFICES ASSUME NEW p \in (FilePath \cap DOMAIN t) \ DOMAIN files
                 PROVE  /\ p \in DOMAIN tracked /\ t[p].inode = tracked[p].inode
                        /\ ~t[p].isTombstoned =>
                             ~tracked[p].isTombstoned /\ p \notin gone \cup old
    OBVIOUS
  <2>2. p \notin DOMAIN dirs /\ p \notin new \cup renamed \cup ModifiedFiles
    BY <1>1, <2>1, Paths
  <2>3. p \in DOMAIN t4 /\ t[p] = t4[p]
    BY <1>6, <2>1, <2>2
  <2>4. p \in DOMAIN t3 \ old /\ t4[p] = t3[p]
    BY <1>5, <2>3
  <2>5. p \in DOMAIN t1 /\ t2[p] = t1[p] /\ t3[p].inode = t1[p].inode
    BY <1>3, <1>4, <2>2, <2>4
  <2>6. p \in DOMAIN tracked /\ t1[p] = tracked[p]
    BY <1>2, <2>2, <2>5
  <2>7. p \notin gone => t3[p] = tracked[p]
    BY <1>3, <1>4, <2>5, <2>6
  <2>8. p \in gone => t3[p].isTombstoned
    BY <1>4, <2>4
  <2>. QED
    BY <2>3, <2>4, <2>5, <2>6, <2>7, <2>8
<1>12. FilesTaken(t, new, gone, old, renamed)
  <2>. HIDE DEF t
  <2>. QED
    BY <1>6, <1>7, <1>8, <1>9, <1>10, <1>11 DEF FilesTaken
<1>13. Based(new, ModifiedFiles, gone, old, renamed) = t
  BY DEF Based, t, t4, t3, t2, t1
<1>. QED
  BY <1>12, <1>13

-----------------------------------------------------------------------------
(* The renamed directories, one after the other *)

LEMMA Orders ==
  ASSUME NEW S, IsFiniteSet(S), NEW o \in SetToSeqs(S)
  PROVE  /\ o \in Seq(S)
         /\ \A x \in S : \E i \in 1..Len(o) : o[i] = x
         /\ S = {} => Len(o) = 0
<1>. DEFINE n == Cardinality(S)
<1>1. n \in Nat
  BY FS_CardinalityType
<1>2. o \in [1..n -> S] /\ \A i, j \in 1..n : i # j => o[i] # o[j]
  BY DEF SetToSeqs
<1>3. o \in Seq(S) /\ Len(o) = n
  <2>. HIDE DEF n
  <2>. QED
    BY <1>1, <1>2
<1>4. IsFiniteSet(1..n) /\ Cardinality(1..n) = n
  <2>. HIDE DEF n
  <2>. QED
    BY <1>1, FS_Interval
<1>5. o \in Injection(1..n, S)
  <2>. HIDE DEF n
  <2>. QED
    BY <1>2 DEF Injection, IsInjective
<1>6. o \in Surjection(1..n, S)
  BY <1>4, <1>5, FS_Injection
<1>7. \A x \in S : \E i \in 1..n : o[i] = x
  <2>. HIDE DEF n
  <2>. QED
    BY <1>6 DEF Surjection
<1>8. S = {} => n = 0
  BY FS_EmptySet
<1>. HIDE DEF n
<1>. QED
  BY <1>3, <1>7, <1>8

MoveStep(t, o, f, i) == IF i = 0 THEN t ELSE Moved(f[i - 1], o[i])

After(t, o) == CHOOSE f : f = [i \in 0..Len(o) |-> MoveStep(t, o, f, i)]

LEMMA InOrder == \A t, o : MovedInOrder(t, o) = After(t, o)[Len(o)]
BY DEF MovedInOrder, After, MoveStep

(* The recursion defines a function.                                       *)
LEMMA AfterIs ==
  ASSUME NEW t, NEW o, Len(o) \in Nat
  PROVE  /\ After(t, o)[0] = t
         /\ \A i \in 1..Len(o) : After(t, o)[i] = Moved(After(t, o)[i - 1], o[i])
<1>. DEFINE Defines(f, n) == f = [i \in 0..n |-> MoveStep(t, o, f, i)]
            T == {n \in Nat : \E f : Defines(f, n)}
<1>1. 0 \in T
  <2>. DEFINE f == [i \in 0..0 |-> t]
  <2>1. f = [i \in 0..0 |-> MoveStep(t, o, f, i)]
    BY DEF MoveStep
  <2>. QED
    BY <2>1
<1>2. ASSUME NEW n \in Nat, n \in T
      PROVE  n + 1 \in T
  <2>1. PICK f : Defines(f, n)
    BY <1>2
  <2>. DEFINE g == [i \in 0..(n + 1) |-> IF i = n + 1 THEN MoveStep(t, o, f, n + 1) ELSE f[i]]
  <2>2. \A i \in 0..n : f[i] = MoveStep(t, o, f, i)
    BY <2>1
  <2>3. \A i \in 0..n : g[i] = f[i]
    OBVIOUS
  <2>4. \A i \in 0..(n + 1) : MoveStep(t, o, f, i) = MoveStep(t, o, g, i)
    <3>. HIDE DEF g
    <3>. SUFFICES ASSUME NEW i \in 0..(n + 1)
                  PROVE  MoveStep(t, o, f, i) = MoveStep(t, o, g, i)
      OBVIOUS
    <3>1. CASE i = 0
      BY <3>1 DEF MoveStep
    <3>2. CASE i # 0
      <4>1. i - 1 \in 0..n
        BY <3>2
      <4>2. f[i - 1] = g[i - 1]
        BY <2>3, <4>1
      <4>. QED
        BY <4>2 DEF MoveStep
    <3>. QED
      BY <3>1, <3>2
  <2>5. \A i \in 0..(n + 1) : g[i] = MoveStep(t, o, g, i)
    BY <2>2, <2>3, <2>4
  <2>6. g = [i \in 0..(n + 1) |-> g[i]]
    OBVIOUS
  <2>7. Defines(g, n + 1)
    <3>. HIDE DEF g
    <3>. QED
      BY <2>5, <2>6
  <2>8. \E h : Defines(h, n + 1)
    <3>. HIDE DEF g
    <3>. QED
      BY <2>7
  <2>. HIDE DEF Defines
  <2>. QED
    BY <2>8
<1>3. Nat \subseteq T
  <2>. HIDE DEF T
  <2>. QED
    BY <1>1, <1>2, Induction
<1>4. Defines(After(t, o), Len(o))
  BY <1>3 DEF After
<1>5. After(t, o)[0] = MoveStep(t, o, After(t, o), 0)
  BY <1>4
<1>6. \A i \in 1..Len(o) : After(t, o)[i] = MoveStep(t, o, After(t, o), i) /\ i # 0
  BY <1>4
<1>. QED
  BY <1>5, <1>6 DEF MoveStep

(* However many directories were renamed: a directory on the disk that was *)
(* tracked still is, each new path is, and a directory that is not on the  *)
(* disk was tracked before, as it is now.                                  *)
TakesDirs(t, m) ==
  /\ Table(m)
  /\ \A d \in Dir \cap DOMAIN m : \/ d \in DOMAIN t /\ m[d] = t[d]
                                  \/ d \in DOMAIN dirs
  /\ \A d \in DOMAIN dirs \cap DOMAIN t :
       ~t[d].isTombstoned => d \in DOMAIN m /\ ~m[d].isTombstoned

LEMMA OneMove ==
  ASSUME NamesApart, Disk, NEW t, NEW m, TakesDirs(t, m),
         NEW r, r.from \in Dir \ DOMAIN dirs, r.to \in DOMAIN dirs
  PROVE  /\ TakesDirs(t, Moved(m, r))
         /\ r.to \in DOMAIN Moved(m, r) /\ ~Moved(m, r)[r.to].isTombstoned
         /\ \A d \in DOMAIN dirs \cap DOMAIN m :
              ~m[d].isTombstoned => d \in DOMAIN Moved(m, r) /\ ~Moved(m, r)[d].isTombstoned
<1>. DEFINE v == Moved(m, r)
<1>1. Table(m) /\ DOMAIN dirs \subseteq Dir
  BY DEF TakesDirs, Disk
<1>2. /\ Table(v)
      /\ r.to \in DOMAIN v /\ ~v[r.to].isTombstoned
      /\ \A d \in (Dir \cap DOMAIN m) \ {r.from, r.to} : d \in DOMAIN v /\ v[d] = m[d]
      /\ \A d \in Dir \cap DOMAIN v : \/ d \in DOMAIN m /\ v[d] = m[d]
                                      \/ d \in DOMAIN dirs
  BY <1>1, MovedIs
<1>. HIDE DEF v
<1>3. \A d \in DOMAIN dirs \cap DOMAIN m :
        ~m[d].isTombstoned => d \in DOMAIN v /\ ~v[d].isTombstoned
  BY <1>1, <1>2
<1>4. TakesDirs(t, v)
  BY <1>1, <1>2, <1>3 DEF TakesDirs
<1>. QED
  BY <1>2, <1>3, <1>4 DEF v

LEMMA AllMoves ==
  ASSUME NamesApart, Disk, NEW t, Table(t), NEW R, NEW o \in Seq(R),
         \A r \in R : r.from \in Dir \ DOMAIN dirs /\ r.to \in DOMAIN dirs
  PROVE  /\ TakesDirs(t, MovedInOrder(t, o))
         /\ \A i \in 1..Len(o) : /\ o[i].to \in DOMAIN MovedInOrder(t, o)
                                 /\ ~MovedInOrder(t, o)[o[i].to].isTombstoned
         /\ Len(o) = 0 => MovedInOrder(t, o) = t
<1>. DEFINE m(k) == After(t, o)[k]
            Tracks(k, i) == o[i].to \in DOMAIN m(k) /\ ~m(k)[o[i].to].isTombstoned
            T == {k \in Nat : k <= Len(o) =>
                    TakesDirs(t, m(k)) /\ \A i \in 1..k : Tracks(k, i)}
<1>0. Len(o) \in Nat
  OBVIOUS
<1>1. 0 \in T
  <2>1. m(0) = t
    BY <1>0, AfterIs
  <2>2. TakesDirs(t, t)
    BY DEF TakesDirs
  <2>. HIDE DEF m
  <2>. QED
    BY <2>1, <2>2
<1>2. ASSUME NEW k \in Nat, k \in T
      PROVE  k + 1 \in T
  <2>1. SUFFICES ASSUME k + 1 <= Len(o)
                 PROVE  TakesDirs(t, m(k + 1)) /\ \A i \in 1..(k + 1) : Tracks(k + 1, i)
    OBVIOUS
  <2>2. k <= Len(o) /\ k + 1 \in 1..Len(o) /\ (k + 1) - 1 = k
    BY <1>0, <2>1
  <2>3. TakesDirs(t, m(k)) /\ \A i \in 1..k : Tracks(k, i)
    BY <1>2, <2>2
  <2>4. m(k + 1) = Moved(m(k), o[k + 1])
    BY <1>0, <2>2, AfterIs
  <2>5. \A i \in 1..Len(o) : o[i] \in R
    OBVIOUS
  <2>6. /\ o[k + 1].from \in Dir \ DOMAIN dirs
        /\ \A i \in 1..Len(o) : o[i].to \in DOMAIN dirs
    BY <2>2, <2>5
  <2>. HIDE DEF m
  <2>7. /\ TakesDirs(t, m(k + 1))
        /\ Tracks(k + 1, k + 1)
        /\ \A d \in DOMAIN dirs \cap DOMAIN m(k) :
             ~m(k)[d].isTombstoned => d \in DOMAIN m(k + 1) /\ ~m(k + 1)[d].isTombstoned
    BY <2>2, <2>3, <2>4, <2>6, OneMove
  <2>8. \A i \in 1..k : Tracks(k + 1, i)
    <3>1. 1..k \subseteq 1..Len(o)
      BY <1>0, <2>2
    <3>. QED
      BY <2>3, <2>6, <2>7, <3>1
  <2>9. \A i \in 1..(k + 1) : i \in 1..k \/ i = k + 1
    OBVIOUS
  <2>. HIDE DEF Tracks
  <2>. QED
    BY <2>7, <2>8, <2>9
<1>3. Len(o) \in T
  <2>. HIDE DEF T
  <2>. QED
    BY <1>0, <1>1, <1>2, Induction
<1>4. MovedInOrder(t, o) = m(Len(o)) /\ m(0) = t
  BY <1>0, InOrder, AfterIs
<1>. HIDE DEF m
<1>. QED
  BY <1>0, <1>3, <1>4

-----------------------------------------------------------------------------
(* What a scan finds *)

LEMMA ByInodeIs ==
  ASSUME NEW S, NEW m \in ByInode(S)
  PROVE  /\ \A i \in DOMAIN m : m[i] \in S /\ tracked[m[i]].inode = i
         /\ \A p \in S : tracked[p].inode # MISSING_INODE_SENTINEL
                           => tracked[p].inode \in DOMAIN m
<1>. DEFINE known == S \ WithoutInode(S)
            inodes == {tracked[p].inode : p \in known}
<1>1. m \in [inodes -> known] /\ \A i \in DOMAIN m : tracked[m[i]].inode = i
  BY DEF ByInode
<1>2. \A p \in S : tracked[p].inode # MISSING_INODE_SENTINEL => tracked[p].inode \in inodes
  BY DEF WithoutInode
<1>3. known \subseteq S
  OBVIOUS
<1>. HIDE DEF inodes, known
<1>. QED
  BY <1>1, <1>2, <1>3

LEMMA MatchesIs ==
  ASSUME NEW b, NEW inodes
  PROVE  /\ \A r \in Matches(b, inodes) :
              /\ r.to \in DOMAIN inodes /\ inodes[r.to] \in DOMAIN b
              /\ r.from = b[inodes[r.to]]
              /\ r = [from |-> b[inodes[r.to]], to |-> r.to]
         /\ \A p \in DOMAIN inodes :
              inodes[p] \in DOMAIN b => \E r \in Matches(b, inodes) : r.to = p
<1>1. ASSUME NEW r \in Matches(b, inodes)
      PROVE  /\ r.to \in DOMAIN inodes /\ inodes[r.to] \in DOMAIN b
             /\ r.from = b[inodes[r.to]]
             /\ r = [from |-> b[inodes[r.to]], to |-> r.to]
  <2>1. PICK p \in DOMAIN inodes : inodes[p] \in DOMAIN b
                                   /\ r = [from |-> b[inodes[p]], to |-> p]
    BY DEF Matches
  <2>2. r.to = p /\ r.from = b[inodes[p]]
    BY <2>1
  <2>. QED
    BY <2>1, <2>2
<1>2. ASSUME NEW p \in DOMAIN inodes, inodes[p] \in DOMAIN b
      PROVE  \E r \in Matches(b, inodes) : r.to = p
  <2>. DEFINE r == [from |-> b[inodes[p]], to |-> p]
  <2>1. r \in Matches(b, inodes) /\ r.to = p
    BY <1>2 DEF Matches
  <2>. QED
    BY <2>1
<1>. QED
  BY <1>1, <1>2

(* The directories found to be renamed: all of those that can be.          *)
LEMMA DirRenames ==
  ASSUME NamesApart, Disk, Table(tracked), NEW m, NEW d \in ByInode(MissingDirs)
  PROVE  LET R == Changes(m, d).renamedDirectories IN
         /\ \A r \in R : r.from \in MissingDirs /\ r.to \in DOMAIN dirs \ Live(TRUE)
         /\ IsFiniteSet(R)
         /\ \A x \in MissingDirs, e \in DOMAIN dirs \ Live(TRUE) :
              tracked[x].inode = dirs[e] => \E r \in R : r.to = e
         /\ NoMoves => /\ R = {}
                       /\ Matches(d, [p \in DOMAIN dirs \ Live(TRUE) |-> dirs[p]]) = {}
<1>. DEFINE New == DOMAIN dirs \ Live(TRUE)
            inodes == [p \in New |-> dirs[p]]
            D == Matches(d, inodes)
            R == {r \in D : ~\E k \in D : IsDescendantMove(r, k)}
<1>1. Changes(m, d).renamedDirectories = R
  BY DEF Changes
<1>2. DOMAIN inodes = New /\ \A p \in New : inodes[p] = dirs[p]
  OBVIOUS
<1>. HIDE DEF inodes
<1>3. \A r \in D : /\ r.to \in New /\ dirs[r.to] \in DOMAIN d
                   /\ r.from = d[dirs[r.to]]
                   /\ r = [from |-> d[dirs[r.to]], to |-> r.to]
  <2>1. \A r \in D : /\ r.to \in DOMAIN inodes /\ inodes[r.to] \in DOMAIN d
                     /\ r.from = d[inodes[r.to]]
                     /\ r = [from |-> d[inodes[r.to]], to |-> r.to]
    BY MatchesIs
  <2>. HIDE DEF D, New
  <2>. QED
    BY <1>2, <2>1
<1>4. \A p \in New : dirs[p] \in DOMAIN d => \E r \in D : r.to = p
  <2>1. \A p \in DOMAIN inodes : inodes[p] \in DOMAIN d => \E r \in D : r.to = p
    BY MatchesIs
  <2>. HIDE DEF D, New
  <2>. QED
    BY <1>2, <2>1
<1>. HIDE DEF D
<1>5. \A r \in D : r.from \in MissingDirs /\ tracked[r.from].inode = dirs[r.to]
  <2>1. \A i \in DOMAIN d : d[i] \in MissingDirs /\ tracked[d[i]].inode = i
    BY ByInodeIs
  <2>. QED
    BY <1>3, <2>1
<1>6. MissingDirs \subseteq Dir
  BY DEF MissingDirs, Live, Table
<1>7. R = D
  <2>1. \A r, k \in D : ~IsDescendantMove(r, k)
    BY <1>5, <1>6, DirsAreFlat DEF IsDescendantMove
  <2>. QED
    BY <2>1
<1>8. IsFiniteSet(D)
  <2>. DEFINE g == [r \in D |-> r.to]
  <2>1. g \in [D -> DOMAIN dirs]
    BY <1>3
  <2>2. \A r, k \in D : g[r] = g[k] => r = k
    BY <1>3
  <2>. HIDE DEF g
  <2>3. g \in Injection(D, DOMAIN dirs)
    BY <2>1, <2>2 DEF Injection, IsInjective
  <2>4. IsFiniteSet(DOMAIN dirs)
    BY DEF Disk
  <2>. QED
    BY <2>3, <2>4, FS_Injection
<1>9. ASSUME NEW x \in MissingDirs, NEW e \in New, tracked[x].inode = dirs[e]
      PROVE  \E r \in D : r.to = e
  <2>1. dirs[e] # MISSING_INODE_SENTINEL
    BY ScannerAssumption DEF Disk, MISSING_INODE_SENTINEL
  <2>2. dirs[e] \in DOMAIN d
    BY <1>9, <2>1, ByInodeIs
  <2>. QED
    BY <1>4, <2>2
<1>10. NoMoves => D = {}
  BY <1>3, <1>5 DEF NoMoves
<1>. HIDE DEF R, New
<1>. QED
  BY <1>1, <1>3, <1>5, <1>7, <1>8, <1>9, <1>10 DEF New, D, inodes

(* The files found.                                                        *)
LEMMA FileChanges ==
  ASSUME NamesApart, Disk, Table(tracked),
         NEW m \in ByInode(Missing), NEW d \in ByInode(MissingDirs)
  PROVE  LET c == Changes(m, d)
             old == {r.from : r \in c.renamedFiles}
             renamed == {r.to : r \in c.renamedFiles}
         IN /\ c.newFiles \subseteq CandidateNew /\ renamed \subseteq CandidateNew
            /\ c.modifiedFiles = ModifiedFiles
            /\ c.deletedFiles \subseteq Missing /\ old \subseteq Missing
            /\ NoMoves =>
                 /\ CandidateNew \subseteq c.newFiles \cup renamed
                 /\ \A p \in Missing : \E q \in Missing :
                      /\ q \in c.deletedFiles \cup old
                      /\ tracked[q].inode = tracked[p].inode
<1>. DEFINE c == Changes(m, d)
            inodes == [p \in CandidateNew |-> files[p].inode]
            F == Matches(m, inodes)
            D == Matches(d, [p \in DOMAIN dirs \ Live(TRUE) |-> dirs[p]])
            K == {r \in F : ~\E k \in D : IsDescendantMove(r, k)}
            old == {r.from : r \in K}
            renamed == {r.to : r \in K}
            gone == ({m[i] : i \in DOMAIN m} \ {r.from : r \in F}) \cup WithoutInode(Missing)
<1>1. /\ c.newFiles = CandidateNew \ {r.to : r \in F}
      /\ c.modifiedFiles = ModifiedFiles
      /\ c.deletedFiles = gone
      /\ c.renamedFiles = K
  BY DEF Changes
<1>2. \A r \in F : r.to \in CandidateNew /\ r.from \in Missing
  <2>1. DOMAIN inodes = CandidateNew
    OBVIOUS
  <2>. HIDE DEF inodes
  <2>. QED
    BY <2>1, MatchesIs, ByInodeIs
<1>3. \A i \in DOMAIN m : m[i] \in Missing /\ tracked[m[i]].inode = i
  BY ByInodeIs
<1>4. gone \subseteq Missing
  <2>. HIDE DEF F
  <2>. QED
    BY <1>3 DEF WithoutInode
<1>5. NoMoves => K = F
  BY DirRenames
<1>6. ASSUME NoMoves, NEW p \in Missing
      PROVE  \E q \in Missing : /\ q \in gone \cup old
                                /\ tracked[q].inode = tracked[p].inode
  <2>1. CASE tracked[p].inode = MISSING_INODE_SENTINEL
    BY <2>1 DEF WithoutInode
  <2>2. CASE tracked[p].inode # MISSING_INODE_SENTINEL
    <3>. DEFINE q == m[tracked[p].inode]
    <3>1. tracked[p].inode \in DOMAIN m
      BY <2>2, ByInodeIs
    <3>2. q \in Missing /\ tracked[q].inode = tracked[p].inode
      BY <1>3, <3>1
    <3>3. q \in gone \cup old
      <4>. HIDE DEF F, K
      <4>. QED
        BY <1>5, <1>6, <3>1
    <3>. QED
      BY <3>2, <3>3
  <2>. QED
    BY <2>1, <2>2
<1>7. renamed \subseteq CandidateNew /\ old \subseteq Missing
  <2>. HIDE DEF F
  <2>. QED
    BY <1>2
<1>8. NoMoves => CandidateNew \subseteq (CandidateNew \ {r.to : r \in F}) \cup renamed
  <2>. HIDE DEF F, K
  <2>. QED
    BY <1>5
<1>. HIDE DEF c, gone, K, F
<1>9. {r.from : r \in c.renamedFiles} = old /\ {r.to : r \in c.renamedFiles} = renamed
  BY <1>1
<1>. HIDE DEF old, renamed
<1>10. /\ c.newFiles \subseteq CandidateNew
       /\ NoMoves => CandidateNew \subseteq c.newFiles \cup renamed
  BY <1>1, <1>8
<1>11. NoMoves => \A p \in Missing : \E q \in Missing :
                    /\ q \in c.deletedFiles \cup old
                    /\ tracked[q].inode = tracked[p].inode
  BY <1>1, <1>6
<1>. QED
  BY <1>1, <1>4, <1>7, <1>9, <1>10, <1>11 DEF c

-----------------------------------------------------------------------------
(* The scan *)

(* Whatever is tracked, after a scan no directory is there to be found     *)
(* renamed; and a scan that finds none catches every file on the disk and  *)
(* forgets one of the vanished files of each inode.                        *)
LEMMA ScanStep ==
  ASSUME NamesApart, Disk, Table(tracked), Scan
  PROVE  /\ Disk' /\ Table(tracked)' /\ NoMoves'
         /\ NoMoves => /\ Caught'
                       /\ Missing' \subseteq Missing
                       /\ \A p \in Missing : \E q \in Missing \ Missing' :
                            tracked[q].inode = tracked[p].inode
<1>0. PICK c \in Scans : \E o \in SetToSeqs(c.renamedDirectories) :
                             tracked' = Applied(c, o)
  BY DEF Scan
<1>1. PICK o \in SetToSeqs(c.renamedDirectories) : tracked' = Applied(c, o)
  BY <1>0
<1>2. PICK m \in ByInode(Missing), d \in ByInode(MissingDirs) : c = Changes(m, d)
  BY DEF Scans
<1>. DEFINE old     == {r.from : r \in c.renamedFiles}
            renamed == {r.to : r \in c.renamedFiles}
            t == Based(c.newFiles, ModifiedFiles, c.deletedFiles, old, renamed)
            R == c.renamedDirectories
            v == MovedInOrder(t, o)
<1>3. UNCHANGED <<files, dirs, ops>>
  BY DEF Scan
<1>4. /\ c.newFiles \subseteq CandidateNew /\ renamed \subseteq CandidateNew
      /\ c.modifiedFiles = ModifiedFiles
      /\ c.deletedFiles \subseteq Missing /\ old \subseteq Missing
      /\ NoMoves =>
           /\ CandidateNew \subseteq c.newFiles \cup renamed
           /\ \A p \in Missing : \E q \in Missing :
                /\ q \in c.deletedFiles \cup old
                /\ tracked[q].inode = tracked[p].inode
  BY <1>2, FileChanges
<1>5. /\ \A r \in R : r.from \in MissingDirs /\ r.to \in DOMAIN dirs \ Live(TRUE)
      /\ IsFiniteSet(R)
      /\ \A x \in MissingDirs, e \in DOMAIN dirs \ Live(TRUE) :
           tracked[x].inode = dirs[e] => \E r \in R : r.to = e
      /\ NoMoves => R = {}
  <2>. DEFINE Q == Changes(m, d).renamedDirectories
  <2>1. /\ \A r \in Q : r.from \in MissingDirs /\ r.to \in DOMAIN dirs \ Live(TRUE)
        /\ IsFiniteSet(Q)
        /\ \A x \in MissingDirs, e \in DOMAIN dirs \ Live(TRUE) :
             tracked[x].inode = dirs[e] => \E r \in Q : r.to = e
        /\ NoMoves => Q = {}
    BY DirRenames
  <2>2. R = Q
    BY <1>2
  <2>. HIDE DEF R, Q
  <2>. QED
    BY <2>1, <2>2
<1>6. tracked' = v
  BY <1>1, <1>4 DEF Applied, Based
<1>7. /\ Table(t)
      /\ \A x \in Dir \cap DOMAIN t : \/ x \in DOMAIN tracked /\ t[x] = tracked[x]
                                      \/ x \in DOMAIN dirs
      /\ \A x \in Dir \cap DOMAIN tracked : x \in DOMAIN t /\ t[x] = tracked[x]
      /\ \A p \in c.newFiles \cup renamed : p \in DOMAIN t /\ t[p] = FileEntry(p)
      /\ \A p \in DOMAIN files \ CandidateNew :
           p \in DOMAIN t /\ ~t[p].isTombstoned /\ t[p].mtime = files[p].mtime
      /\ \A p \in (FilePath \cap DOMAIN t) \ DOMAIN files :
           /\ p \in DOMAIN tracked /\ t[p].inode = tracked[p].inode
           /\ ~t[p].isTombstoned =>
                ~tracked[p].isTombstoned /\ p \notin c.deletedFiles \cup old
  <2>. HIDE DEF old, renamed
  <2>1. /\ c.newFiles \in SUBSET CandidateNew /\ renamed \in SUBSET CandidateNew
        /\ c.deletedFiles \in SUBSET Missing /\ old \in SUBSET Missing
    BY <1>4
  <2>2. FilesTaken(Based(c.newFiles, ModifiedFiles, c.deletedFiles, old, renamed),
                   c.newFiles, c.deletedFiles, old, renamed)
    BY <2>1, BasedIs
  <2>3. FilesTaken(t, c.newFiles, c.deletedFiles, old, renamed)
    BY <2>2
  <2>. HIDE DEF t
  <2>. QED
    BY <2>3 DEF FilesTaken
<1>. HIDE DEF t, old, renamed
<1>8. /\ o \in Seq(R)
      /\ \A x \in R : \E i \in 1..Len(o) : o[i] = x
      /\ R = {} => Len(o) = 0
  BY <1>1, <1>5, Orders
<1>9. \A r \in R : r.from \in Dir \ DOMAIN dirs /\ r.to \in DOMAIN dirs
  BY <1>5 DEF MissingDirs, Live, Table
<1>. HIDE DEF R
<1>10. /\ TakesDirs(t, v)
       /\ \A i \in 1..Len(o) : o[i].to \in DOMAIN v /\ ~v[o[i].to].isTombstoned
       /\ Len(o) = 0 => v = t
  BY <1>7, <1>8, <1>9, AllMoves
<1>. HIDE DEF v
<1>11. Disk'
  BY <1>3 DEF Disk, Above
<1>12. Table(tracked)'
  BY <1>6, <1>10 DEF TakesDirs, Table
<1>13. ASSUME NEW x \in MissingDirs', NEW e \in (DOMAIN dirs \ Live(TRUE))',
              tracked'[x].inode = dirs'[e]
       PROVE  FALSE
  <2>1. /\ x \in DOMAIN v /\ x \in Dir /\ ~v[x].isTombstoned /\ x \notin DOMAIN dirs
        /\ v[x].inode = dirs[e]
    BY <1>3, <1>6, <1>12, <1>13 DEF MissingDirs, Live, Table
  <2>2. x \in DOMAIN tracked /\ v[x] = tracked[x]
    BY <1>7, <1>10, <2>1 DEF TakesDirs
  <2>3. x \in MissingDirs
    BY <2>1, <2>2 DEF MissingDirs, Live, Table
  <2>4. e \in DOMAIN dirs /\ e \in Dir
    BY <1>3, <1>13 DEF Disk
  <2>5. ~(e \in DOMAIN v /\ ~v[e].isTombstoned)
    BY <1>6, <1>12, <1>13, <2>4 DEF Live, Table
  <2>6. e \notin Live(TRUE)
    <3>1. SUFFICES ASSUME e \in DOMAIN tracked, ~tracked[e].isTombstoned
                   PROVE  FALSE
      BY DEF Live
    <3>2. e \in DOMAIN t /\ ~t[e].isTombstoned
      BY <1>7, <2>4, <3>1
    <3>. QED
      BY <1>10, <2>4, <2>5, <3>2 DEF TakesDirs
  <2>7. PICK r \in R : r.to = e
    BY <1>5, <2>1, <2>2, <2>3, <2>4, <2>6
  <2>8. PICK i \in 1..Len(o) : o[i] = r
    BY <1>8
  <2>. QED
    BY <1>10, <2>5, <2>7, <2>8
<1>14. ASSUME NoMoves
       PROVE  /\ Caught'
              /\ Missing' \subseteq Missing
              /\ \A p \in Missing : \E q \in Missing \ Missing' :
                   tracked[q].inode = tracked[p].inode
  <2>1. tracked' = t
    BY <1>5, <1>6, <1>8, <1>10, <1>14
  <2>2. ASSUME NEW p \in DOMAIN files
        PROVE  p \in DOMAIN t /\ ~t[p].isDir /\ ~t[p].isTombstoned
               /\ t[p].mtime = files[p].mtime
    <3>1. p \in DOMAIN t /\ ~t[p].isTombstoned /\ t[p].mtime = files[p].mtime
      <4>1. CASE p \in CandidateNew
        BY <1>4, <1>7, <1>14, <4>1, Entries
      <4>2. CASE p \notin CandidateNew
        BY <1>7, <4>2
      <4>. QED
        BY <4>1, <4>2
    <3>2. p \notin Dir
      BY Paths DEF Disk
    <3>. QED
      BY <1>7, <3>1, <3>2 DEF Table
  <2>3. Caught'
    BY <1>3, <2>1, <2>2 DEF Caught, Live
  <2>4. ASSUME NEW p \in Missing'
        PROVE  p \in Missing /\ p \notin c.deletedFiles \cup old
    <3>1. p \in DOMAIN t /\ ~t[p].isDir /\ ~t[p].isTombstoned /\ p \notin DOMAIN files
      BY <1>3, <2>1, <2>4 DEF Missing, Live
    <3>2. p \in FilePath
      BY <1>7, <3>1 DEF Table
    <3>3. p \in DOMAIN tracked /\ ~tracked[p].isTombstoned /\ p \notin c.deletedFiles \cup old
      BY <1>7, <3>1, <3>2
    <3>4. ~tracked[p].isDir
      <4>1. p \notin Dir
        BY <3>2, Paths
      <4>. QED
        BY <3>3, <4>1 DEF Table
    <3>. QED
      BY <3>1, <3>3, <3>4 DEF Missing, Live
  <2>5. ASSUME NEW p \in Missing
        PROVE  \E q \in Missing \ Missing' : tracked[q].inode = tracked[p].inode
    BY <1>4, <1>14, <2>4
  <2>. QED
    BY <2>3, <2>4, <2>5
<1>. QED
  BY <1>11, <1>12, <1>13, <1>14 DEF NoMoves
-----------------------------------------------------------------------------
(* The changes the user makes *)

(* A path is under one directory at most.                                  *)
LEMMA AboveIs ==
  ASSUME NamesApart, NEW p \in FilePath
  PROVE  /\ IsFiniteSet(Above(p))
         /\ \A d \in Dir : p \in Under(d) => Above(p) = {d}
<1>1. ASSUME NEW d \in Above(p)
      PROVE  d = <<p[1]>>
  <2>1. d \in Dir /\ d = <<d[1]>>
    BY Paths DEF Above
  <2>2. PICK n \in FileName : p = <<d[1], n>>
    BY <2>1, StrictlyBelow DEF Above
  <2>3. p[1] = d[1]
    BY <2>2, Pairs
  <2>. QED
    BY <2>1, <2>3
<1>2. Above(p) \subseteq {<<p[1]>>}
  BY <1>1
<1>3. IsFiniteSet({<<p[1]>>})
  BY FS_Singleton
<1>4. IsFiniteSet(Above(p))
  BY <1>2, <1>3, FS_Subset
<1>5. ASSUME NEW d \in Dir, p \in Under(d)
      PROVE  Above(p) = {d}
  <2>1. d \in Above(p)
    BY <1>5 DEF Above, Under
  <2>. QED
    BY <1>1, <2>1
<1>. QED
  BY <1>4, <1>5

(* The directories that are there after a path was made for p.             *)
LEMMA PathMade ==
  ASSUME NamesApart, Disk, NEW p \in FilePath, NEW i \in Inode, MakePath(p, i)
  PROVE  /\ DOMAIN dirs \cup Above(p) \subseteq DOMAIN dirs'
         /\ DOMAIN dirs' \subseteq Dir
         /\ IsFiniteSet(DOMAIN dirs')
         /\ \A d \in DOMAIN dirs' : dirs'[d] \in Inode
<1>. DEFINE made == [d \in Above(p) \ DOMAIN dirs |-> i]
<1>1. dirs' = Over(made, dirs)
  BY DEF MakePath
<1>2. DOMAIN made = Above(p) \ DOMAIN dirs /\ \A d \in DOMAIN made : made[d] = i
  OBVIOUS
<1>. HIDE DEF made
<1>3. /\ DOMAIN dirs' = DOMAIN made \cup DOMAIN dirs
      /\ \A d \in DOMAIN made : dirs'[d] = made[d]
      /\ \A d \in DOMAIN dirs \ DOMAIN made : dirs'[d] = dirs[d]
  <2>. DEFINE w == Over(made, dirs)
  <2>1. /\ DOMAIN w = DOMAIN made \cup DOMAIN dirs
        /\ \A d \in DOMAIN made : w[d] = made[d]
        /\ \A d \in DOMAIN dirs \ DOMAIN made : w[d] = dirs[d]
    BY OverIs
  <2>2. dirs' = w
    BY <1>1
  <2>. HIDE DEF w
  <2>. QED
    BY <2>1, <2>2
<1>4. Above(p) \subseteq Dir /\ IsFiniteSet(Above(p))
  BY AboveIs DEF Above
<1>5. IsFiniteSet(DOMAIN dirs')
  <2>1. DOMAIN dirs' = DOMAIN dirs \cup Above(p)
    BY <1>2, <1>3
  <2>2. IsFiniteSet(DOMAIN dirs)
    BY DEF Disk
  <2>. QED
    BY <1>4, <2>1, <2>2, FS_Union
<1>6. \A d \in DOMAIN dirs' : dirs'[d] \in Inode
  BY <1>2, <1>3 DEF Disk
<1>7. DOMAIN dirs' = DOMAIN dirs \cup Above(p)
  BY <1>2, <1>3
<1>. QED
  BY <1>4, <1>5, <1>6, <1>7 DEF Disk

(* The inodes and times of files survive a change.                         *)
LEMMA Later ==
  ASSUME Disk, Change
  PROVE  /\ ops' \in Nat /\ ops' \in 1..ops'
         /\ \A p \in DOMAIN files : /\ files[p] \in [inode : Inode, mtime : 1..ops']
                                    /\ files[p].inode \in Inode
<1>1. ops \in Nat /\ ops' = ops + 1
  BY DEF Change, Disk
<1>2. 1..ops \subseteq 1..ops' /\ ops' \in Nat /\ ops' \in 1..ops'
  BY <1>1
<1>3. ASSUME NEW p \in DOMAIN files
      PROVE  /\ files[p] \in [inode : Inode, mtime : 1..ops']
             /\ files[p].inode \in Inode
  <2>1. files[p] \in [inode : Inode, mtime : 1..ops]
    BY DEF Disk
  <2>. QED
    BY <1>2, <2>1
<1>. QED
  BY <1>2, <1>3

LEMMA CreateKeepsDisk ==
  ASSUME NamesApart, Disk, NEW p \in FilePath, CreateFile(p)
  PROVE  Disk'
<1>1. Change
  BY DEF CreateFile
<1>2. PICK i \in Free : \E j \in Free \ {i} :
        /\ MakePath(p, j)
        /\ files' = Over([q \in {p} |-> [inode |-> i, mtime |-> ops']], files)
  BY DEF CreateFile
<1>3. PICK j \in Free \ {i} :
        /\ MakePath(p, j)
        /\ files' = Over([q \in {p} |-> [inode |-> i, mtime |-> ops']], files)
  BY <1>2
<1>. DEFINE new == [q \in {p} |-> [inode |-> i, mtime |-> ops']]
<1>4. i \in Inode /\ j \in Inode
  BY <1>3 DEF Free
<1>5. /\ DOMAIN new = {p} /\ new[p] \in [inode : Inode, mtime : 1..ops']
  <2>1. new[p] = [inode |-> i, mtime |-> ops']
    OBVIOUS
  <2>2. ops' \in 1..ops'
    BY <1>1, Later
  <2>. QED
    BY <1>4, <2>1, <2>2
<1>6. files' = Over(new, files)
  BY <1>3
<1>. HIDE DEF new
<1>7. /\ DOMAIN files' = {p} \cup DOMAIN files
      /\ files'[p] = new[p]
      /\ \A q \in DOMAIN files \ {p} : files'[q] = files[q]
  <2>. DEFINE w == Over(new, files)
  <2>1. /\ DOMAIN w = DOMAIN new \cup DOMAIN files
        /\ \A q \in DOMAIN new : w[q] = new[q]
        /\ \A q \in DOMAIN files \ DOMAIN new : w[q] = files[q]
    BY OverIs
  <2>2. files' = w
    BY <1>6
  <2>. HIDE DEF w
  <2>. QED
    BY <1>5, <2>1, <2>2
<1>8. /\ DOMAIN dirs \cup Above(p) \subseteq DOMAIN dirs'
      /\ DOMAIN dirs' \subseteq Dir
      /\ IsFiniteSet(DOMAIN dirs')
      /\ \A d \in DOMAIN dirs' : dirs'[d] \in Inode
  BY <1>3, <1>4, PathMade
<1>9. \A q \in DOMAIN files' : files'[q] \in [inode : Inode, mtime : 1..ops']
  BY <1>1, <1>5, <1>7, Later
<1>10. \A q \in DOMAIN files' : q \in FilePath /\ Above(q)' \subseteq DOMAIN dirs'
  BY <1>7, <1>8 DEF Disk, Above
<1>11. ops' \in Nat
  BY <1>1, Later
<1>. QED
  BY <1>8, <1>9, <1>10, <1>11 DEF Disk

LEMMA ModifyKeepsDisk ==
  ASSUME NamesApart, Disk, NEW p \in FilePath, ModifyFile(p)
  PROVE  Disk'
<1>1. /\ Change /\ UNCHANGED dirs /\ p \in DOMAIN files
      /\ files' = [files EXCEPT ![p].mtime = ops']
  BY DEF ModifyFile
<1>2. /\ DOMAIN files' = DOMAIN files
      /\ \A q \in DOMAIN files \ {p} : files'[q] = files[q]
      /\ files'[p] = [files[p] EXCEPT !.mtime = ops']
  BY <1>1
<1>3. ops' \in Nat /\ ops' \in 1..ops'
  BY <1>1, Later
<1>4. files'[p] \in [inode : Inode, mtime : 1..ops']
  <2>1. files[p] \in [inode : Inode, mtime : 1..ops']
    BY <1>1, Later
  <2>. QED
    BY <1>2, <1>3, <2>1
<1>5. \A q \in DOMAIN files' : files'[q] \in [inode : Inode, mtime : 1..ops']
  BY <1>1, <1>2, <1>4, Later
<1>. QED
  BY <1>1, <1>2, <1>3, <1>5 DEF Disk, Above

LEMMA DeleteKeepsDisk ==
  ASSUME NamesApart, Disk, NEW p \in FilePath, DeleteFile(p)
  PROVE  Disk'
<1>1. Change /\ UNCHANGED dirs /\ files' = Without(files, {p})
  BY DEF DeleteFile
<1>2. /\ DOMAIN files' = DOMAIN files \ {p}
      /\ \A q \in DOMAIN files' : files'[q] = files[q]
  <2>. DEFINE w == Without(files, {p})
  <2>1. /\ DOMAIN w = DOMAIN files \ {p}
        /\ \A q \in DOMAIN files \ {p} : w[q] = files[q]
    BY WithoutIs
  <2>2. files' = w
    BY <1>1
  <2>. HIDE DEF w
  <2>. QED
    BY <2>1, <2>2
<1>3. /\ ops' \in Nat
      /\ \A q \in DOMAIN files' : files'[q] \in [inode : Inode, mtime : 1..ops']
  BY <1>1, <1>2, Later
<1>. QED
  BY <1>1, <1>2, <1>3 DEF Disk, Above

LEMMA RenameKeepsDisk ==
  ASSUME NamesApart, Disk, NEW p \in FilePath, NEW q \in FilePath, RenameFile(p, q)
  PROVE  Disk'
<1>. DEFINE new  == [r \in {q} |-> files[p]]
            rest == Without(files, {p})
<1>1. /\ Change /\ p \in DOMAIN files /\ files' = Over(new, rest)
      /\ \E j \in Free : MakePath(q, j)
  BY DEF RenameFile
<1>2. PICK j \in Free : MakePath(q, j)
  BY <1>1
<1>3. j \in Inode
  BY DEF Free
<1>4. DOMAIN new = {q} /\ new[q] = files[p]
  OBVIOUS
<1>5. /\ DOMAIN rest = DOMAIN files \ {p}
      /\ \A r \in DOMAIN rest : rest[r] = files[r]
  BY WithoutIs
<1>. HIDE DEF new, rest
<1>6. /\ DOMAIN files' = {q} \cup DOMAIN rest
      /\ files'[q] = files[p]
      /\ \A r \in DOMAIN rest \ {q} : files'[r] = rest[r]
  <2>. DEFINE w == Over(new, rest)
  <2>1. /\ DOMAIN w = DOMAIN new \cup DOMAIN rest
        /\ \A r \in DOMAIN new : w[r] = new[r]
        /\ \A r \in DOMAIN rest \ DOMAIN new : w[r] = rest[r]
    BY OverIs
  <2>2. files' = w
    BY <1>1
  <2>. HIDE DEF w
  <2>. QED
    BY <1>4, <2>1, <2>2
<1>7. /\ DOMAIN dirs \cup Above(q) \subseteq DOMAIN dirs'
      /\ DOMAIN dirs' \subseteq Dir
      /\ IsFiniteSet(DOMAIN dirs')
      /\ \A d \in DOMAIN dirs' : dirs'[d] \in Inode
  BY <1>2, <1>3, PathMade
<1>8. /\ ops' \in Nat
      /\ \A r \in DOMAIN files' : files'[r] \in [inode : Inode, mtime : 1..ops']
  BY <1>1, <1>5, <1>6, Later
<1>9. \A r \in DOMAIN files' : r \in FilePath /\ Above(r)' \subseteq DOMAIN dirs'
  BY <1>5, <1>6, <1>7 DEF Disk, Above
<1>. QED
  BY <1>7, <1>8, <1>9 DEF Disk

LEMMA RenameDirKeepsDisk ==
  ASSUME NamesApart, Disk, NEW d \in Dir, NEW e \in Dir, RenameDir(d, e)
  PROVE  Disk'
<1>. DEFINE below == DOMAIN files \cap Under(d)
            new   == [q \in {Rebased(p, d, e) : p \in below} |-> files[Rebased(q, e, d)]]
            rest  == Without(files, below)
            top   == [r \in {e} |-> dirs[d]]
            left  == Without(dirs, {d})
<1>1. /\ Change /\ d \in DOMAIN dirs /\ e \notin DOMAIN dirs
      /\ files' = Over(new, rest) /\ dirs' = Over(top, left)
  BY DEF RenameDir, Exists
<1>2. DOMAIN top = {e} /\ top[e] = dirs[d]
  OBVIOUS
<1>3. /\ DOMAIN left = DOMAIN dirs \ {d}
      /\ \A x \in DOMAIN dirs \ {d} : left[x] = dirs[x]
  BY WithoutIs
<1>4. /\ DOMAIN rest = DOMAIN files \ below
      /\ \A q \in DOMAIN files \ below : rest[q] = files[q]
  BY WithoutIs
<1>5. \A q \in DOMAIN new : q \in Under(e) /\ \E p \in DOMAIN files : new[q] = files[p]
  <2>1. ASSUME NEW q \in DOMAIN new
        PROVE  q \in Under(e) /\ \E p \in DOMAIN files : new[q] = files[p]
    <3>1. PICK p \in below : q = Rebased(p, d, e)
      BY <2>1
    <3>2. q \in Under(e) /\ Rebased(q, e, d) = p
      BY <3>1, RebasedFile
    <3>3. new[q] = files[p]
      BY <2>1, <3>2
    <3>. QED
      BY <3>2, <3>3
  <2>. HIDE DEF new
  <2>. QED
    BY <2>1
<1>. HIDE DEF top, left, new, rest
<1>6. /\ DOMAIN dirs' = {e} \cup (DOMAIN dirs \ {d})
      /\ dirs'[e] = dirs[d]
      /\ \A x \in DOMAIN dirs' \ {e} : dirs'[x] = dirs[x]
  <2>. DEFINE w == Over(top, left)
  <2>1. /\ DOMAIN w = DOMAIN top \cup DOMAIN left
        /\ \A x \in DOMAIN top : w[x] = top[x]
        /\ \A x \in DOMAIN left \ DOMAIN top : w[x] = left[x]
    BY OverIs
  <2>2. dirs' = w
    BY <1>1
  <2>. HIDE DEF w
  <2>. QED
    BY <1>2, <1>3, <2>1, <2>2
<1>7. /\ DOMAIN files' = DOMAIN new \cup DOMAIN rest
      /\ \A q \in DOMAIN new : files'[q] = new[q]
      /\ \A q \in DOMAIN rest \ DOMAIN new : files'[q] = rest[q]
  <2>. DEFINE w == Over(new, rest)
  <2>1. /\ DOMAIN w = DOMAIN new \cup DOMAIN rest
        /\ \A q \in DOMAIN new : w[q] = new[q]
        /\ \A q \in DOMAIN rest \ DOMAIN new : w[q] = rest[q]
    BY OverIs
  <2>2. files' = w
    BY <1>1
  <2>. HIDE DEF w
  <2>. QED
    BY <2>1, <2>2
<1>8. /\ ops' \in Nat
      /\ \A p \in DOMAIN files : files[p] \in [inode : Inode, mtime : 1..ops']
  BY <1>1, Later
<1>9. ASSUME NEW q \in DOMAIN files'
      PROVE  files'[q] \in [inode : Inode, mtime : 1..ops']
  <2>1. CASE q \in DOMAIN new
    BY <1>5, <1>7, <1>8, <2>1
  <2>2. CASE q \notin DOMAIN new
    BY <1>4, <1>7, <1>8, <1>9, <2>2
  <2>. QED
    BY <2>1, <2>2
<1>10. ASSUME NEW q \in DOMAIN files'
       PROVE  q \in FilePath /\ Above(q) \subseteq DOMAIN dirs'
  <2>1. CASE q \in DOMAIN new
    <3>1. q \in Under(e) /\ q \in FilePath
      BY <1>5, <2>1 DEF Under
    <3>2. Above(q) = {e}
      BY <3>1, AboveIs
    <3>. QED
      BY <1>6, <3>1, <3>2
  <2>2. CASE q \notin DOMAIN new
    <3>1. q \in DOMAIN files /\ q \notin Under(d)
      BY <1>4, <1>7, <1>10, <2>2
    <3>2. q \in FilePath /\ Above(q) \subseteq DOMAIN dirs
      BY <3>1 DEF Disk
    <3>3. d \notin Above(q)
      BY <3>1, <3>2 DEF Above, Under
    <3>. QED
      BY <1>6, <3>2, <3>3
  <2>. QED
    BY <2>1, <2>2
<1>11. IsFiniteSet(DOMAIN dirs')
  <2>1. IsFiniteSet(DOMAIN dirs \ {d})
    BY FS_Difference DEF Disk
  <2>. QED
    BY <1>6, <2>1, FS_AddElement
<1>12. DOMAIN dirs' \subseteq Dir /\ \A x \in DOMAIN dirs' : dirs'[x] \in Inode
  BY <1>1, <1>6 DEF Disk
<1>13. \A q \in DOMAIN files' : q \in FilePath /\ Above(q)' \subseteq DOMAIN dirs'
  BY <1>10 DEF Above
<1>. QED
  BY <1>8, <1>9, <1>11, <1>12, <1>13 DEF Disk

LEMMA RemoveDirKeepsDisk ==
  ASSUME NamesApart, Disk, NEW d \in Dir, RemoveDir(d)
  PROVE  Disk'
<1>1. /\ Change /\ UNCHANGED files
      /\ DOMAIN files \cap Under(d) = {}
      /\ dirs' = Without(dirs, {d})
  BY DEF RemoveDir
<1>2. /\ DOMAIN dirs' = DOMAIN dirs \ {d}
      /\ \A x \in DOMAIN dirs' : dirs'[x] = dirs[x]
  <2>. DEFINE w == Without(dirs, {d})
  <2>1. /\ DOMAIN w = DOMAIN dirs \ {d}
        /\ \A x \in DOMAIN dirs \ {d} : w[x] = dirs[x]
    BY WithoutIs
  <2>2. dirs' = w
    BY <1>1
  <2>. HIDE DEF w
  <2>. QED
    BY <2>1, <2>2
<1>3. ASSUME NEW q \in DOMAIN files'
      PROVE  q \in FilePath /\ Above(q) \subseteq DOMAIN dirs'
  <2>1. q \in DOMAIN files /\ q \notin Under(d)
    BY <1>1, <1>3
  <2>2. q \in FilePath /\ Above(q) \subseteq DOMAIN dirs
    BY <2>1 DEF Disk
  <2>3. d \notin Above(q)
    BY <2>1, <2>2 DEF Above, Under
  <2>. QED
    BY <1>2, <2>2, <2>3
<1>4. \A q \in DOMAIN files' : q \in FilePath /\ Above(q)' \subseteq DOMAIN dirs'
  BY <1>3 DEF Above
<1>5. IsFiniteSet(DOMAIN dirs')
  <2>1. IsFiniteSet(DOMAIN dirs \ {d})
    BY FS_Difference DEF Disk
  <2>. QED
    BY <1>2, <2>1
<1>6. /\ ops' \in Nat
      /\ \A q \in DOMAIN files' : files'[q] \in [inode : Inode, mtime : 1..ops']
  BY <1>1, Later
<1>. QED
  BY <1>2, <1>4, <1>5, <1>6 DEF Disk

-----------------------------------------------------------------------------
(* The invariant *)

LEMMA InitKeeps == ASSUME Init PROVE ScanInv
<1>1. IsFiniteSet({})
  BY FS_EmptySet
<1>2. DOMAIN files = {} /\ DOMAIN dirs = {} /\ DOMAIN tracked = {} /\ ops = 0 /\ scans = 0
  BY DEF Init
<1>3. Disk
  BY <1>1, <1>2 DEF Disk
<1>4. Table(tracked)
  BY <1>2 DEF Table
<1>. QED
  BY <1>2, <1>3, <1>4 DEF ScanInv

LEMMA StepKeeps ==
  ASSUME NamesApart, ScanInv, [Next]_vars
  PROVE  ScanInv'
<1>. USE DEF ScanInv
<1>1. ASSUME Change, Disk'
      PROVE  ScanInv'
  <2>1. Table(tracked)' /\ scans' = 0
    BY <1>1 DEF Change, Table
  <2>. QED
    BY <1>1, <2>1
<1>2. ASSUME NEW p \in FilePath, CreateFile(p)
      PROVE  ScanInv'
  BY <1>1, <1>2, CreateKeepsDisk DEF CreateFile
<1>3. ASSUME NEW p \in FilePath, ModifyFile(p)
      PROVE  ScanInv'
  BY <1>1, <1>3, ModifyKeepsDisk DEF ModifyFile
<1>4. ASSUME NEW p \in FilePath, DeleteFile(p)
      PROVE  ScanInv'
  BY <1>1, <1>4, DeleteKeepsDisk DEF DeleteFile
<1>5. ASSUME NEW p \in FilePath, NEW q \in FilePath, RenameFile(p, q)
      PROVE  ScanInv'
  BY <1>1, <1>5, RenameKeepsDisk DEF RenameFile
<1>6. ASSUME NEW d \in Dir, NEW e \in Dir, RenameDir(d, e)
      PROVE  ScanInv'
  BY <1>1, <1>6, RenameDirKeepsDisk DEF RenameDir
<1>7. ASSUME NEW d \in Dir, RemoveDir(d)
      PROVE  ScanInv'
  BY <1>1, <1>7, RemoveDirKeepsDisk DEF RemoveDir
<1>8. CASE Scan
  <2>1. /\ Disk' /\ Table(tracked)' /\ NoMoves'
        /\ NoMoves => Caught'
    BY <1>8, ScanStep
  <2>2. scans \in Nat /\ scans' = IF scans < 2 THEN scans + 1 ELSE scans
    BY <1>8 DEF Scan
  <2>3. scans' \in Nat /\ (scans' >= 2 => scans >= 1)
    BY <2>2
  <2>. QED
    BY <2>1, <2>3
<1>9. CASE UNCHANGED vars
  <2>. USE <1>9 DEF vars
  <2>1. Disk'
    BY DEF Disk, Above
  <2>2. Table(tracked)' /\ scans' \in Nat
    BY DEF Table
  <2>3. scans' >= 1 => NoMoves'
    BY DEF NoMoves, MissingDirs, Live
  <2>4. scans' >= 2 => Caught'
    BY DEF Caught, Live
  <2>. QED
    BY <2>1, <2>2, <2>3, <2>4
<1>. QED
  BY <1>2, <1>3, <1>4, <1>5, <1>6, <1>7, <1>8, <1>9 DEF Next

LEMMA Invariance == ASSUME NamesApart PROVE Spec => []ScanInv
<1>1. Init => ScanInv
  BY InitKeeps
<1>2. ScanInv /\ [Next]_vars => ScanInv'
  BY StepKeeps
<1>. QED
  BY <1>1, <1>2, PTL DEF Spec

-----------------------------------------------------------------------------
(* The theorems *)

(* Whatever is created, renamed and scanned, the disk stays a tree, and    *)
(* what the caller tracks is of the kind it has on the disk: no file is    *)
(* tracked at the path of a directory.                                     *)
THEOREM TypesHold == ASSUME NamesApart PROVE Spec => []TypeOK
<1>1. ScanInv => TypeOK
  <2>1. SUFFICES ASSUME ScanInv PROVE TypeOK
    OBVIOUS
  <2>2. Dir \cap FilePath = {}
    BY Paths
  <2>. QED
    BY <2>1, <2>2 DEF ScanInv, Disk, Table, TypeOK
<1>. QED
  BY <1>1, Invariance, PTL

(* Two scans of a quiet directory leave no file on the disk unreported,    *)
(* whatever the user did before: any number of files, directories, changes *)
(* and inodes, directories renamed together in any order, a caller that    *)
(* keeps tombstones or drops what was deleted.                             *)
THEOREM NothingIsMissed == ASSUME NamesApart PROVE Spec => []NothingMissed
<1>1. ScanInv => NothingMissed
  BY DEF ScanInv, NothingMissed
<1>. QED
  BY <1>1, Invariance, PTL

(* From the second scan on no entry comes to be missing, and each scan     *)
(* reports one of the vanished files of every inode: after as many scans   *)
(* as files have vanished none is left.                                    *)
THEOREM LeftoversReported == ASSUME NamesApart PROVE Spec => DeletionsReported
<1>. DEFINE Reports ==
              Scan /\ scans >= 1 =>
                /\ Missing' \subseteq Missing
                /\ \A p \in Missing : \E q \in Missing \ Missing' :
                     tracked[q].inode = tracked[p].inode
<1>1. ScanInv => Reports
  <2>1. SUFFICES ASSUME ScanInv, Scan, scans >= 1
                 PROVE  /\ Missing' \subseteq Missing
                        /\ \A p \in Missing : \E q \in Missing \ Missing' :
                             tracked[q].inode = tracked[p].inode
    OBVIOUS
  <2>2. Disk /\ Table(tracked) /\ NoMoves
    BY <2>1 DEF ScanInv
  <2>. QED
    BY <2>1, <2>2, ScanStep
<1>. HIDE DEF Reports
<1>2. ScanInv => [Reports]_vars
  BY <1>1
<1>3. Spec => [][Reports]_vars
  BY <1>2, Invariance, PTL
<1>. QED
  BY <1>3 DEF DeletionsReported, Reports

=============================================================================
