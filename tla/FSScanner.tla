------------------------------ MODULE FSScanner ------------------------------
(***************************************************************************)
(* The scanner of a user's directory (subsystems/fs_scanner FSScanner): it *)
(* compares the files and directories on the disk with what was tracked,   *)
(* and reports new, modified, deleted and renamed files and renamed        *)
(* directories.  A file that vanished and one that appeared are one file   *)
(* that was renamed if they have the same inode.  The caller that takes    *)
(* the reported changes into the tracked state is the one of the tests     *)
(* (applyChangesToState); another caller may keep deleted entries as the   *)
(* tombstones the tracked state provides for.                              *)
(*                                                                         *)
(* Between two scans the user changes the disk as often as he likes.  The  *)
(* number of a change stands for the modification time it leaves and for   *)
(* the content; a freed inode may be given out again.                      *)
(***************************************************************************)
EXTENDS Naturals, Sequences, SequencesExt, FiniteSets

CONSTANTS DirName,      \* the names of directories
          FileName,     \* the names of files
          Inode,        \* inodes of the disk, numbers from 1 on
          KeepsTombstones,  \* whether the caller marks deleted entries or drops them
          MaxOps        \* bound: changes of the disk

ASSUME ScannerAssumption == Inode \subseteq Nat \ {0} /\ MaxOps \in Nat
                             /\ KeepsTombstones \in BOOLEAN

VARIABLES files,        \* the files on the disk: inode and time of change
          dirs,         \* the directories on the disk: inode
          tracked,      \* State.entries
          ops,          \* changes of the disk so far
          changed,      \* changes of the disk since the last scan, at most 2
          exact,        \* whether the last scan left what is tracked exact
          scans         \* scans since the last change of the disk, at most 2

vars == <<files, dirs, tracked, ops, changed, exact, scans>>

MISSING_INODE_SENTINEL == 0

Dir      == {<<d>> : d \in DirName}
FilePath == {<<n>> : n \in FileName} \cup {<<d, n>> : d \in DirName, n \in FileName}
Under(d) == {p \in FilePath : IsStrictPrefix(d, p)}
Above(p) == {d \in Dir : IsStrictPrefix(d, p)}

Rebased(p, from, to) == to \o SubSeq(p, Len(from) + 1, Len(p))

Without(table, S) == [p \in DOMAIN table \ S |-> table[p]]
Over(new, table)  == [p \in DOMAIN new \cup DOMAIN table |->
                        IF p \in DOMAIN new THEN new[p] ELSE table[p]]

FileEntry(p) == [mtime |-> files[p].mtime, inode |-> files[p].inode,
                 isDir |-> FALSE, isTombstoned |-> FALSE]

DirEntry(d) ==
  [mtime |-> 0, inode |-> dirs[d], isDir |-> TRUE, isTombstoned |-> FALSE]

-----------------------------------------------------------------------------
(* The scan.                                                               *)
CandidateNew ==
  {p \in DOMAIN files : p \notin DOMAIN tracked \/ tracked[p].isTombstoned}

ModifiedFiles_Newer ==
  {p \in DOMAIN files \ CandidateNew : files[p].mtime > tracked[p].mtime}

ModifiedFiles ==
  {p \in DOMAIN files \ CandidateNew : files[p].mtime # tracked[p].mtime}

Live_AlsoDeleted(isDir) == {p \in DOMAIN tracked : tracked[p].isDir = isDir}

Live(isDir) == {p \in DOMAIN tracked : tracked[p].isDir = isDir /\ ~tracked[p].isTombstoned}
Missing     == Live(FALSE) \ DOMAIN files
MissingDirs == Live(TRUE) \ DOMAIN dirs

WithoutInode(S) == {p \in S : tracked[p].inode = MISSING_INODE_SENTINEL}

(* The maps from inodes to the entries of S: of the entries that have the  *)
(* same inode the one inserted last stays, and QHash has no order.         *)
ByInode(S) ==
  LET known == S \ WithoutInode(S)
  IN {pick \in [{tracked[p].inode : p \in known} -> known] :
        \A i \in DOMAIN pick : tracked[pick[i]].inode = i}

(* inodes: from the paths that are there and not tracked to their inodes.  *)
Matches(byInode, inodes) ==
  {[from |-> byInode[inodes[p]], to |-> p] :
     p \in {q \in DOMAIN inodes : inodes[q] \in DOMAIN byInode}}

IsDescendantMove_OrSame(r, d) ==
  /\ IsPrefix(d.from, r.from)
  /\ r.to = Rebased(r.from, d.from, d.to)

IsDescendantMove(r, d) ==
  /\ IsStrictPrefix(d.from, r.from)
  /\ r.to = Rebased(r.from, d.from, d.to)

(* The changes found, for the given maps of missing files and directories. *)
Changes(missing, missingDirs) ==
  LET NewDirs     == DOMAIN dirs \ Live(TRUE)
      renames     == Matches(missing, [p \in CandidateNew |-> files[p].inode])
      dirRenames  == Matches(missingDirs, [p \in NewDirs |-> dirs[p]])
      Kept(S)     == {r \in S : ~\E d \in dirRenames : IsDescendantMove(r, d)}
  IN [newFiles           |-> CandidateNew \ {r.to : r \in renames},
      modifiedFiles      |-> ModifiedFiles,
      deletedFiles       |-> ({missing[i] : i \in DOMAIN missing} \ {r.from : r \in renames})
                               \cup WithoutInode(Missing),
      renamedFiles       |-> Kept(renames),
      renamedDirectories |-> Kept(dirRenames)]

Scans == {Changes(m, d) : m \in ByInode(Missing), d \in ByInode(MissingDirs)}

-----------------------------------------------------------------------------
(* What the caller makes of the changes.                                   *)
TrackAncestorDirs(table, paths) ==
  LET above == (UNION {Above(p) : p \in paths}) \ DOMAIN table
  IN Over([d \in above |-> DirEntry(d)], table)

Insert(table, paths) ==
  TrackAncestorDirs(Over([p \in paths |-> FileEntry(p)], table), paths)

Remodified(table, paths) ==
  [p \in DOMAIN table |->
     IF p \in paths THEN [table[p] EXCEPT !.mtime = files[p].mtime] ELSE table[p]]

Buried(table, paths) ==
  IF KeepsTombstones
  THEN [p \in DOMAIN table |->
          IF p \in paths THEN [table[p] EXCEPT !.isTombstoned = TRUE] ELSE table[p]]
  ELSE Without(table, paths)

(* A renamed directory, and all that is tracked under it, by its new path. *)
Moved(table, r) ==
  LET top     == TrackAncestorDirs(
                   Over([d \in {r.to} |-> DirEntry(d)], Without(table, {r.from})), {r.to})
      below   == DOMAIN top \cap Under(r.from)
      rewrite == [q \in {Rebased(p, r.from, r.to) : p \in below} |->
                    top[Rebased(q, r.to, r.from)]]
  IN Over(rewrite, Without(top, below))

MovedInOrder(table, order) ==
  LET after[i \in 0..Len(order)] ==
        IF i = 0 THEN table ELSE Moved(after[i - 1], order[i])
  IN after[Len(order)]

Applied(changes, order) ==
  LET t1 == Insert(tracked, changes.newFiles)
      t2 == Remodified(t1, changes.modifiedFiles)
      t3 == Buried(t2, changes.deletedFiles)
      t4 == Without(t3, {r.from : r \in changes.renamedFiles})
      t5 == Insert(t4, {r.to : r \in changes.renamedFiles})
  IN MovedInOrder(t5, order)

-----------------------------------------------------------------------------
(* Every file on the disk is tracked as it was last changed; no other file *)
(* is; and so to the inode, with the directories.                          *)
Caught ==
  \A p \in DOMAIN files : p \in Live(FALSE) /\ tracked[p].mtime = files[p].mtime

UpToDate == Caught /\ Missing = {}

Exact ==
  /\ UpToDate
  /\ \A p \in DOMAIN files : tracked[p].inode = files[p].inode
  /\ Live(TRUE) = DOMAIN dirs
  /\ \A d \in DOMAIN dirs : tracked[d].inode = dirs[d]

Init ==
  /\ files = [p \in {} |-> {}]
  /\ dirs = [p \in {} |-> 0]
  /\ tracked = [p \in {} |-> {}]
  /\ ops = 0
  /\ changed = 0
  /\ exact = TRUE
  /\ scans = 0

Exists(p) == p \in DOMAIN files \cup DOMAIN dirs
Free      == Inode \ ({files[p].inode : p \in DOMAIN files} \cup {dirs[d] : d \in DOMAIN dirs})

(* The directories above p that a file at p needs (mkpath).                *)
MakePath(p, i) ==
  /\ \A d \in Above(p) : d \notin DOMAIN files
  /\ dirs' = Over([d \in Above(p) \ DOMAIN dirs |-> i], dirs)

Change ==
  /\ ops < MaxOps
  /\ ops' = ops + 1
  /\ changed' = IF changed < 2 THEN changed + 1 ELSE changed
  /\ scans' = 0
  /\ UNCHANGED <<tracked, exact>>

CreateFile(p) ==
  /\ Change
  /\ ~Exists(p)
  /\ \E i \in Free : \E j \in Free \ {i} :
       /\ MakePath(p, j)
       /\ files' = Over([q \in {p} |-> [inode |-> i, mtime |-> ops']], files)

ModifyFile(p) ==
  /\ Change
  /\ p \in DOMAIN files
  /\ files' = [files EXCEPT ![p].mtime = ops']
  /\ UNCHANGED dirs

DeleteFile(p) ==
  /\ Change
  /\ p \in DOMAIN files
  /\ files' = Without(files, {p})
  /\ UNCHANGED dirs

RenameFile(p, q) ==
  /\ Change
  /\ p \in DOMAIN files
  /\ ~Exists(q)
  /\ q \notin Under(p)
  /\ \E j \in Free : MakePath(q, j)
  /\ files' = Over([r \in {q} |-> files[p]], Without(files, {p}))

RenameDir(d, e) ==
  /\ Change
  /\ d \in DOMAIN dirs
  /\ ~Exists(e)
  /\ dirs' = Over([r \in {e} |-> dirs[d]], Without(dirs, {d}))
  /\ LET below == DOMAIN files \cap Under(d)
     IN files' = Over([q \in {Rebased(p, d, e) : p \in below} |-> files[Rebased(q, e, d)]],
                      Without(files, below))

RemoveDir(d) ==
  /\ Change
  /\ d \in DOMAIN dirs
  /\ DOMAIN files \cap Under(d) = {}
  /\ dirs' = Without(dirs, {d})
  /\ UNCHANGED files

(* A scan, whose changes the caller takes into the tracked state.          *)
Scan ==
  /\ \E changes \in Scans :
     \E order \in SetToSeqs(changes.renamedDirectories) :
       tracked' = Applied(changes, order)
  /\ changed' = 0
  /\ scans' = IF scans < 2 THEN scans + 1 ELSE scans
  /\ UNCHANGED <<files, dirs, ops>>
  /\ exact' = Exact'

Next ==
  \/ \E p \in FilePath : CreateFile(p) \/ ModifyFile(p) \/ DeleteFile(p)
  \/ \E p \in FilePath, q \in FilePath : RenameFile(p, q)
  \/ \E d \in Dir, e \in Dir : RenameDir(d, e)
  \/ \E d \in Dir : RemoveDir(d)
  \/ Scan

Spec == Init /\ [][Next]_vars

-----------------------------------------------------------------------------
(* The disk is a tree, and what is tracked is of the kind it has there.    *)
TypeOK ==
  /\ DOMAIN files \subseteq FilePath
  /\ \A p \in DOMAIN files : files[p] \in [inode : Inode, mtime : 1..ops]
  /\ DOMAIN dirs \subseteq Dir
  /\ DOMAIN files \cap DOMAIN dirs = {}
  /\ \A p \in DOMAIN files : Above(p) \subseteq DOMAIN dirs
  /\ DOMAIN tracked \subseteq FilePath \cup Dir
  /\ \A p \in DOMAIN tracked : tracked[p].isDir = (p \in Dir)

(* However much happens between two scans, a second scan of a quiet        *)
(* directory leaves no file on the disk unreported: what the first one     *)
(* misses (a file modified in a directory that was renamed, a file that    *)
(* takes the place of an entry a renamed directory brought with it) is     *)
(* found by the second.                                                    *)
NothingMissed == scans >= 2 => Caught

(* Of the files that vanished a scan reports one for each inode they were  *)
(* tracked with, and no more: the others wait for the next.  So a quiet    *)
(* directory is tracked as it is after as many scans as files have         *)
(* vanished, and it may take three: an entry whose file is replaced keeps  *)
(* the inode of the old one, and any number of entries may have the same.  *)
DeletionsReported ==
  [][Scan /\ scans >= 1 =>
       /\ Missing' \subseteq Missing
       /\ \A p \in Missing : \E q \in Missing \ Missing' :
            tracked[q].inode = tracked[p].inode]_vars

(* A single change of a directory that is tracked exactly is reported      *)
(* whole by the next scan, also when it is a directory with all that is in *)
(* it (sequenceOfOperationsConverges of the tests).                        *)
OneChangeConverges == [][Scan /\ changed = 1 /\ exact => UpToDate']_vars
=============================================================================
