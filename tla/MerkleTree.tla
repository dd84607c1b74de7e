----------------------------- MODULE MerkleTree -----------------------------
(***************************************************************************)
(* The Merkle tree FSMetadata keeps beside its maps (subsystems/filesystem *)
(* MerkleTree and FileTree): insertion, tombstones, the propagation of     *)
(* hashes, and the listings two trees are compared by.                     *)
(*                                                                         *)
(* A path is the sequence of its names, <<>> the root.  A tree is a        *)
(* function from the paths of its nodes to the nodes; the children of a    *)
(* node are a sequence of paths, in the order they were inserted.  Nodes   *)
(* are never removed.  A hash is the term that is hashed, so that two      *)
(* hashes are equal exactly when what was hashed is: the contents of a     *)
(* file, the hashes of the children of a directory (without their names),  *)
(* the path of a tombstone.                                                *)
(***************************************************************************)
EXTENDS SyncCommon, Sequences, FiniteSets, SequencesExt

FileHash(h)         == <<"file", h>>
EmptyHash           == FileHash(NoHash)
DirectoryHash(hs)   == <<"directory", hs>>
TombstoneHash(path) == <<"tombstone", path>>

Parent(path) == Front(path)

FileNode(mtime, hash) ==
  [kind |-> "File", mtime |-> mtime, deletedAt |-> NoTime,
   hash |-> hash, children |-> <<>>]

DirectoryNode(mtime, children) ==
  [kind |-> "Directory", mtime |-> mtime, deletedAt |-> NoTime,
   hash |-> EmptyHash, children |-> children]

NewTree ==
  [q \in {<<>>} |-> [DirectoryNode(NoTime, <<>>) EXCEPT !.hash = DirectoryHash(<<>>)]]

IsDeleted(node)   == node.deletedAt # NoTime
IsDirectory(node) == node.kind = "Directory"

-----------------------------------------------------------------------------
(* Hashes *)

(* The hash of a directory: those of its children in the order of their    *)
(* insertion, and without the names.                                       *)
HashChildren(tree, path) ==
  DirectoryHash([i \in DOMAIN tree[path].children |-> tree[tree[path].children[i]].hash])

(* The hashes of the directories dirs and of the tombstones gone are made  *)
(* anew, children before their parents.                                    *)
Rehashed(tree, dirs, gone) ==
  LET hash[q \in DOMAIN tree] ==
        IF q \in dirs
        THEN DirectoryHash([i \in DOMAIN tree[q].children |-> hash[tree[q].children[i]]])
        ELSE IF q \in gone THEN TombstoneHash(q) ELSE tree[q].hash
  IN [q \in DOMAIN tree |-> [tree[q] EXCEPT !.hash = hash[q]]]

PropagateHashUpward_ParentOnly(tree, path) == Rehashed(tree, {Parent(path)}, {})

PropagateHashUpward(tree, path) == Rehashed(tree, Prefixes(path) \ {path}, {})

(* The nodes the recursion of propagateHashDownward visits from path on:   *)
(* it goes below live directories only.                                    *)
Visited(tree, path) ==
  {q \in DOMAIN tree :
     /\ IsPrefix(path, q)
     /\ \A r \in Prefixes(q) \ {q} :
          IsPrefix(path, r) => IsDirectory(tree[r]) /\ ~IsDeleted(tree[r])}

PropagateHashDownward(tree, path) ==
  LET gone == {q \in Visited(tree, path) : IsDeleted(tree[q])}
      dirs == {q \in Visited(tree, path) : IsDirectory(tree[q])}
  IN Rehashed(tree, dirs \ gone, gone)

-----------------------------------------------------------------------------
(* Insertion and deletion *)

(* The missing nodes down to path: directories, and a file at the end.     *)
Grown(tree, path, mtime, hash) ==
  LET missing == Prefixes(path) \ (DOMAIN tree \cup {<<>>})
      below(q) == SubSeq(path, 1, Len(q) + 1)
  IN [q \in DOMAIN tree \cup missing |->
        IF q = path THEN FileNode(mtime, hash)
        ELSE IF q \in missing THEN DirectoryNode(mtime, <<below(q)>>)
        ELSE IF IsPrefix(q, path) /\ below(q) \in missing
        THEN [tree[q] EXCEPT !.children = Append(@, below(q))]
        ELSE tree[q]]

AddFile_KeepsTombstone(tree, path, mtime, hash) ==
  IF path \notin DOMAIN tree
  THEN PropagateHashUpward(Grown(tree, path, mtime, hash), path)
  ELSE PropagateHashUpward([tree EXCEPT ![path].mtime = mtime, ![path].hash = hash], path)

(* A node that exists takes the new time; if it was deleted it comes back  *)
(* as a file; a file takes the new hash, a directory nothing else.  The    *)
(* nodes on the way are passed through as they are.                        *)
AddFile(tree, path, mtime, hash) ==
  IF path \notin DOMAIN tree
  THEN PropagateHashUpward(Grown(tree, path, mtime, hash), path)
  ELSE LET node    == tree[path]
           revived == IF IsDeleted(node)
                      THEN [node EXCEPT !.deletedAt = NoTime, !.kind = "File"]
                      ELSE node
           touched == [revived EXCEPT !.mtime = mtime]
       IN IF IsDirectory(touched)
          THEN [tree EXCEPT ![path] = touched]
          ELSE PropagateHashUpward([tree EXCEPT ![path] = [touched EXCEPT !.hash = hash]],
                                   path)

Marked(tree, path, time) ==
  [q \in DOMAIN tree |->
     IF IsPrefix(path, q) THEN [tree[q] EXCEPT !.deletedAt = time] ELSE tree[q]]

(* propagateHashDownward asserts that no node it visits has an empty hash. *)
DeleteFileFails(tree, path, time) ==
  /\ path \in DOMAIN tree
  /\ LET marked == Marked(tree, path, time)
     IN \E q \in Visited(marked, Parent(path)) :
          ~IsDeleted(marked[q]) /\ ~IsDirectory(marked[q]) /\ marked[q].hash = EmptyHash

(* A path without a node is left alone: no tombstone is made for it.       *)
DeleteFile(tree, path, time) ==
  IF path \in DOMAIN tree
  THEN PropagateHashUpward(
         PropagateHashDownward(Marked(tree, path, time), Parent(path)), Parent(path))
  ELSE tree

-----------------------------------------------------------------------------
(* Comparison *)

(* What a negotiation sees of a node; it leaves the hash out.              *)
NodeState(tree, path) ==
  IF path \notin DOMAIN tree THEN Absent
  ELSE IF IsDeleted(tree[path]) THEN Tombstone(tree[path].deletedAt)
  ELSE [mtime |-> tree[path].mtime, deletedAt |-> NoTime,
        isDirectory |-> IsDirectory(tree[path]), hash |-> NoHash]

(* getChildHashes, with what toEntries adds to each child.                 *)
ChildEntries(tree, path) ==
  [q \in ToSet(tree[path].children) |-> [hash |-> tree[q].hash, state |-> NodeState(tree, q)]]

SymmetricHashDiff_MissesRight(lhs, rhs) ==
  {q \in DOMAIN lhs : q \in DOMAIN rhs => lhs[q].hash # rhs[q].hash}

(* The paths that only one listing has, and those with two hashes.         *)
SymmetricHashDiff(lhs, rhs) ==
  {q \in DOMAIN lhs \cup DOMAIN rhs :
     q \in DOMAIN lhs \cap DOMAIN rhs => lhs[q].hash # rhs[q].hash}

RootHash(tree) == tree[<<>>].hash

(* verifyHashes, for every live node instead of the root alone.            *)
Verified(tree) ==
  \A q \in DOMAIN tree :
    IF IsDeleted(tree[q]) THEN tree[q].hash = TombstoneHash(q)
    ELSE IsDirectory(tree[q]) => tree[q].hash = HashChildren(tree, q)
=============================================================================
