----------------------------- MODULE SyncCommon -----------------------------
(***************************************************************************)
(* The pure decision at the centre of the file syncer: given what the      *)
(* client ("left") and the server ("right") know of one path, which of the *)
(* eight diff buckets the path falls into (subsystems/sync_protocol/       *)
(* SyncCommon).  Both negotiation strategies, the naive listing and the    *)
(* Merkle descent, end in this function.                                   *)
(*                                                                         *)
(* Times are integers: NoTime stands for an empty std::optional, 0 for the *)
(* invalid QDateTime(), which compares as earlier than every real time,    *)
(* and 1, 2, ... for real times.  A content hash is abstracted to the      *)
(* identity of the content (SHA-256 is taken to be collision free);        *)
(* NoHash is the empty QByteArray.                                         *)
(***************************************************************************)
EXTENDS Integers

NoTime == -1
NoHash == -1

Time   == Nat
Hash   == Nat

SideState == [mtime       : Time \cup {NoTime},
              deletedAt   : Time \cup {NoTime},
              isDirectory : BOOLEAN,
              hash        : Hash \cup {NoHash}]

Absent == [mtime |-> NoTime, deletedAt |-> NoTime,
           isDirectory |-> FALSE, hash |-> NoHash]

Tombstone(t) == [Absent EXCEPT !.deletedAt = t]

LiveFile(t, h) == [Absent EXCEPT !.mtime = t, !.hash = h]

IsTombstone(s) == s.deletedAt # NoTime
IsLive(s)      == s.mtime # NoTime

DiffBucket == {"InSync", "OnlyInLeft", "OnlyInRight",
               "ModifiedWinsLeft", "ModifiedWinsRight",
               "DeletionWinsLeft", "DeletionWinsRight",
               "NeedsDirectoryCheck"}

SameContent_ComparesTimes(left, right) ==
  left.hash # NoHash /\ left.mtime = right.mtime

SameContent(left, right) == left.hash # NoHash /\ left.hash = right.hash

ClassifyLive_AnyDifference(left, right) ==
  IF left.isDirectory /\ right.isDirectory THEN "NeedsDirectoryCheck"
  ELSE IF SameContent(left, right)         THEN "InSync"
  ELSE IF left.mtime # right.mtime         THEN "ModifiedWinsLeft"
  ELSE                                          "ModifiedWinsRight"

(* Two live versions of a path.  Equal times fall to the server.           *)
ClassifyLive(left, right) ==
  IF left.isDirectory /\ right.isDirectory THEN "NeedsDirectoryCheck"
  ELSE IF SameContent(left, right)         THEN "InSync"
  ELSE IF left.mtime > right.mtime         THEN "ModifiedWinsLeft"
  ELSE                                          "ModifiedWinsRight"

DeletedAfter_NotCompared(gone, live) == IsTombstone(gone)

DeletedAfter(gone, live) == IsTombstone(gone) /\ gone.deletedAt > live.mtime

(* A side is live, deleted or unknown, never two of these.  Two sides that *)
(* are not live agree; a live side loses only to a later deletion or to a  *)
(* later version.                                                          *)
ClassifyPath(left, right) ==
  IF ~IsLive(left) /\ ~IsLive(right) THEN "InSync"
  ELSE IF ~IsLive(right)
       THEN IF DeletedAfter(right, left) THEN "DeletionWinsRight" ELSE "OnlyInLeft"
  ELSE IF ~IsLive(left)
       THEN IF DeletedAfter(left, right) THEN "DeletionWinsLeft" ELSE "OnlyInRight"
  ELSE ClassifyLive(left, right)
=============================================================================
