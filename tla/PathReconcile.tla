---------------------------- MODULE PathReconcile ----------------------------
(***************************************************************************)
(* What the syncer promises for one path: a device (left) and the server   *)
(* (right) change independently, and reconciling them moves the path to    *)
(* the state of its latest event.  Reconcile is one whole synchronisation  *)
(* of the path taken atomically: the negotiation (ClassifyPath), and the   *)
(* upload, download, delete request or local delete that                   *)
(* FileClient::handleNegotiationCompleted starts for the bucket, with the  *)
(* time of the winning event carried to the other side.  FileSync models   *)
(* the same synchronisation message by message.                            *)
(***************************************************************************)
EXTENDS SyncCommon

CONSTANTS Contents,     \* contents a file may be given
          MaxClock      \* bound on the number of events

ASSUME ContentsAssumption == Contents \subseteq Hash
ASSUME MaxClockAssumption == MaxClock \in Nat

VARIABLES left,         \* what the device knows of the path
          right,        \* what the server knows of the path
          clock,        \* time of the latest event
          latest        \* history: the state the latest event put the path in

vars == <<left, right, clock, latest>>

FileState == {Absent} \cup {Tombstone(t) : t \in 0..MaxClock}
                      \cup {LiveFile(t, h) : t \in 0..MaxClock, h \in Contents}

TypeOK ==
  /\ left \in FileState
  /\ right \in FileState
  /\ latest \in FileState
  /\ clock \in 0..MaxClock

(* Time of the event that put a side in its state; NoTime when none did.   *)
EventTime(s) == IF IsTombstone(s) THEN s.deletedAt ELSE s.mtime

(* What a user sees of a side: the content, or NoHash when there is none.  *)
Visible(s) == IF IsLive(s) THEN s.hash ELSE NoHash

-----------------------------------------------------------------------------
Init ==
  /\ left = Absent
  /\ right = Absent
  /\ latest = Absent
  /\ clock = 0

(* An event at time clock + 1 puts a side in state s.                      *)
Event(s) ==
  /\ clock < MaxClock
  /\ clock' = clock + 1
  /\ latest' = s

WriteLeft(h) ==
  /\ Event(LiveFile(clock + 1, h))
  /\ left' = LiveFile(clock + 1, h)
  /\ UNCHANGED right

DeleteLeft ==
  /\ IsLive(left)
  /\ Event(Tombstone(clock + 1))
  /\ left' = Tombstone(clock + 1)
  /\ UNCHANGED right

WriteRight(h) ==
  /\ Event(LiveFile(clock + 1, h))
  /\ right' = LiveFile(clock + 1, h)
  /\ UNCHANGED left

DeleteRight ==
  /\ IsLive(right)
  /\ Event(Tombstone(clock + 1))
  /\ right' = Tombstone(clock + 1)
  /\ UNCHANGED left

ApplyRight_NoDelete(bucket, l, r) ==
  IF bucket \in {"OnlyInLeft", "ModifiedWinsLeft"} THEN l ELSE r

(* The state the two sides are in once the bucket has been acted on.       *)
ApplyLeft(bucket, l, r) ==
  IF bucket \in {"OnlyInRight", "ModifiedWinsRight", "DeletionWinsRight"}
  THEN r ELSE l

ApplyRight(bucket, l, r) ==
  IF bucket \in {"OnlyInLeft", "ModifiedWinsLeft", "DeletionWinsLeft"}
  THEN l ELSE r

SettledLeft  == ApplyLeft(ClassifyPath(left, right), left, right)
SettledRight == ApplyRight(ClassifyPath(left, right), left, right)

Reconcile ==
  /\ left'  = SettledLeft
  /\ right' = SettledRight
  /\ UNCHANGED <<clock, latest>>

Next ==
  \/ \E h \in Contents : WriteLeft(h) \/ WriteRight(h)
  \/ DeleteLeft
  \/ DeleteRight
  \/ Reconcile

Spec == Init /\ [][Next]_vars

(* A synchronisation is started again and again by the client's timer.     *)
FairSpec == Spec /\ WF_vars(Reconcile)

-----------------------------------------------------------------------------
(* When the decision says there is nothing to do, device and server show   *)
(* the same thing, and it is what the latest write or deletion left, on    *)
(* whichever side it happened (SyncCommon.cpp:12-70: newest event wins).   *)
InSyncIsLatest ==
  ClassifyPath(left, right) = "InSync"
    => /\ Visible(left) = Visible(right)
       /\ Visible(left) = Visible(latest)

(* Acting on the decision settles the path: whatever the two sides are,    *)
(* deciding again right afterwards would find nothing left to do, so a     *)
(* second negotiation never undoes or repeats the first.                   *)
ReconcileSettles == ClassifyPath(SettledLeft, SettledRight) = "InSync"

(* The side of the later event is never changed by a synchronisation: it   *)
(* is the stale side that gives way.                                       *)
NewerSideKept ==
  [][Reconcile =>
       /\ EventTime(left) > EventTime(right) => left' = left
       /\ EventTime(right) > EventTime(left) => right' = right]_vars

(* The server's view of the pair mirrors the client's: swapping the sides  *)
(* swaps the winner, except for two live versions of the same time, which  *)
(* both sides leave to the server (SyncCommon.cpp:62-69).                  *)
Mirror(bucket) ==
  CASE bucket = "OnlyInLeft"        -> "OnlyInRight"
    [] bucket = "OnlyInRight"       -> "OnlyInLeft"
    [] bucket = "ModifiedWinsLeft"  -> "ModifiedWinsRight"
    [] bucket = "ModifiedWinsRight" -> "ModifiedWinsLeft"
    [] bucket = "DeletionWinsLeft"  -> "DeletionWinsRight"
    [] bucket = "DeletionWinsRight" -> "DeletionWinsLeft"
    [] OTHER                        -> bucket

DecisionIsSymmetric ==
  left.mtime # right.mtime
    => ClassifyPath(right, left) = Mirror(ClassifyPath(left, right))
=============================================================================
