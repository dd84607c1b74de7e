------------------------ MODULE PathReconcile_proofs ------------------------
(***************************************************************************)
(* The decision is right for every set of contents, every number of events *)
(* and every interleaving of writes, deletions and synchronisations.       *)
(***************************************************************************)
EXTENDS PathReconcile, TLAPS

(* The shape of a side: at most one of live and deleted, and a hash exactly *)
(* when it is live.                                                         *)
WellFormed(s) ==
  /\ s.mtime \in Int /\ s.mtime >= NoTime
  /\ s.deletedAt \in Int /\ s.deletedAt >= NoTime
  /\ s.hash \in Int
  /\ s.isDirectory = FALSE
  /\ ~(IsLive(s) /\ IsTombstone(s))
  /\ IsLive(s) <=> s.hash # NoHash

(* Event times order the sides by age, and a side at least as recent as     *)
(* the other shows what the latest event left.                              *)
AgeInv ==
  /\ EventTime(left) <= clock
  /\ EventTime(right) <= clock
  /\ EventTime(left) >= EventTime(right) => Visible(left) = Visible(latest)
  /\ EventTime(right) >= EventTime(left) => Visible(right) = Visible(latest)

IInv == TypeOK /\ AgeInv

(* Every side the program can hold is well formed.                          *)
LEMMA FileStateWellFormed ==
  ASSUME NEW s \in FileState
  PROVE  WellFormed(s)
<1>1. CASE s = Absent
  BY <1>1 DEF WellFormed, Absent, IsLive, IsTombstone, NoTime, NoHash
<1>2. ASSUME NEW t \in 0..MaxClock, s = Tombstone(t)
      PROVE  WellFormed(s)
  BY <1>2, MaxClockAssumption
     DEF Tombstone, WellFormed, Absent, IsLive, IsTombstone, NoTime, NoHash
<1>3. ASSUME NEW t \in 0..MaxClock, NEW h \in Contents, s = LiveFile(t, h)
      PROVE  WellFormed(s)
  BY <1>3, MaxClockAssumption, ContentsAssumption
     DEF LiveFile, Hash, WellFormed, Absent, IsLive, IsTombstone, NoTime, NoHash
<1>4. QED
  BY <1>1, <1>2, <1>3 DEF FileState

-----------------------------------------------------------------------------
(* The decision, in terms of ages: the side of the later event is kept.    *)
LEMMA NewerWins ==
  ASSUME NEW l, NEW r, WellFormed(l), WellFormed(r)
  PROVE  /\ EventTime(l) > EventTime(r) => ApplyLeft(ClassifyPath(l, r), l, r) = l
         /\ EventTime(r) > EventTime(l) => ApplyRight(ClassifyPath(l, r), l, r) = r
BY DEF WellFormed, EventTime, ApplyLeft, ApplyRight, ClassifyPath, ClassifyLive,
       DeletedAfter, SameContent, IsLive, IsTombstone, NoTime, NoHash

(* An in-sync decision means that both sides show the same.                 *)
LEMMA InSyncShowsSame ==
  ASSUME NEW l, NEW r, WellFormed(l), WellFormed(r),
         ClassifyPath(l, r) = "InSync"
  PROVE  Visible(l) = Visible(r)
BY DEF WellFormed, Visible, ClassifyPath, ClassifyLive,
       DeletedAfter, SameContent, IsLive, IsTombstone, NoTime, NoHash

(* After acting on the decision the sides show the same.                    *)
LEMMA ApplyShowsSame ==
  ASSUME NEW l, NEW r, WellFormed(l), WellFormed(r)
  PROVE  Visible(ApplyLeft(ClassifyPath(l, r), l, r))
           = Visible(ApplyRight(ClassifyPath(l, r), l, r))
BY DEF WellFormed, Visible, ApplyLeft, ApplyRight, ClassifyPath, ClassifyLive,
       DeletedAfter, SameContent, IsLive, IsTombstone, NoTime, NoHash

(* Deciding again finds nothing to do.                                      *)
LEMMA ApplySettles ==
  ASSUME NEW l, NEW r, WellFormed(l), WellFormed(r)
  PROVE  ClassifyPath(ApplyLeft(ClassifyPath(l, r), l, r),
                      ApplyRight(ClassifyPath(l, r), l, r)) = "InSync"
BY DEF WellFormed, ApplyLeft, ApplyRight, ClassifyPath, ClassifyLive,
       DeletedAfter, SameContent, IsLive, IsTombstone, NoTime, NoHash

-----------------------------------------------------------------------------
(* No action leaves the set of states a side can be in.                     *)
LEMMA TypeStep == TypeOK /\ [Next]_vars => TypeOK'
<1> SUFFICES ASSUME TypeOK, [Next]_vars PROVE TypeOK'
  OBVIOUS
<1>1. ASSUME NEW s, Event(s)
      PROVE  clock' = clock + 1 /\ clock + 1 \in 0..MaxClock
  BY <1>1, MaxClockAssumption DEF Event, TypeOK
<1>2. ASSUME NEW h \in Contents, WriteLeft(h) \/ WriteRight(h)
      PROVE  TypeOK'
  <2>1. LiveFile(clock + 1, h) \in FileState /\ clock' \in 0..MaxClock
    BY <1>1, <1>2 DEF WriteLeft, WriteRight, FileState
  <2>2. QED
    BY <1>2, <2>1 DEF WriteLeft, WriteRight, Event, TypeOK
<1>3. ASSUME DeleteLeft \/ DeleteRight
      PROVE  TypeOK'
  <2>1. Tombstone(clock + 1) \in FileState /\ clock' \in 0..MaxClock
    BY <1>1, <1>3 DEF DeleteLeft, DeleteRight, FileState
  <2>2. QED
    BY <1>3, <2>1 DEF DeleteLeft, DeleteRight, Event, TypeOK
<1>4. CASE Reconcile
  BY <1>4 DEF Reconcile, SettledLeft, SettledRight, ApplyLeft, ApplyRight, TypeOK
<1>5. CASE UNCHANGED vars
  BY <1>5 DEF vars, TypeOK
<1>6. QED
  BY <1>2, <1>3, <1>4, <1>5 DEF Next

(* What a new version, and a new tombstone, look like.                      *)
LEMMA NewVersion ==
  ASSUME NEW t \in Nat, NEW h \in Contents
  PROVE  EventTime(LiveFile(t, h)) = t /\ Visible(LiveFile(t, h)) = h
BY ContentsAssumption
   DEF LiveFile, Absent, EventTime, Visible, IsLive, IsTombstone, NoTime, NoHash, Hash

LEMMA NewTombstone ==
  ASSUME NEW t \in Nat
  PROVE  EventTime(Tombstone(t)) = t /\ Visible(Tombstone(t)) = NoHash
BY DEF Tombstone, Absent, EventTime, Visible, IsLive, IsTombstone, NoTime, NoHash

(* Every step keeps the latest event on the side that knows it.             *)
LEMMA AgeStep == IInv /\ [Next]_vars => AgeInv'
<1> SUFFICES ASSUME TypeOK, AgeInv, [Next]_vars PROVE AgeInv'
  BY DEF IInv
<1>1. clock \in Nat /\ WellFormed(left) /\ WellFormed(right)
  BY FileStateWellFormed, MaxClockAssumption DEF TypeOK
<1>2. EventTime(left) \in Int /\ EventTime(right) \in Int
  BY <1>1 DEF WellFormed, EventTime
<1>3. ASSUME NEW h \in Contents, WriteLeft(h) \/ WriteRight(h)
      PROVE  AgeInv'
  BY <1>1, <1>2, <1>3, NewVersion DEF AgeInv, WriteLeft, WriteRight, Event
<1>4. ASSUME DeleteLeft \/ DeleteRight
      PROVE  AgeInv'
  BY <1>1, <1>2, <1>4, NewTombstone DEF AgeInv, DeleteLeft, DeleteRight, Event
<1>5. CASE Reconcile
  <2>1. left' \in {left, right} /\ right' \in {left, right}
    BY <1>5 DEF Reconcile, SettledLeft, SettledRight, ApplyLeft, ApplyRight
  <2>2. Visible(left)' = Visible(right)'
    BY <1>1, <1>5, ApplyShowsSame DEF Reconcile, SettledLeft, SettledRight
  <2>3. EventTime(left) > EventTime(right) => left' = left
    BY <1>1, <1>5, NewerWins DEF Reconcile, SettledLeft, SettledRight
  <2>4. EventTime(right) > EventTime(left) => right' = right
    BY <1>1, <1>5, NewerWins DEF Reconcile, SettledLeft, SettledRight
  <2>5. Visible(left)' = Visible(latest)'
    BY <1>2, <1>5, <2>1, <2>2, <2>3, <2>4 DEF AgeInv, Reconcile
  <2>6. QED
    BY <1>2, <1>5, <2>1, <2>2, <2>5 DEF AgeInv, Reconcile
<1>6. CASE UNCHANGED vars
  BY <1>6 DEF vars, AgeInv
<1>7. QED
  BY <1>3, <1>4, <1>5, <1>6 DEF Next

(* Nothing has happened at the start.                                      *)
LEMMA InitIInv == Init => IInv
<1> SUFFICES ASSUME Init PROVE IInv
  OBVIOUS
<1>1. TypeOK
  BY MaxClockAssumption DEF Init, TypeOK, FileState
<1>2. AgeInv
  BY DEF Init, AgeInv, EventTime, Visible, Absent, IsLive, IsTombstone, NoTime
<1>3. QED
  BY <1>1, <1>2 DEF IInv

(* The state of a side is always one the program can hold, and the side of *)
(* the latest event always shows it, however often the two are reconciled.  *)
THEOREM Invariance == Spec => []IInv
<1>1. IInv /\ [Next]_vars => IInv'
  BY TypeStep, AgeStep DEF IInv
<1>2. QED
  BY InitIInv, <1>1, PTL DEF Spec

(* Both sides are always absent, deleted or a file, at times up to now.     *)
THEOREM TypeCorrect == Spec => []TypeOK
<1>1. IInv => TypeOK
  BY DEF IInv
<1>2. QED
  BY Invariance, <1>1, PTL

(* An in-sync decision is always the truth: both sides show what the latest *)
(* event left (the "newest event wins" contract of classifyPath).           *)
THEOREM LatestWins == Spec => []InSyncIsLatest
<1>1. IInv => InSyncIsLatest
  <2> SUFFICES ASSUME TypeOK, AgeInv, ClassifyPath(left, right) = "InSync"
               PROVE  /\ Visible(left) = Visible(right)
                      /\ Visible(left) = Visible(latest)
    BY DEF IInv, InSyncIsLatest
  <2>1. WellFormed(left) /\ WellFormed(right)
    BY FileStateWellFormed DEF TypeOK
  <2>2. EventTime(left) \in Int /\ EventTime(right) \in Int
    BY <2>1 DEF WellFormed, EventTime
  <2>3. Visible(left) = Visible(right)
    BY <2>1, InSyncShowsSame
  <2>4. QED
    BY <2>2, <2>3 DEF AgeInv
<1>2. QED
  BY Invariance, <1>1, PTL

(* One synchronisation is enough: deciding again finds nothing to do.       *)
THEOREM Settles == Spec => []ReconcileSettles
<1>1. TypeOK => ReconcileSettles
  <2> SUFFICES ASSUME TypeOK PROVE ReconcileSettles
    OBVIOUS
  <2>1. WellFormed(left) /\ WellFormed(right)
    BY FileStateWellFormed DEF TypeOK
  <2>2. QED
    BY <2>1, ApplySettles DEF ReconcileSettles, SettledLeft, SettledRight
<1>2. QED
  BY TypeCorrect, <1>1, PTL

(* A synchronisation never changes the side of the later event.             *)
THEOREM NewerKept == Spec => NewerSideKept
<1>1. TypeOK /\ [Next]_vars
        => [Reconcile =>
              /\ EventTime(left) > EventTime(right) => left' = left
              /\ EventTime(right) > EventTime(left) => right' = right]_vars
  <2> SUFFICES ASSUME TypeOK, Reconcile
               PROVE  /\ EventTime(left) > EventTime(right) => left' = left
                      /\ EventTime(right) > EventTime(left) => right' = right
    OBVIOUS
  <2>1. WellFormed(left) /\ WellFormed(right)
    BY FileStateWellFormed DEF TypeOK
  <2>2. QED
    BY <2>1, NewerWins DEF Reconcile, SettledLeft, SettledRight
<1>2. QED
  BY TypeCorrect, <1>1, PTL DEF Spec, NewerSideKept

(* Client and server reach mirrored decisions on every pair of sides whose  *)
(* times differ: it does not matter which of the two decides.               *)
THEOREM Symmetric == Spec => []DecisionIsSymmetric
<1>1. TypeOK => DecisionIsSymmetric
  <2> SUFFICES ASSUME TypeOK, left.mtime # right.mtime
               PROVE  ClassifyPath(right, left) = Mirror(ClassifyPath(left, right))
    BY DEF DecisionIsSymmetric
  <2>1. WellFormed(left) /\ WellFormed(right)
    BY FileStateWellFormed DEF TypeOK
  <2>2. CASE IsLive(left) /\ IsLive(right)
    BY <2>1, <2>2 DEF WellFormed, ClassifyPath, ClassifyLive, SameContent, Mirror,
                      IsLive, NoTime, NoHash
  <2>3. CASE ~IsLive(left) \/ ~IsLive(right)
    BY <2>1, <2>3 DEF WellFormed, ClassifyPath, DeletedAfter, Mirror,
                      IsLive, IsTombstone, NoTime
  <2>4. QED
    BY <2>2, <2>3
<1>2. QED
  BY TypeCorrect, <1>1, PTL
=============================================================================
