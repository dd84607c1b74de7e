----------------------------- MODULE MerkleSync -----------------------------
(***************************************************************************)
(* FileSync with directories and the Merkle negotiation: a device and the  *)
(* server compare their Merkle trees level by level (MerkleSyncClient,     *)
(* MerkleSyncServer), and what the descent decided is carried out file by  *)
(* file and directory by directory (FileClient).  The trees change with    *)
(* the metadata, in the same step.                                         *)
(*                                                                         *)
(* The user, the transfers and the deletes are FileSync's; its actions are *)
(* used here with what they do to the trees.  A path is a sequence of      *)
(* names, and no path is a directory to one device and a file to another.  *)
(* All devices use the Merkle strategy, and no program is restarted.  What *)
(* is listed and decided is a function from paths.                         *)
(***************************************************************************)
EXTENDS FileSync, MerkleTree

CONSTANTS Name,             \* names of files and directories
          TicksWhenDrained  \* TRUE: a device unlocked too early has finished what is
                            \* left of its synchronisation when its timer fires

ASSUME MerkleAssumption   == NaiveDevice = {}
ASSUME PathsAssumption    == /\ Path \subseteq Seq(Name) \ {<<>>}
                             /\ \A p, q \in Path : IsPrefix(p, q) => p = q
ASSUME DrainedAssumption  == TicksWhenDrained \in BOOLEAN

VARIABLES
  tree,          \* tree[n]: the Merkle tree of a device, or of the server
  negotiating,   \* currentlyNegotiatingFileDiffs
  decided,       \* negotiationState: the decisions of the descent so far
  inMerkleApply, \* directory listings are expected
  pendingDirectoryRequests,
  commandsToSend \* delete requests staged until the listings have come

merkleVars == <<tree, negotiating, decided, inMerkleApply,
                pendingDirectoryRequests, commandsToSend>>
allVars == <<vars, merkleVars>>

MerkleInit ==
  /\ Init
  /\ tree = [n \in Device \cup {Server} |-> NewTree]
  /\ negotiating = [d \in Device |-> FALSE]
  /\ decided = [d \in Device |-> <<>>]
  /\ inMerkleApply = [d \in Device |-> FALSE]
  /\ pendingDirectoryRequests = [d \in Device |-> 0]
  /\ commandsToSend = [d \in Device |-> <<>>]

-----------------------------------------------------------------------------
(* The trees follow the metadata *)

Recorded(entries, t, p) ==
  IF Tracked(entries[p]) THEN AddFile(t, p, entries[p].mtime, FileHash(entries[p].hash))
  ELSE DeleteFile(t, p, entries[p].tomb)

TreeAfter(n, entries, ps) ==
  LET after[i \in 0..Len(ps)] ==
        IF i = 0 THEN tree[n] ELSE Recorded(entries, after[i - 1], ps[i])
  IN after[Len(ps)]

MeetsEmptyHash(n, entries, ps) ==
  \E i \in DOMAIN ps :
    /\ ~Tracked(entries[ps[i]])
    /\ DeleteFileFails(TreeAfter(n, entries, SubSeq(ps, 1, i - 1)), ps[i],
                       entries[ps[i]].tomb)

Changed(old, new) == {p \in Path : old[p] # new[p]}

(* The records of the paths ps are made anew, in this order.               *)
Follow(n, entries, ps) ==
  /\ tree' = [tree EXCEPT ![n] = TreeAfter(n, entries, ps)]
  /\ failure' = IF MeetsEmptyHash(n, entries, ps)
                THEN [failure EXCEPT ![n] = "empty hash"] ELSE failure

Rerecorded(n, old, new) ==
  tree' = [tree EXCEPT ![n] = TreeAfter(n, new, SetToSeq(Changed(old, new)))]

-----------------------------------------------------------------------------
(* The user and the tick *)

SyncFinished(d) ==
  /\ pendingDirectoryRequests[d] = 0
  /\ pendingMessages[d] = 0
  /\ outstandingTransfers[d] = 0

UserWrites(d, p) ==
  /\ EditsWhenSettled => SyncFinished(d)
  /\ Write(d, p)
  /\ UNCHANGED merkleVars

UserDeletes(d, p) ==
  /\ EditsWhenSettled => SyncFinished(d)
  /\ Delete(d, p)
  /\ UNCHANGED merkleVars

StartNegotiation(d) ==
  [type |-> "negotiate", phase |-> 0, root |-> RootHash(tree'[d]), parents |-> {}]

(* New files enter the tree in the order of a QSet, which is any order.    *)
ScanNegotiates(d) ==
  LET changed  == Changed(db[d], Scanned(d))
      new      == {p \in changed : ~Tracked(db[d][p])}
      modified == {p \in changed \ new : Tracked(Scanned(d)[p])}
  IN /\ ScanAndApply(d)
     /\ \E order \in SetToSeqs(new) :
          Follow(d, Scanned(d), order \o SetToSeq(modified)
                                      \o SetToSeq(changed \ (new \cup modified)))
     /\ negotiating' = [negotiating EXCEPT ![d] = TRUE]
     /\ decided' = [decided EXCEPT ![d] = <<>>]
     /\ toServer' = IF failure'[d] = "none"
                    THEN [toServer EXCEPT ![d] = Append(@, StartNegotiation(d))]
                    ELSE toServer

MerkleTickStarts(d) ==
  /\ TicksWhenDrained => SyncFinished(d)
  /\ TickStarts(d)

(* clientTick and merkleTick: a tick that finds a negotiation under way    *)
(* keeps the device busy and does nothing else.                            *)
MerkleTick(d) ==
  /\ MerkleTickStarts(d)
  /\ IF negotiating[d]
     THEN UNCHANGED <<now, db, tree, negotiating, decided, toServer, failure>>
     ELSE ScanNegotiates(d)
  /\ UNCHANGED <<edits, deleted, fs, pendingMessages, outstandingTransfers, uploading,
                 downloading, serverVars, toDevice, stops, inMerkleApply,
                 pendingDirectoryRequests, commandsToSend>>

-----------------------------------------------------------------------------
(* The descent *)

(* What the server answers: of each directory, the entries.                *)
ListingOf(t, parents) ==
  [type |-> "negotiated", lists |-> [q \in parents |-> ChildEntries(t, q)]]

ServeNegotiation(d, m) ==
  LET t == tree[Server]
  IN /\ m.type = "negotiate"
     /\ IF m.phase = 0
        THEN /\ Answer(d, ListingOf(t, IF m.root = RootHash(t) THEN {} ELSE {<<>>}))
             /\ UNCHANGED failure
        ELSE IF \E q \in m.parents : q \notin DOMAIN t \/ ~IsDirectory(t[q])
        THEN Fail(Server, "no directory") /\ UNCHANGED toDevice
        ELSE Answer(d, ListingOf(t, m.parents)) /\ UNCHANGED failure
     /\ UNCHANGED serverVars

StateIn(entries, path) == IF path \in DOMAIN entries THEN entries[path].state ELSE Absent

(* What is decided of a path whose two states differ, and whose it is.     *)
Decision(l, r) ==
  [bucket |-> ClassifyPath(l, r),
   isFile |-> IF IsLive(l) THEN ~l.isDirectory ELSE IsLive(r) => ~r.isDirectory,
   time   |-> IF IsTombstone(l) THEN l.deletedAt ELSE r.deletedAt]

Differing(t, lists) ==
  UNION {SymmetricHashDiff(ChildEntries(t, q), lists[q]) : q \in DOMAIN lists}

(* What one round of the descent decides, and where the next one looks.    *)
RoundOf(t, lists) ==
  [p \in Differing(t, lists) |-> Decision(NodeState(t, p), StateIn(lists[Parent(p)], p))]

PathsWith(ds, bucket) == {p \in DOMAIN ds : ds[p].bucket = bucket}

NextParents(round) == PathsWith(round, "NeedsDirectoryCheck")

Over(new, old) ==
  [p \in DOMAIN new \cup DOMAIN old |-> IF p \in DOMAIN new THEN new[p] ELSE old[p]]

Decisions(round) ==
  Restrict(round, DOMAIN round \ (PathsWith(round, "InSync") \cup NextParents(round)))

-----------------------------------------------------------------------------
(* What was decided is carried out *)

UploadsBelow_NotOnDisk(d, path) == {p \in Path : IsPrefix(path, p)}

UploadsBelow(d, path) == {p \in Path : IsPrefix(path, p) /\ Present(fs[d][p])}

UploadsFor(d, ds, bucket) ==
  LET ps == SetToSeq(UNION {IF ds[q].isFile THEN {q} ELSE UploadsBelow(d, q) :
                              q \in PathsWith(ds, bucket)})
  IN [i \in 1..Len(ps) |-> UploadRequest(d, ps[i])]

DirectoryRequest(path) == [type |-> "listDirectory", path |-> path]

DownloadsFor(ds, ps) ==
  [i \in 1..Len(ps) |-> IF ds[ps[i]].isFile THEN DownloadRequest(ps[i])
                        ELSE DirectoryRequest(ps[i])]

(* Of the lists only that of what the server alone has mixes transfers     *)
(* with listings; only its order tells, and it is any order.               *)
DecidedRequests(d, ds, order) ==
  UploadsFor(d, ds, "OnlyInLeft") \o DownloadsFor(ds, order)
    \o UploadsFor(d, ds, "ModifiedWinsLeft")
    \o DownloadsFor(ds, SetToSeq(PathsWith(ds, "ModifiedWinsRight")))

(* The map of staged commands: the times of the deletions.  The tombstone  *)
(* of a path is already in the tree.                                       *)
Staged(d, ds) ==
  Over([p \in PathsWith(ds, "DeletionWinsLeft") |-> ds[p].time], commandsToSend[d])

Commands(staged) ==
  LET ps == SetToSeq(DOMAIN staged)
  IN [i \in 1..Len(ps) |-> [type |-> "deleteRequest", path |-> ps[i], time |-> staged[ps[i]]]]

(* The local files in the domain of gone, a function to the times of their *)
(* deletions, are deleted and recorded.                                    *)
ApplyTombstones(d, gone) ==
  LET entries == [p \in Path |-> IF p \in DOMAIN gone THEN RecordDeletion(db[d][p], gone[p])
                                 ELSE db[d][p]]
  IN /\ fs' = [fs EXCEPT ![d] = [p \in Path |-> IF p \in DOMAIN gone THEN NoFile ELSE @[p]]]
     /\ db' = [db EXCEPT ![d] = entries]
     /\ Follow(d, entries, SetToSeq(DOMAIN gone))

(* Transfers are started with their requests; the commands leave when no   *)
(* listing is due, and only then is the end of the synchronisation checked. *)
StartRequests(d, requests, staged, due) ==
  LET flushed  == IF due = 0 THEN Commands(staged) ELSE <<>>
      open     == outstandingTransfers[d]
                    + NumberOf({"uploadRequest", "downloadRequest"}, requests)
      messages == pendingMessages[d] + Len(flushed)
  IN /\ outstandingTransfers' = [outstandingTransfers EXCEPT ![d] = open]
     /\ pendingMessages' = [pendingMessages EXCEPT ![d] = messages]
     /\ uploading' = [uploading EXCEPT ![d] = @ \cup PathsOf(requests, "uploadRequest")]
     /\ downloading' = [downloading EXCEPT ![d] = @ \cup PathsOf(requests, "downloadRequest")]
     /\ toServer' = [toServer EXCEPT ![d] = @ \o requests \o flushed]
     /\ pendingDirectoryRequests' = [pendingDirectoryRequests EXCEPT ![d] = due]
     /\ commandsToSend' = [commandsToSend EXCEPT ![d] = IF due = 0 THEN <<>> ELSE staged]
     /\ inMerkleApply' = [inMerkleApply EXCEPT ![d] = due # 0]
     /\ IF due = 0 THEN Unlock(d, messages, open) ELSE UNCHANGED busy

DirectoriesIn_CountedTooEarly(requests) == 0

DirectoriesIn(requests) == NumberOf({"listDirectory"}, requests)

(* handleNegotiationCompleted *)
NegotiationCompleted(d, ds) ==
  LET gone == {p \in PathsWith(ds, "DeletionWinsRight") : Present(fs[d][p])}
  IN /\ negotiating' = [negotiating EXCEPT ![d] = FALSE]
     /\ ApplyTombstones(d, [p \in gone |-> ds[p].time])
     /\ \E order \in SetToSeqs(PathsWith(ds, "OnlyInRight")) :
          LET requests == DecidedRequests(d, ds, order)
          IN StartRequests(d, requests, Staged(d, ds), DirectoriesIn(requests))

ReceiveNegotiation(d, m) ==
  LET round == RoundOf(tree[d], m.lists)
      next  == NextParents(round)
      ds    == Over(Decisions(round), decided[d])
  IN /\ m.type = "negotiated"
     /\ IF ~(DOMAIN m.lists \subseteq DOMAIN tree[d])
        THEN /\ Fail(d, "no directory")
             /\ UNCHANGED <<fs, db, syncVars, toServer, merkleVars>>
        ELSE /\ decided' = [decided EXCEPT ![d] = ds]
             /\ IF next # {}
                THEN /\ toServer' = [toServer EXCEPT ![d] = Append(@,
                          [type |-> "negotiate", phase |-> 1, root |-> EmptyHash,
                           parents |-> next])]
                     /\ UNCHANGED <<fs, db, syncVars, tree, negotiating, inMerkleApply,
                          pendingDirectoryRequests, commandsToSend, failure>>
                ELSE NegotiationCompleted(d, ds)
     /\ UNCHANGED userVars

(* The files the server knows below a directory: the live ones, then every *)
(* path that has a tombstone.                                              *)
ServeDirectory(d, m) ==
  /\ m.type = "listDirectory"
  /\ Answer(d, [type |-> "directory",
                entries |-> [p \in Path |-> IF IsStrictPrefix(m.path, p) THEN index[p]
                                            ELSE Untracked]])
  /\ UNCHANGED <<serverVars, failure>>

DownloadsOf(entries) ==
  LET ps == SetToSeq({p \in Path : Tracked(entries[p])})
  IN [i \in DOMAIN ps |-> DownloadRequest(ps[i])]

ListingsDue(d, entries) == pendingDirectoryRequests[d] - 1

(* handleMerkleDirectoryListing.  A listing that comes when none is        *)
(* expected is taken for the answer of a naive server.                     *)
ReceiveDirectory(d, m) ==
  /\ m.type = "directory"
  /\ IF inMerkleApply[d]
     THEN /\ LET gone == {p \in Path : m.entries[p].tomb # NoTime /\ Present(fs[d][p])}
             IN ApplyTombstones(d, [p \in gone |-> m.entries[p].tomb])
          /\ StartRequests(d, DownloadsOf(m.entries), commandsToSend[d],
                           ListingsDue(d, m.entries))
          /\ UNCHANGED <<userVars, negotiating, decided>>
     ELSE /\ ReceiveList(d, [m EXCEPT !.type = "list"])
          /\ Rerecorded(d, db[d], db'[d])
          /\ UNCHANGED <<negotiating, decided, inMerkleApply, pendingDirectoryRequests,
                         commandsToSend>>

-----------------------------------------------------------------------------
(* All messages *)

descentVars == <<negotiating, decided, inMerkleApply, pendingDirectoryRequests,
                 commandsToSend>>

MerkleDeviceReceive(d) ==
  /\ DeviceTakes(d)
  /\ LET m == Head(toDevice[d])
     IN \/ ReceiveNegotiation(d, m)
        \/ ReceiveDirectory(d, m)
        \/ /\ ReceiveUploadSize(d, m) \/ ReceiveUploadAck(d, m) \/ ReceiveDownload(d, m)
           /\ Rerecorded(d, db[d], db'[d])
           /\ UNCHANGED descentVars
        \/ /\ ReceiveDeleteAnswer(d, m)
           /\ Follow(d, db'[d], SetToSeq(Changed(db[d], db'[d])))
           /\ UNCHANGED descentVars
  /\ UNCHANGED <<serverVars, stops>>

(* The file is deleted before the tree's assertion stops the server.       *)
ServeDeleteAborts(m) ==
  /\ store' = [store EXCEPT ![m.path] = Gone]
  /\ Fail(Server, "empty hash")
  /\ UNCHANGED <<index, saving, uploadMeta, toDevice, tree>>

MerkleServeDelete(d, m) ==
  /\ m.type = "deleteRequest"
  /\ IF /\ Tracked(index[m.path]) /\ store[m.path] # Gone
        /\ DeleteFileFails(tree[Server], m.path, m.time)
     THEN ServeDeleteAborts(m)
     ELSE /\ ServeDelete(d, m)
          /\ Rerecorded(Server, index, index')
          /\ UNCHANGED failure

MerkleServerReceive(d) ==
  /\ ServerTakes(d)
  /\ LET m == Head(toServer[d])
     IN \/ ServeNegotiation(d, m) /\ UNCHANGED tree
        \/ ServeDirectory(d, m) /\ UNCHANGED tree
        \/ ServeUploadRequest(d, m) /\ UNCHANGED tree
        \/ ServeDownloadRequest(d, m) /\ UNCHANGED tree
        \/ ServeChunk(d, m) /\ Rerecorded(Server, index, index')
        \/ MerkleServeDelete(d, m)
        \/ ServeFailedDelete(d, m) /\ UNCHANGED tree
  /\ UNCHANGED <<userVars, fs, db, syncVars, stops, descentVars>>

MerkleNext ==
  \E d \in Device :
    \/ \E p \in Path : UserWrites(d, p) \/ UserDeletes(d, p)
    \/ MerkleTick(d)
    \/ MerkleDeviceReceive(d)
    \/ MerkleServerReceive(d)

MerkleSpec == MerkleInit /\ [][MerkleNext]_allVars

(* As in FileSync: timers fire and sockets deliver.                        *)
MerkleFairness ==
  \A d \in Device : /\ WF_busy(MerkleTickStarts(d)) /\ WF_toDevice(DeviceTakes(d))
                    /\ WF_toServer(ServerTakes(d))

MerkleFairSpec == MerkleSpec /\ MerkleFairness

-----------------------------------------------------------------------------
(* Types *)

(* Every variable of the descent has the shape its C++ declaration gives   *)
(* it; the count of expected listings, an int, is never negative.          *)
MerkleTypeOK ==
  /\ \A n \in Device \cup {Server} :
       \A q \in DOMAIN tree[n] : tree[n][q].kind \in {"File", "Directory"}
  /\ negotiating \in [Device -> BOOLEAN]
  /\ inMerkleApply \in [Device -> BOOLEAN]
  /\ pendingDirectoryRequests \in [Device -> Nat]
  /\ \A d \in Device :
       /\ \A p \in DOMAIN decided[d] : decided[d][p].bucket \in DiffBucket
       /\ DOMAIN commandsToSend[d] \subseteq Path

-----------------------------------------------------------------------------
(* Safety *)

EntriesOf(n) == IF n = Server THEN index ELSE db[n]

(* The tree and the maps of FSMetadata never disagree on a file: a tracked *)
(* path is a live leaf with its time and hash, another one is no node or a *)
(* tombstone of the recorded time; and every hash in the tree is the hash  *)
(* of what is below it (verifyHashes).                                     *)
TreeFollowsMetadata ==
  \A n \in Device \cup {Server} : Running(n) =>
    /\ Verified(tree[n])
    /\ \A p \in Path : LET e == EntriesOf(n)[p] IN
         IF Tracked(e)
         THEN /\ NodeState(tree[n], p) = LiveFile(e.mtime, NoHash)
              /\ tree[n][p].hash = FileHash(e.hash)
         ELSE NodeState(tree[n], p) \in {Absent, Tombstone(e.tomb)}

(* The whole descent over two trees that stay as they are.                 *)
Descent(left, right) ==
  LET round[k \in 0..Max({Len(p) : p \in Path})] ==
        IF k = 0 THEN [parents |-> IF RootHash(left) = RootHash(right) THEN {} ELSE {<<>>},
                       ds |-> <<>>]
        ELSE LET seen == RoundOf(left, ListingOf(right, round[k - 1].parents).lists)
             IN [parents |-> NextParents(seen), ds |-> Over(Decisions(seen), round[k - 1].ds)]
  IN round[Max({Len(p) : p \in Path})].ds

(* What decisions mean for a file: its own, or that for the directory only *)
(* one side has, which moves the files that side has live.                 *)
BucketIn(ds, d, p) ==
  IF p \in DOMAIN ds /\ ds[p].isFile THEN ds[p].bucket
  ELSE IF \E q \in PathsWith(ds, "OnlyInLeft") : IsPrefix(q, p) /\ Tracked(db[d][p])
  THEN "OnlyInLeft"
  ELSE IF \E q \in PathsWith(ds, "OnlyInRight") : IsPrefix(q, p) /\ Tracked(index[p])
  THEN "OnlyInRight"
  ELSE "InSync"

(* The descent decides for every file what comparing the metadata of the   *)
(* two sides path by path decides, however the trees grew: a hash that     *)
(* agrees hides no difference, and no directory is left out.               *)
DescentIsFlat ==
  \A d \in Device : Running(d) /\ Running(Server) =>
    LET ds == Descent(tree[d], tree[Server]) IN
    \A p \in Path :
      BucketIn(ds, d, p) = ClassifyPath(SideOf(d, db[d][p]), SideOf(d, index[p]))

(* The count of expected listings and the negotiation flag stand for what  *)
(* is on the connection, and staged commands wait for a listing.           *)
DescentAccounts ==
  \A d \in Device : Running(d) /\ Running(Server) =>
    /\ pendingDirectoryRequests[d] = InFlight(d, {"listDirectory", "directory"})
    /\ inMerkleApply[d] <=> pendingDirectoryRequests[d] # 0
    /\ InFlight(d, {"negotiate", "negotiated"}) = IF negotiating[d] THEN 1 ELSE 0
    /\ DOMAIN commandsToSend[d] # {} => pendingDirectoryRequests[d] # 0

(* No node a deletion rehashes is a live file without a hash               *)
(* (propagateHashDownward's assertion).                                    *)
HashedNodesHaveHashes == \A n \in Device \cup {Server} : failure[n] # "empty hash"

(* A device that says "All of current sync items have been synced." has no *)
(* listing of a directory outstanding (checkSyncCompletionAndUnlock).      *)
UnlockedMeansSynced ==
  \A d \in Device : ~busy[d] => pendingDirectoryRequests[d] = 0
=============================================================================
