------------------------------ MODULE FileSync ------------------------------
(***************************************************************************)
(* Synchronisation of a user's files between several devices (FileClient)  *)
(* and one server (FileServer), message by message: the user edits files   *)
(* on any device; a device's tick scans its file system, negotiates with   *)
(* the server, and starts the uploads, downloads, delete requests and      *)
(* local deletes the negotiation calls for; the server serves the          *)
(* requests of all the devices in any interleaving.                        *)
(*                                                                         *)
(* Programs stop and are started again: files stay, everything FSMetadata  *)
(* holds is in memory and is lost.  A client does not reconnect; after its *)
(* server stopped it does nothing until it is started again.               *)
(*                                                                         *)
(* Abstractions.  All devices belong to one user and are logged in as soon *)
(* as they are connected.  Paths are flat here, so the Merkle negotiation  *)
(* is its one round over the root's children (MerkleSync has directories). *)
(* A file is one chunk, or none when it is empty.  Contents are version    *)
(* numbers, the hash of a content is the content itself.  Clocks of all    *)
(* machines agree and no two events have the same time.  An assertion that *)
(* fails stops its process: failure names it.  Q_ASSERTs are compiled out  *)
(* as in a release build, where what they guard against (an end iterator   *)
(* dereferenced) stops the process too.                                    *)
(***************************************************************************)
EXTENDS SyncCommon, Sequences, FiniteSets, SequencesExt

CONSTANTS Device,       \* devices of the user
          Server,
          Path,         \* paths of files
          NaiveDevice,  \* devices whose SyncStrategy is Naive; the others' is Merkle
          MaxEdits,     \* bound on the user's writes and deletes
          MaxClock,     \* no edit and no tick starts once the clock is here
          MaxDeviceStops, \* bounds on how often devices, and the server, are
          MaxServerStops, \* stopped and started again
          EditsWhenSettled, \* TRUE: edits only while all copies agree
          Recreate,     \* TRUE: a path may be written again after a deletion
          DeletesFail   \* TRUE: the server's storage may fail to delete a file

ASSUME StrategyAssumption == NaiveDevice \subseteq Device
ASSUME ServerAssumption   == Server \notin Device
ASSUME PathAssumption     == IsFiniteSet(Path)
ASSUME BoundsAssumption   == /\ MaxEdits \in Nat /\ MaxClock \in Nat
                             /\ MaxDeviceStops \in Nat /\ MaxServerStops \in Nat
ASSUME RegimeAssumption   == /\ EditsWhenSettled \in BOOLEAN /\ Recreate \in BOOLEAN
                             /\ DeletesFail \in BOOLEAN

VARIABLES
  now,          \* the common clock
  edits,        \* number of writes and deletes so far; a write's version
  deleted,      \* history: versions a user has deleted
  fs,           \* fs[d][p]: the file on device d
  db,           \* db[d][p]: FSMetadata of device d
  busy,         \* currentlyDoingSyncOps
  pendingMessages,      \* delete requests not yet answered
  outstandingTransfers, \* transfers not yet completed
  uploading,    \* keys of ChunkingClient's uploadStates
  downloading,  \* keys of ChunkingClient's downloadStates
  store,        \* store[p]: content of the server's file, or Gone
  index,        \* index[p]: FSMetadata of the server
  saving,       \* keys of the server storage's activeSaveFiles
  uploadMeta,   \* uploadMeta[d][p]: pendingTransfersMetadata, or NoMeta
  toServer,     \* toServer[d], toDevice[d]: the two directions of the
  toDevice,     \* connection of device d
  failure,      \* failure[n]: what stopped process n, or "none"
  stops         \* how often devices, and the server, were stopped

userVars   == <<now, edits, deleted>>
syncVars   == <<busy, pendingMessages, outstandingTransfers, uploading, downloading>>
serverVars == <<store, index, saving, uploadMeta>>
netVars    == <<toServer, toDevice>>
vars == <<userVars, fs, db, syncVars, serverVars, netVars, failure, stops>>

-----------------------------------------------------------------------------
(* Data *)

Gone  == -1             \* no file
Empty == 0              \* a file without contents
Version == 1..MaxEdits
Content == {Empty} \cup Version

NoFile == [content |-> Gone, mtime |-> NoTime]
NoMeta == [mtime |-> NoTime, hash |-> NoHash]

(* FSMetadata of one path: fileMtimes, hashes and tombstones.              *)
Untracked == [mtime |-> NoTime, hash |-> NoHash, tomb |-> NoTime]

Tracked(e) == e.mtime # NoTime

RecordFile_ClearsHash(e, mtime, hash) == [e EXCEPT !.mtime = mtime, !.hash = NoHash]
(* A tombstone of the path is not removed.                                 *)
RecordFile(e, mtime, hash) == [e EXCEPT !.mtime = mtime, !.hash = hash]

RecordDeletion_NoTombstone(e, t) == Untracked

RecordDeletion(e, t) == [mtime |-> NoTime, hash |-> NoHash, tomb |-> t]

(* What a negotiation sees of a path.  The naive one asks for a tombstone  *)
(* first; the Merkle one looks at the tree's leaf, which addFile brings    *)
(* back to life.                                                           *)
SideOf(d, e) ==
  IF e.tomb # NoTime /\ (d \in NaiveDevice \/ ~Tracked(e)) THEN Tombstone(e.tomb)
  ELSE IF Tracked(e) THEN LiveFile(e.mtime, e.hash)
  ELSE Absent

(* The naive server lists a path that is live and has a tombstone twice,   *)
(* and the client then classifies it twice.                                *)
Listings(d, e) == IF d \in NaiveDevice /\ Tracked(e) /\ e.tomb # NoTime THEN 2 ELSE 1

Running(n) == failure[n] = "none"

Fail(n, what) == failure' = [failure EXCEPT ![n] = what]

-----------------------------------------------------------------------------
Init ==
  /\ now = 0
  /\ edits = 0
  /\ deleted = {}
  /\ fs = [d \in Device |-> [p \in Path |-> NoFile]]
  /\ db = [d \in Device |-> [p \in Path |-> Untracked]]
  /\ busy = [d \in Device |-> FALSE]
  /\ pendingMessages = [d \in Device |-> 0]
  /\ outstandingTransfers = [d \in Device |-> 0]
  /\ uploading = [d \in Device |-> {}]
  /\ downloading = [d \in Device |-> {}]
  /\ store = [p \in Path |-> Gone]
  /\ index = [p \in Path |-> Untracked]
  /\ saving = {}
  /\ uploadMeta = [d \in Device |-> [p \in Path |-> NoMeta]]
  /\ toServer = [d \in Device |-> <<>>]
  /\ toDevice = [d \in Device |-> <<>>]
  /\ failure = [n \in Device \cup {Server} |-> "none"]
  /\ stops = [device |-> 0, server |-> 0]

-----------------------------------------------------------------------------
(* The user *)

(* What the server has to offer: a file it does not track is not there.    *)
Served(p) == IF Tracked(index[p]) THEN store[p] ELSE Gone

Agreement == \A d \in Device, p \in Path : fs[d][p].content = Served(p)

OthersAgree(d, p) == \A e \in Device \ {d} : fs[e][p].content = Served(p)

MayEdit(d, p) ==
  /\ edits < MaxEdits
  /\ now < MaxClock
  /\ EditsWhenSettled => ~busy[d] /\ OthersAgree(d, p)

NeverDeleted(p) ==
  /\ index[p].tomb = NoTime
  /\ \A d \in Device : db[d][p].tomb = NoTime

Write(d, p) ==
  /\ MayEdit(d, p)
  /\ Recreate \/ NeverDeleted(p)
  /\ now' = now + 1
  /\ edits' = edits + 1
  /\ fs' = [fs EXCEPT ![d][p] = [content |-> edits + 1, mtime |-> now + 1]]
  /\ UNCHANGED <<deleted, db, syncVars, serverVars, netVars, failure, stops>>

Delete(d, p) ==
  /\ MayEdit(d, p)
  /\ fs[d][p] # NoFile
  /\ now' = now + 1
  /\ edits' = edits + 1
  /\ deleted' = deleted \cup {fs[d][p].content}
  /\ fs' = [fs EXCEPT ![d][p] = NoFile]
  /\ UNCHANGED <<db, syncVars, serverVars, netVars, failure, stops>>

-----------------------------------------------------------------------------
(* A device: the tick *)

Present(f) == f # NoFile

MissingOnDisk(d) == {p \in Path : Tracked(db[d][p]) /\ ~Present(fs[d][p])}

Scanned_MissesDeletions(d) ==
  [p \in Path |->
     IF Present(fs[d][p]) /\ fs[d][p].mtime # db[d][p].mtime
     THEN RecordFile(db[d][p], fs[d][p].mtime, fs[d][p].content)
     ELSE db[d][p]]

(* scanFilesystemForChanges and applyChangesToDb: a file whose time differs *)
(* from the recorded one is recorded anew; a tracked file that is missing   *)
(* is recorded as deleted at its old tombstone's time if it has one, else   *)
(* now.                                                                     *)
Scanned(d) ==
  [p \in Path |->
     IF Present(fs[d][p]) /\ fs[d][p].mtime # db[d][p].mtime
     THEN RecordFile(db[d][p], fs[d][p].mtime, fs[d][p].content)
     ELSE IF p \in MissingOnDisk(d)
     THEN RecordDeletion(db[d][p],
            IF db[d][p].tomb # NoTime THEN db[d][p].tomb ELSE now + 1)
     ELSE db[d][p]]

TickStarts(d) ==
  /\ Running(d) /\ now < MaxClock /\ ~busy[d]
  /\ busy' = [busy EXCEPT ![d] = TRUE]

ScanAndApply(d) ==
  /\ db' = [db EXCEPT ![d] = Scanned(d)]
  /\ now' = IF \E p \in MissingOnDisk(d) : db[d][p].tomb = NoTime THEN now + 1 ELSE now

(* clientTick: scan, record, and ask the server for its files.             *)
Tick(d) ==
  /\ TickStarts(d)
  /\ ScanAndApply(d)
  /\ toServer' = [toServer EXCEPT ![d] = Append(@, [type |-> "listRequest"])]
  /\ UNCHANGED <<edits, deleted, fs, pendingMessages, outstandingTransfers,
                 uploading, downloading, serverVars, toDevice, failure, stops>>

-----------------------------------------------------------------------------
(* A device: what the negotiation starts *)

Buckets(d, entries) ==
  [p \in Path |-> ClassifyPath(SideOf(d, db[d][p]), SideOf(d, entries[p]))]

FileSize_RoundsDown(d, p) == 0

FileSize(d, p) == IF fs[d][p].content \in {Gone, Empty} THEN 0 ELSE 1

(* A file the database does not know goes without time and hash.           *)
UploadRequest(d, p) ==
  [type |-> "uploadRequest", path |-> p, size |-> FileSize(d, p),
   mtime |-> IF Tracked(db[d][p]) THEN db[d][p].mtime ELSE 0, hash |-> db[d][p].hash]

DownloadRequest(p) == [type |-> "downloadRequest", path |-> p]

DeleteRequest(d, p) == [type |-> "deleteRequest", path |-> p, time |-> db[d][p].tomb]

(* The paths of a bucket, each as often as the server has listed it.       *)
InBucket(d, entries, bucket) ==
  SetToSeq({pk \in Path \X {1, 2} : /\ Buckets(d, entries)[pk[1]] = bucket
                                    /\ pk[2] <= Listings(d, entries[pk[1]])})

Uploads(d, entries, bucket) ==
  LET ps == InBucket(d, entries, bucket)
  IN [i \in 1..Len(ps) |-> UploadRequest(d, ps[i][1])]

Downloads(d, entries, bucket) ==
  LET ps == InBucket(d, entries, bucket)
  IN [i \in 1..Len(ps) |-> DownloadRequest(ps[i][1])]

(* Requests of the transfers, in the order they are sent.                  *)
TransferRequests(d, entries) ==
  Uploads(d, entries, "OnlyInLeft") \o Downloads(d, entries, "OnlyInRight")
    \o Uploads(d, entries, "ModifiedWinsLeft")
    \o Downloads(d, entries, "ModifiedWinsRight")

DeleteRequests(d, entries) ==
  LET ps == SetToSeq({p \in Path : Buckets(d, entries)[p] = "DeletionWinsLeft"})
  IN [i \in 1..Len(ps) |-> DeleteRequest(d, ps[i])]

DeletedHere_UntrackedOnly(d, entries) ==
  {p \in Path : Buckets(d, entries)[p] = "DeletionWinsRight" /\ ~Tracked(db[d][p])}

(* Paths applyTombstone finds a local file for.                            *)
DeletedHere(d, entries) ==
  {p \in Path : Buckets(d, entries)[p] = "DeletionWinsRight" /\ Present(fs[d][p])}

PathsOf(requests, type) == {r.path : r \in {s \in ToSet(requests) : s.type = type}}

Unlock_WaitsForTransfersOnly(d, messages, transfers) ==
  busy' = [busy EXCEPT ![d] = @ /\ transfers # 0]

(* checkSyncCompletionAndUnlock, with the counters it is called with.      *)
Unlock(d, messages, transfers) ==
  busy' = [busy EXCEPT ![d] = @ /\ ~(messages = 0 /\ transfers = 0)]

CountedTransfers_UploadsOnly(requests) ==
  Len(SelectSeq(requests, LAMBDA r : r.type = "uploadRequest"))

CountedTransfers(requests) == Len(requests)

(* handleListResponse or the Merkle response, and handleNegotiationCompleted *)
ReceiveList(d, m) ==
  LET requests == TransferRequests(d, m.entries)
      deletes  == DeleteRequests(d, m.entries)
      gone     == DeletedHere(d, m.entries)
      transfers == outstandingTransfers[d] + CountedTransfers(requests)
      messages  == pendingMessages[d] + Len(deletes)
  IN /\ m.type = "list"
     /\ fs' = [fs EXCEPT ![d] = [p \in Path |-> IF p \in gone THEN NoFile ELSE @[p]]]
     /\ db' = [db EXCEPT ![d] = [p \in Path |->
                 IF p \in gone THEN RecordDeletion(@[p], m.entries[p].tomb) ELSE @[p]]]
     /\ outstandingTransfers' = [outstandingTransfers EXCEPT ![d] = transfers]
     /\ pendingMessages' = [pendingMessages EXCEPT ![d] = messages]
     /\ uploading' = [uploading EXCEPT ![d] = @ \cup PathsOf(requests, "uploadRequest")]
     /\ downloading' = [downloading EXCEPT ![d] = @ \cup PathsOf(requests, "downloadRequest")]
     /\ toServer' = [toServer EXCEPT ![d] = @ \o requests \o deletes]
     /\ Unlock(d, messages, transfers)
     /\ UNCHANGED <<userVars, failure>>

-----------------------------------------------------------------------------
(* A device: transfers and deletes in progress *)

(* The server answered an upload request: the file is read now, and a file *)
(* that has vanished reads as empty.                                       *)
ReceiveUploadSize(d, m) ==
  /\ m.type = "uploadSize"
  /\ IF m.path \notin uploading[d]
     THEN Fail(d, "no upload state") /\ UNCHANGED toServer
     ELSE IF m.chunks = 0
     THEN Fail(d, "total chunks is zero") /\ UNCHANGED toServer
     ELSE /\ toServer' = [toServer EXCEPT ![d] = Append(@,
               [type |-> "chunk", path |-> m.path,
                content |-> IF Present(fs[d][m.path]) THEN fs[d][m.path].content
                            ELSE Empty])]
          /\ UNCHANGED failure
  /\ UNCHANGED <<userVars, fs, db, syncVars>>

TransferDone_NotCounted(d) ==
  /\ Unlock(d, pendingMessages[d], outstandingTransfers[d])
  /\ UNCHANGED <<pendingMessages, outstandingTransfers>>

TransferDone(d) ==
  /\ outstandingTransfers' = [outstandingTransfers EXCEPT ![d] = @ - 1]
  /\ Unlock(d, pendingMessages[d], outstandingTransfers[d] - 1)
  /\ UNCHANGED pendingMessages

ReceiveUploadAck(d, m) ==
  /\ m.type = "uploadAck"
  /\ IF m.path \notin uploading[d]
     THEN Fail(d, "no upload state") /\ UNCHANGED syncVars
     ELSE /\ uploading' = [uploading EXCEPT ![d] = @ \ {m.path}]
          /\ TransferDone(d)
          /\ UNCHANGED <<downloading, failure>>
  /\ UNCHANGED <<userVars, fs, db, toServer>>

(* SpecifyChunkSizeDownload and the chunk the server sends right behind    *)
(* it.  The file is committed now, under the server's recorded time and    *)
(* hash; its time on disk is the time of the commit.  A file of no chunks  *)
(* never completes.  The acknowledgement of the last chunk, which ends the *)
(* transfer on the server's side, is one of the messages inside a transfer *)
(* that are left to ChunkedTransfer.                                       *)
ReceiveDownload(d, m) ==
  /\ m.type = "download"
  /\ IF m.path \notin downloading[d]
     THEN Fail(d, "no download state") /\ UNCHANGED <<now, fs, db, syncVars>>
     ELSE IF m.content = Empty
     THEN UNCHANGED <<now, fs, db, syncVars, failure>>
     ELSE /\ now' = now + 1
          /\ fs' = [fs EXCEPT ![d][m.path] = [content |-> m.content, mtime |-> now + 1]]
          /\ db' = [db EXCEPT ![d][m.path] = RecordFile(@, m.mtime, m.hash)]
          /\ downloading' = [downloading EXCEPT ![d] = @ \ {m.path}]
          /\ TransferDone(d)
          /\ UNCHANGED <<uploading, failure>>
  /\ UNCHANGED <<edits, deleted, toServer>>

(* The server's answer carries no time: the deletion is recorded again     *)
(* under the invalid time 0.                                               *)
ReceiveDeleteAnswer(d, m) ==
  /\ m.type = "deleteAnswer"
  /\ pendingMessages' = [pendingMessages EXCEPT ![d] = @ - 1]
  /\ db' = IF m.done THEN [db EXCEPT ![d][m.path] = RecordDeletion(@, 0)] ELSE db
  /\ Unlock(d, pendingMessages[d] - 1, outstandingTransfers[d])
  /\ UNCHANGED <<userVars, fs, outstandingTransfers, uploading, downloading,
                 toServer>>

DeviceTakes(d) ==
  /\ Running(d)
  /\ toDevice[d] # <<>>
  /\ toDevice' = [toDevice EXCEPT ![d] = Tail(@)]

DeviceReceive(d) ==
  /\ DeviceTakes(d)
  /\ LET m == Head(toDevice[d])
     IN \/ ReceiveList(d, m)
        \/ ReceiveUploadSize(d, m)
        \/ ReceiveUploadAck(d, m)
        \/ ReceiveDownload(d, m)
        \/ ReceiveDeleteAnswer(d, m) /\ UNCHANGED failure
  /\ UNCHANGED <<serverVars, stops>>

-----------------------------------------------------------------------------
(* The server *)

Answer(d, m) == toDevice' = [toDevice EXCEPT ![d] = Append(@, m)]

ServeList(d, m) ==
  /\ m.type = "listRequest"
  /\ Answer(d, [type |-> "list", entries |-> index])
  /\ UNCHANGED <<serverVars, failure>>

(* storeUploadMetadata, then the chunking server's answer.  A write already *)
(* open for the path is replaced.                                           *)
ServeUploadRequest(d, m) ==
  /\ m.type = "uploadRequest"
  /\ uploadMeta' = [uploadMeta EXCEPT ![d][m.path] = [mtime |-> m.mtime, hash |-> m.hash]]
  /\ saving' = saving \cup {m.path}
  /\ Answer(d, [type |-> "uploadSize", path |-> m.path, chunks |-> m.size])
  /\ UNCHANGED <<store, index, failure>>

(* The only chunk: write it, acknowledge it, commit the file and record it *)
(* under the time and hash of the request.                                 *)
ServeChunk(d, m) ==
  /\ m.type = "chunk"
  /\ IF uploadMeta[d][m.path] = NoMeta
     THEN Fail(Server, "no upload state") /\ UNCHANGED <<serverVars, toDevice>>
     ELSE IF m.path \notin saving
     THEN Fail(Server, "no active transfer") /\ UNCHANGED <<serverVars, toDevice>>
     ELSE /\ store' = [store EXCEPT ![m.path] = m.content]
          /\ index' = [index EXCEPT ![m.path] =
               RecordFile(@, uploadMeta[d][m.path].mtime, uploadMeta[d][m.path].hash)]
          /\ saving' = saving \ {m.path}
          /\ uploadMeta' = [uploadMeta EXCEPT ![d][m.path] = NoMeta]
          /\ Answer(d, [type |-> "uploadAck", path |-> m.path])
          /\ UNCHANGED failure

ServeDownloadRequest(d, m) ==
  /\ m.type = "downloadRequest"
  /\ IF store[m.path] = Gone
     THEN Fail(Server, "no file size") /\ UNCHANGED toDevice
     ELSE IF ~Tracked(index[m.path])
     THEN Fail(Server, "no mtime or hash") /\ UNCHANGED toDevice
     ELSE /\ Answer(d, [type |-> "download", path |-> m.path,
                        mtime |-> index[m.path].mtime, hash |-> index[m.path].hash,
                        content |-> store[m.path]])
          /\ UNCHANGED failure
  /\ UNCHANGED serverVars

RemoveFile(p, t) ==
  /\ store' = [store EXCEPT ![p] = Gone]
  /\ index' = [index EXCEPT ![p] = RecordDeletion(@, t)]

(* The request's time is recorded, not compared.                           *)
ServeDelete(d, m) ==
  /\ m.type = "deleteRequest"
  /\ LET deletes == Tracked(index[m.path]) /\ store[m.path] # Gone
         done    == deletes \/ ~Tracked(index[m.path])
     IN /\ IF deletes THEN RemoveFile(m.path, m.time) ELSE UNCHANGED <<store, index>>
        /\ Answer(d, [type |-> "deleteAnswer", path |-> m.path, done |-> done])
  /\ UNCHANGED <<saving, uploadMeta>>

ServeFailedDelete_Recorded(d, m) ==
  /\ DeletesFail
  /\ m.type = "deleteRequest"
  /\ Tracked(index[m.path])
  /\ index' = [index EXCEPT ![m.path] = RecordDeletion(@, m.time)]
  /\ Answer(d, [type |-> "deleteAnswer", path |-> m.path, done |-> TRUE])
  /\ UNCHANGED <<store, saving, uploadMeta, failure>>

(* deleteFile returns false and the file stays: so does its entry, and the *)
(* answer says Error.                                                      *)
ServeFailedDelete(d, m) ==
  /\ DeletesFail
  /\ m.type = "deleteRequest"
  /\ Tracked(index[m.path])
  /\ Answer(d, [type |-> "deleteAnswer", path |-> m.path, done |-> FALSE])
  /\ UNCHANGED <<serverVars, failure>>

ServerTakes(d) ==
  /\ Running(Server)
  /\ toServer[d] # <<>>
  /\ toServer' = [toServer EXCEPT ![d] = Tail(@)]

ServerReceive(d) ==
  /\ ServerTakes(d)
  /\ LET m == Head(toServer[d])
     IN \/ ServeList(d, m)
        \/ ServeUploadRequest(d, m)
        \/ ServeChunk(d, m)
        \/ ServeDownloadRequest(d, m)
        \/ ServeDelete(d, m) /\ UNCHANGED failure
        \/ ServeFailedDelete(d, m)
  /\ UNCHANGED <<userVars, fs, db, syncVars, stops>>

-----------------------------------------------------------------------------
(* Programs that stop and start *)

(* The client program ends; what it has sent may still reach the server.   *)
StopDevice(d) ==
  /\ Running(d)
  /\ stops.device < MaxDeviceStops
  /\ stops' = [stops EXCEPT !.device = @ + 1]
  /\ Fail(d, "stopped")
  /\ UNCHANGED <<userVars, fs, db, syncVars, serverVars, netVars>>

StartDevice_KeepsCounters(d) ==
  /\ failure[d] \in {"stopped", "disconnected"} /\ Running(Server)
  /\ Fail(d, "none")
  /\ db' = [db EXCEPT ![d] = [p \in Path |-> Untracked]]
  /\ uploadMeta' = [uploadMeta EXCEPT ![d] = [p \in Path |-> NoMeta]]
  /\ toServer' = [toServer EXCEPT ![d] = <<>>]
  /\ toDevice' = [toDevice EXCEPT ![d] = <<>>]
  /\ UNCHANGED <<userVars, fs, syncVars, store, index, saving, stops>>

(* A new FileClient on the same root directory, with an empty database and *)
(* a new connection.  The server keeps the files the old connection had    *)
(* open to write; what it kept of its uploads belongs to an identity that  *)
(* never comes back.                                                       *)
StartDevice(d) ==
  /\ failure[d] \in {"stopped", "disconnected"} /\ Running(Server)
  /\ Fail(d, "none")
  /\ db' = [db EXCEPT ![d] = [p \in Path |-> Untracked]]
  /\ busy' = [busy EXCEPT ![d] = FALSE]
  /\ pendingMessages' = [pendingMessages EXCEPT ![d] = 0]
  /\ outstandingTransfers' = [outstandingTransfers EXCEPT ![d] = 0]
  /\ uploading' = [uploading EXCEPT ![d] = {}]
  /\ downloading' = [downloading EXCEPT ![d] = {}]
  /\ uploadMeta' = [uploadMeta EXCEPT ![d] = [p \in Path |-> NoMeta]]
  /\ toServer' = [toServer EXCEPT ![d] = <<>>]
  /\ toDevice' = [toDevice EXCEPT ![d] = <<>>]
  /\ UNCHANGED <<userVars, fs, store, index, saving, stops>>

(* The server program is stopped and started again on the same storage:    *)
(* its index is empty, and every client that ran has lost its connection.  *)
RestartServer ==
  /\ Running(Server)
  /\ stops.server < MaxServerStops
  /\ stops' = [stops EXCEPT !.server = @ + 1]
  /\ index' = [p \in Path |-> Untracked]
  /\ saving' = {}
  /\ uploadMeta' = [d \in Device |-> [p \in Path |-> NoMeta]]
  /\ toServer' = [d \in Device |-> <<>>]
  /\ toDevice' = [d \in Device |-> <<>>]
  /\ failure' = [n \in DOMAIN failure |->
                   IF n # Server /\ Running(n) THEN "disconnected" ELSE failure[n]]
  /\ UNCHANGED <<userVars, fs, db, syncVars, store>>

-----------------------------------------------------------------------------
Next ==
  \/ \E d \in Device :
       \/ \E p \in Path : Write(d, p) \/ Delete(d, p)
       \/ Tick(d)
       \/ DeviceReceive(d)
       \/ ServerReceive(d)
       \/ StopDevice(d)
       \/ StartDevice(d)
  \/ RestartServer

Spec == Init /\ [][Next]_vars

(* Timers fire, sockets deliver and a client that was stopped is started   *)
(* again; the user owes nothing else.                                      *)
Fairness ==
  \A d \in Device : /\ WF_busy(TickStarts(d)) /\ WF_toDevice(DeviceTakes(d))
                    /\ WF_toServer(ServerTakes(d)) /\ WF_vars(StartDevice(d))

FairSpec == Spec /\ Fairness

-----------------------------------------------------------------------------
(* Types *)

ToServerType == {"listRequest", "uploadRequest", "chunk", "downloadRequest",
                 "deleteRequest"}
ToDeviceType == {"list", "uploadSize", "uploadAck", "download", "deleteAnswer"}

(* Every variable has the shape its C++ declaration gives it; the two      *)
(* counters a device unlocks on, which are ints, are never negative.       *)
TypeOK ==
  /\ now \in Nat /\ edits \in 0..MaxEdits /\ deleted \subseteq Version
  /\ fs \in [Device -> [Path -> [content : Content \cup {Gone}, mtime : -1..now]]]
  /\ db \in [Device -> [Path -> [mtime : -1..now, hash : -1..MaxEdits, tomb : -1..now]]]
  /\ busy \in [Device -> BOOLEAN]
  /\ pendingMessages \in [Device -> Nat] /\ outstandingTransfers \in [Device -> Nat]
  /\ uploading \in [Device -> SUBSET Path] /\ downloading \in [Device -> SUBSET Path]
  /\ store \in [Path -> Content \cup {Gone}]
  /\ index \in [Path -> [mtime : -1..now, hash : -1..MaxEdits, tomb : -1..now]]
  /\ saving \subseteq Path
  /\ uploadMeta \in [Device -> [Path -> [mtime : -1..now, hash : -1..MaxEdits]]]
  /\ \A d \in Device :
       /\ \A i \in DOMAIN toServer[d] : toServer[d][i].type \in ToServerType
       /\ \A i \in DOMAIN toDevice[d] : toDevice[d][i].type \in ToDeviceType

-----------------------------------------------------------------------------
(* Safety *)

NumberOf(types, channel) == Cardinality({i \in DOMAIN channel : channel[i].type \in types})

InFlight(d, types) == NumberOf(types, toServer[d]) + NumberOf(types, toDevice[d])

(* The counters a device unlocks on count what they stand for, until an    *)
(* assertion stops one of the two ends: the delete requests and answers on *)
(* its connection, and the transfers its chunking client has open.         *)
AccountsMatch ==
  \A d \in Device : Running(d) /\ Running(Server) =>
    /\ pendingMessages[d] = InFlight(d, {"deleteRequest", "deleteAnswer"})
    /\ outstandingTransfers[d] = Cardinality(uploading[d]) + Cardinality(downloading[d])

(* A device that has unlocked itself has nothing on the connection and no  *)
(* transfer open: the next tick cannot meet an answer of the last one.     *)
IdleMeansDrained ==
  \A d \in Device : ~busy[d] =>
    /\ toServer[d] = <<>> /\ toDevice[d] = <<>>
    /\ uploading[d] = {} /\ downloading[d] = {}

(* The server tracks a path as live exactly when it has the file, whatever *)
(* uploads and deletes of several devices met on it.  A server that was    *)
(* started again has files it does not know, but never the converse.       *)
IndexMatchesStore ==
  \A p \in Path :
    /\ Tracked(index[p]) => store[p] # Gone
    /\ store[p] # Gone => Tracked(index[p]) \/ stops.server > 0

(* The hash the server recorded for a file is the hash of the file.        *)
HashDescribesStore ==
  \A p \in Path : store[p] # Gone => index[p].hash = store[p]

(* If an idle device's next scan would classify a path as in sync with the *)
(* server, then both have the same content, or neither has the file.       *)
InSyncMeansEqual ==
  \A d \in Device, p \in Path :
    ~busy[d] /\ ClassifyPath(SideOf(d, Scanned(d)[p]), SideOf(d, index[p])) = "InSync"
      => fs[d][p].content = store[p]

(* No assertion stops a device or the server.                              *)
NothingFails == \A n \in Device \cup {Server} : Running(n)

(* Between two versions of a file the server only ever moves to the later  *)
(* one.                                                                    *)
ServerNeverGoesBack ==
  [][\A p \in Path : store[p] # Gone /\ store'[p] # Gone => store'[p] >= store[p]]_vars

(* A device that decides its version of a file beats the one the server    *)
(* listed does have the later version.                                     *)
UploadsAreNewer ==
  [][\A d \in Device, p \in Path :
       toDevice[d] # <<>> /\ toDevice'[d] = Tail(toDevice[d])
         /\ Head(toDevice[d]).type = "list"
         /\ Buckets(d, Head(toDevice[d]).entries)[p] = "ModifiedWinsLeft"
       => db[d][p].hash > Head(toDevice[d]).entries[p].hash]_vars

(* A version some user has deleted does not come back to the server, or to *)
(* a device that had not got it.                                           *)
NoResurrection ==
  [][\A p \in Path :
       /\ store'[p] \in deleted => store[p] = store'[p]
       /\ \A d \in Device :
            fs'[d][p].content \in deleted => fs[d][p].content = fs'[d][p].content]_vars

(* A delete request that is older than the server's version of the file    *)
(* does not remove it.                                                     *)
StaleDeleteRejected ==
  [][\A p \in Path, d \in Device :
       toServer[d] # <<>> /\ toServer'[d] # toServer[d]
         /\ Head(toServer[d]).type = "deleteRequest" /\ Head(toServer[d]).path = p
         /\ Tracked(index[p]) /\ Head(toServer[d]).time < index[p].mtime
       => store'[p] = store[p]]_vars

(* The file systems agree with the server's store in the end and stay so,  *)
(* however often the devices go on to sync.                                *)
Converges == <>[]Agreement

(* Every sync a device starts ends, so that its next tick can run.         *)
SyncEnds == \A d \in Device : busy[d] ~> ~busy[d]

(* The server is asked for the size of a file only while it has the file   *)
(* (FileTransferServer's assertion on fileSize).                           *)
DownloadedFileExists == failure[Server] # "no file size"

(* An upload that a device starts has at least one chunk (ChunkingClient's *)
(* assertion on totalChunks).                                              *)
UploadsHaveChunks == \A d \in Device : failure[d] # "total chunks is zero"

(* At most one upload writes a path at a time (LocalFileStorage's          *)
(* assertions in beginWrite and writeRange).                               *)
OneUploadPerPath == failure[Server] # "no active transfer"
=============================================================================
