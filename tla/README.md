# Verification of merkle-file-syncer

TLA+ models of the file syncer in `src/`, checked with TLC and, for nine of the
modules, proved with TLAPS. A user's files are kept on several devices; every
device runs a `FileClient`, one `FileServer` holds the agreed copy. Source paths
below are relative to `src/src/`.

| module | what it is | the part of the program it stands for |
|---|---|---|
| `SyncCommon` | the decision about one path, a pure operator | `sync_protocol/SyncCommon`, `SideState` |
| `PathReconcile` | what a synchronisation of one path promises (abstract) | the buckets of `handleNegotiationCompleted` |
| `FileSync` | devices, server and users, message by message; stops and starts | `FileClient`, `FileServer`, negotiation, metadata |
| `MerkleTree` | insertion, tombstones, hashes, listings, their difference: pure operators | `filesystem/MerkleTree`, `FileTree` |
| `MerkleSync` (`MCMerkleSync`) | `FileSync` with directories and the descent through Merkle trees | `MerkleSyncClient`, `MerkleSyncServer`, the directory half of `FileClient` and `FileServer` |
| `ChunkedTransfer` | one client and the server exchanging chunks | `chunking_protocol`, `file_transfer` |
| `FileStorage` | what a storage of files promises (abstract) | `storage/FileStorage.h` |
| `LocalFileStorage` (`MCLocalFileStorage`) | a storage in a directory, implements `FileStorage` | `storage/LocalFileStorage` |
| `S3FileStorage` (`MCS3FileStorage`) | a storage in an S3 bucket, implements `FileStorage` | `storage/S3FileStorage` |
| `Sessions` | accounts, tokens, connections and their bindings | `auth`, the connection half of `FileClient` and `FileServer` |
| `MessageChannel` | what a connection promises (abstract) | `send` and `messageReceived` of the transports |
| `Transport` (`MCTransport`) | bytes, frames and buffers, implements `MessageChannel` | `communication/Messages` (`MessageProtocol`), the Tcp and Local transports |
| `FSScanner` | the scan of a directory, and the caller of its tests | `fs_scanner/FSScanner`, `tests/fs_scanner_tests.cpp` |
| `PathReconcile_proofs`, `FileSync_proofs`, `MerkleSync_proofs`, `ChunkedTransfer_proofs` (and of `LocalFileStorage`), `S3FileStorage_proofs`, `Sessions_proofs`, `Transport_proofs`, `FSScanner_proofs` | theorems | |

`PROJECT.json` maps every definition to the lines it models, and lists the
runs, the mutants that show each property can fail, the hazards and the theorems.

## 1. Inventory of the system

Both programs are single threaded Qt event loops: a handler runs to completion
before the next one starts. What is concurrent is the network: each connection
is two FIFO byte streams, each device has a timer, and the server interleaves
the messages of all connections as they come. The actions of the models are the
handlers.

**Path decision** (`subsystems/sync_protocol/SyncCommon`). Stateless.
`classifyPath(left, right)` puts a path in one of eight buckets from the two
`SideState`s (mtime, deletedAt, directory, hash). Correct when: the later event
wins, equal content is left alone, acting on the answer settles the path.

**File client** (`client/FileClient`). State: connection state, strategy,
metadata database, the busy flag `currentlyDoingSyncOps`, the counters
`pendingMessages`, `outstandingTransfers` and `pendingDirectoryRequests`,
`commandsToSend`, download metadata. Operations: connect and log in, `clientTick`
(scan, record, negotiate), act on the eight buckets, ask for the contents of
directories, count what comes back, unlock. Correct when: it unlocks exactly when
everything it started has ended, never deletes or replaces a newer version, and
every tick ends.

**File server** (`server/FileServer`). State: connections and their sessions, the
metadata of every user, the files, metadata of uploads in progress. Operations:
dispatch, authorise, list, Merkle phases, upload, download, delete. Correct
when: index and files agree, a version is replaced only by a later one, no
request of one device stops the process the others depend on.

**Negotiation** (`sync_protocol/{client,server}`). Naive: the server lists live
files and tombstones and the client classifies all of them. Merkle: root hash,
then the children of the root, then those of the directories both sides have and
whose hashes differ, one round for each level; directories only one side has are
decided as a whole. Both end in `classifyPath`. Correct when both strategies
agree with each other.

**Metadata** (`fs_metadata/FSMetadata`): mtimes, hashes, tombstones and a tree per
user, kept together by `recordFile` and `recordDeletion`, all in memory.
**Merkle tree** (`filesystem`): files, directories and tombstones; the hash of a
directory is that of its children's hashes. Correct when every hash is that of what is below it,
and two trees that differ are found to differ where they do.

**Chunking protocol** (`chunking_protocol`). State: `TransferProgress` per path on
either side. Operations: start, size, part, acknowledgement (or refusal, when
the bytes do not match their hash), cancel. Correct when: every file arrives
whole, both ends agree on the end of a transfer, no assertion fails.
**File transfer** (`file_transfer`) connects it to the storage.

**Storage** (`storage`). State: files, open writes. Operations: `beginWrite`,
`writeRange`, `finishWrite`, `abortWrite`, `writeFile`, `deleteFile`, `cleanup`.
Local: a write is a `QSaveFile`, committed or not. S3: it is a multipart upload. Correct
when a file that is written in parts changes as a whole or not at all, whatever fails. (`writeFile`
writes in place and does not look at what is written.)

**Authentication** (`auth`). Server: accounts, sessions (one per user and device),
signed tokens that last a week; client: the token. The server binds a connection
to the session of its last login and requires both, the binding and a token of
that session, for a request. Correct when: one session per device, no session
without an account, none that outlives its connection (there is no other way to
get rid of one than logging out).

**Messages and transports** (`communication`, `networking`). State: a buffer per
connection. A message is a frame of its length and JSON; `processBuffer` takes
the whole ones off. Correct when each end handles what was sent to it, once and in order.

**Scanner** (`fs_scanner`). State of its caller: what is tracked. A scan
reports new, modified, deleted and renamed files and directories; it tells a rename
by the inode. Neither program uses it yet. Correct when applying what it reports
leads to what is on the disk.

**Hashing, keys, programs**: SHA-256; two PEM files; configuration.

**How they interact.** `FileClient` owns `AuthClient`, the two sync clients,
`FileTransferClient` (which owns `ChunkingClient`) and a `LocalFileStorage`, and
connects their signals; `FileServer` does the same on its side. All signals are
direct calls. A tick ends in `negotiationCompleted`, which starts transfers, asks for
directories and sends delete requests; their ends decrement the counters; the
counters at zero release the next tick.

**What is hard here**
- several devices act on listings that are no longer true when their requests
  arrive, and the server compares nothing when it acts on them;
- users edit files between the scan, the negotiation and the transfer;
- times come from several places: the disk, the database, tombstones, requests;
- counters guard the next tick, and not all of them are looked at;
- a tree of hashes must follow every change of the metadata;
- several uploads share one table of open files, storages fail half way;
- refusals and cancellations cross other messages;
- connections break on one side before the other knows, programs stop and lose
  what they keep in memory;
- a byte stream is cut anywhere.

The same list, line by line and with the properties that watch each item, is
`hazards` in `PROJECT.json`. Those without a property say why.

## 2. The modules and the code

### SyncCommon and PathReconcile
`ClassifyPath` is `classifyPath`; a record with `NoTime` and `NoHash` for empty
optionals is a `SideState`. `PathReconcile` takes a whole synchronisation of one
path as a single step, `Reconcile`, between independent writes and deletions of
a device (`left`) and the server (`right`), and remembers in `latest` what the
last event left behind.

### FileSync
| model | code |
|---|---|
| `fs`, `db` | files under the client's root; its `FSMetadata` |
| `busy`, `pendingMessages`, `outstandingTransfers` | the members of `FileClient` (`busy` is `currentlyDoingSyncOps`) |
| `uploading`, `downloading` | keys of `ChunkingClient`'s two tables |
| `store`, `index`, `saving`, `uploadMeta` | server files, its `FSMetadata`, open save files, `pendingTransfersMetadata` |
| `toServer`, `toDevice` | the two directions of each connection |
| `failure` | the assertion that stopped a process |
| `Write`, `Delete` | the user |
| `Tick` | `clientTick`: scan, `applyChangesToDb`, first message |
| `DeviceReceive` | `FileClient::dispatch` and the chunking client's handlers |
| `ServerReceive` | `FileServer::dispatch` |
| `StopDevice`, `StartDevice`, `RestartServer` | the end and the start of a process (`stops` counts them) |

`ReceiveList` is all of `handleNegotiationCompleted`: uploads, downloads, delete
requests and local deletes, in the order in which they are sent, the counters,
and the check for the end of the sync. `NaiveDevice` is the set of devices configured
with the naive strategy; the server serves both. The strategies differ in what a path with a tombstone *and* a later file
counts as (`SideOf`: the naive one looks for the tombstone first) and in that
the naive listing names such a path twice (`Listings`).

A process that stops loses what is in memory: a client its metadata, counters and
transfers, the server its index, upload states and every connection. Files stay.
A client that is started takes all its files for new ones under their times on
disk. A `FileClient` never connects twice in the program, so a client whose
server restarts does nothing more until it is started again itself, and so it is
here.

Abstractions: one user, logged in and connected; flat paths, so the Merkle
negotiation is its round over the children of the root; a file is one chunk, or
none if it is empty; the hash of a content is the content; clocks agree and no two
events have the same time. `ReceiveDeleteAnswer` records time 0 because the
server's answer carries no time and the client records what it parses. Of a transfer `FileSync` has
the messages that start it and, of its data, one `chunk` that is answered (for a download: only the chunk itself, whose
acknowledgement, `ChunkingClient.cpp:172`, changes nothing but the server's own entry of the transfer); parts,
acknowledgements, refusals and cancellations are `ChunkedTransfer`'s.

The storage of the server may fail to delete a file if `DeletesFail` is set (`ServeFailedDelete`): the file and its entry
stay, the answer says so, and the device tries again at its next tick. It is set in `FileSync_anytime`, `FileSync_settled` and
`MerkleSync_settled`, and not where convergence is checked, which needs a storage that deletes. All other calls of the storage succeed.

Two constants set what users do. `EditsWhenSettled = FALSE`: they edit at any
time. `TRUE`: a user edits a path only on an idle device and while all other
copies of the path agree. `Recreate` says whether a path may be written again
after a deletion. The regimes are needed because most promises do *not* hold
without them; the further scenarios of section 3 show how each one fails.

### MerkleTree and MerkleSync
A tree is a function from paths (sequences of names) to nodes, and a hash is the
term that is hashed: two hashes are equal exactly when what was hashed is, which
makes the names a directory's hash leaves out, and the order it depends on, visible.
`AddFile`, `DeleteFile` and the three propagations are the methods of the same
names; `SymmetricHashDiff` compares two listings; `DeleteFileFails` is
the assertion that a rehashed node has a hash. Only the children of a node have an order that
tells (a directory's hash depends on it); listings and decisions are functions from paths. `Name` is the set of
names a path is made of, of any size and depth; of two paths none is a prefix of the other (`PathsAssumption`): no
path is a directory to one device and a file to another.

`MerkleSync` extends `FileSync` and uses its actions for users, transfers and
deletes; each of them also changes the `tree` of its side (`Follow`, `Rerecorded`: the calls
of `recordFile` and `recordDeletion`, in the order in which a scan found the files, which is any). New are the rounds of the descent
(`ReceiveNegotiation`, `ServeNegotiation`), carrying out its decisions
(`NegotiationCompleted`: `DecidedRequests`, `Staged`, `ApplyTombstones`,
`StartRequests`) and the listings of directories (`ReceiveDirectory`,
`ServeDirectory`). `negotiating`, `decided`, `inMerkleApply`,
`pendingDirectoryRequests` and `commandsToSend` are the members of `MerkleSyncClient` and
`FileClient`. A listing that comes when none is expected is treated as a naive
server's, as in `dispatch`.

`TicksWhenDrained` is an assumption on timing: the unlock ignores
`pendingDirectoryRequests`, and a tick that comes before the last listing mixes two
synchronisations (scenario `MerkleSync_tick_race`). With it set, a device
that unlocked early has received what is left before its timer fires again.

### ChunkedTransfer
`clientUploads`, `clientDownloads`, `serverUploads`, `serverDownloads` are the
tables of the two state machines (`NoTransfer`: no entry); `clientSave` and
`serverSave` the open save files; a file is the sequence of its chunks, each
marked with the version it comes from, so that a torn file is visible. Actions are
named for the handlers they model (`HandleAckOfUpload` is
`handleAckChunkOfUpload`). A corrupted chunk is a choice of the receiving
handler, which refuses it. Part numbers are `quint32`s (`Plus1`, modulo
`PartNumbers`), the client's first part is 1, and the two ends decide on the end
of a transfer differently (`Completes`, `LastPart`) as in the code.
`Cancel` says where the client may cancel: never, in the handler of a progress
signal (while the chunking handler is still running), or anywhere.

### FileStorage, LocalFileStorage and S3FileStorage
`FileStorage` is the interface as a promise: `file` changes as a whole, `writing`
holds the parts of open writes, `reply` the last call and its result. A call that succeeds has all of its
effect, one that fails all or none of it. Three promises are weaker because the
code is. `writeFile` may leave any beginning of the contents and report success: it truncates the file and
does not look at what `write` returns (`LocalFileStorage.cpp:58-65`), so a disk that gets full, or a program that
stops in it (`RestartInWriteFile`), leaves what was written by then. A part whose `writeRange` fails may have spoiled what stood in its place.
And `cleanup` reports nothing. That a write is not begun twice is the assertion of `beginWrite`,
a duty of the caller.

A file is named by its key, the user and the path joined by a slash, and keys are sequences of what slashes separate. `cleanup`
gives up the open writes whose key begins with the user and a slash (`Filed`), so those of a user `a/b` fall with those of `a`; nothing
in the server refuses such a name. `MCLocalFileStorage` has a pair of users like that.

`LocalFileStorage`: `disk` are the files, `saves` is `activeSaveFiles`. A `QSaveFile` remembers a failed
write and refuses to commit, but not a failed seek or a short write; so a
failed `WriteRange` is remembered or not, and has overwritten what was there or not. The mapping takes the parts of the save files
as the open writes. `S3FileStorage`: `objects` and `uploads` are the service's
(external), `active` is `activeMultipartUploads`. A request that the program
sees fail was carried out, or not (`Carried`); the service refuses a completion whose
list of parts is empty, not ascending or not its own (`Accepts`). The
mapping takes, of each part number, the one sent last.

### Sessions
`sessions` is `SessionRegistry`, `connToSession` the server's binding, `device`
which connections the server still has, `conn` the client's view of the same.
`Drop` breaks a connection on the client's side; what was sent still arrives and
`ServerCloses` comes later. `Start` is a new process that connects and logs in
(a `FileClient` never connects twice in the program). A token is the id of its
session; `Expire` lets it run out. `Operations` says what the application asks
for beyond the login `FileClient` sends by itself. A request the server does not
authorise is dropped without an answer. A registration whose account cannot be stored (`UsersDb.cpp:70-77`) is
answered like one that was (`HandleRegister`).

### MessageChannel and Transport
`MessageChannel` is what the other modules take a connection for: a queue of messages for each
end. In `Transport` a message is the bytes of its frame; `ReadyRead` takes any beginning
of what is on the `wire` to the `buffer`, `ParseFrame` is one round of
`processBuffer`'s loop, `EndOfLoop` its exit, and `Lose` cuts the streams
anywhere. A byte knows its message and its place, so a header read at a wrong place
would be seen. The mapping counts the whole frames in buffer and wire.

### FSScanner
`files` and `dirs` are the disk, `tracked` the state of the caller. `Changes` is the
scan, with the choice among entries of the same inode that a `QHash` leaves
open (`ByInode`); `Applied` is `applyChangesToState` of
`tests/fs_scanner_tests.cpp`, the only caller there is. The user creates,
modifies, renames and deletes; freed inodes are given out again. Every change has a
time of its own, as the tests arrange. The first scan after a change may miss a file on the disk; the
second misses none (`NothingMissed`). What it may still miss is a *deletion*: the entry of a file that
was replaced keeps the inode of the old file, so any number of entries may have one inode, and of those whose
files are gone `missingByInode` (`FSScanner.cpp:52`) keeps one. `DeletionsReported` says that each scan
then reports one for every inode. That two scans are enough for deletions as well, which an earlier version of
this module claimed and 4 changes do not refute, is false after 10: the proof of it failed at that map, and TLC, led along three
files that are replaced in turn with one freed inode, found the third scan that is needed.

Assertions (`assert`) stop the process. `Q_ASSERT` is compiled out of a release
build, where the iterator it guards is dereferenced at once, so it stops the
process too; `beginWrite`, which only loses the old entry, goes on.

## 3. Runs

| run | shows | bounds | states |
|---|---|---|---|
| `PathReconcile` | latest event wins, newer side kept, one round settles, decision symmetric | 5 events, 2 contents; proved for all values | 199 |
| `FileSync_anytime` | counters match what they count, idle means drained, index matches store, types | 2 devices (Merkle), 1 path, 3 edits at any time, clock 9, a client and the server stopped once, failing deletions | 1.24 million |
| `FileSync_settled` | no assertion fails, in sync means equal, the server never goes back, hashes are those of the files, nothing deleted returns | 2 devices, one of each strategy, 2 paths, 3 settled edits, no recreation, failing deletions; proved for all values | 68 000 |
| `FileSync_live` | every sync ends; copies converge | 2 devices, one of each strategy, 1 path, 4 settled edits, a client stopped once | 63 000 |
| `MerkleSync_settled` | trees follow the metadata, the descent decides what a flat comparison decides, its counters match, no assertion fails | 2 devices, 2 files in a directory and one beside it, 3 settled edits, recreation, failing deletions; the first and the third proved for all values | 496 000 (symmetric) |
| `MerkleSync_live` | copies converge through the descent | the same, 2 edits | 23 000 |
| `ChunkedTransfer_transfers` | whole files, stop and wait, no failed assertion, uploaded means committed, every transfer ends on both sides | 2 paths, 3 chunks, 3 transfers, 1 corruption, cancellation in progress handlers | 41 000 |
| `LocalFileStorage` | implements `FileStorage` | 2 users, one below the other's name, 1 file of each, 2 parts; proved for all values | 21 000 |
| `S3FileStorage` | implements `FileStorage`, completions are accepted, success leaves no orphans | 1 file, 2 parts of 2 contents, 2 uploads, 2 parts sent in each | 41 000 |
| `Sessions_safety` | one session per device, accounts, own bindings, sessions die with their connection; logins and sync requests are answered | 2 devices, 2 connections, 2 starts, 2 requests, expiry; the safety properties are proved for all values | 173 000 |
| `Transport` | implements `MessageChannel`; what is sent is handled unless the connection ends | messages of one byte and of two, header of 2 bytes, 3 messages; proved for all values | 29 000 |
| `FSScanner` | two scans of a quiet directory leave no file unreported; one change is found whole by one scan | 2 directories, 2 file names, 4 inodes, 4 changes; the first proved for all values | 375 000 |

Two devices are the least with which the server can meet an outdated decision,
and a third adds no new relation between one decision and one request. Three
edits give write, write again or delete on the other device, and one more
against the result. `MaxClock` ends the scenario; it limits
edits and ticks, never a message handler, so whatever has started may finish
(`FileSync_settled`, `FileSync_live` and the Merkle runs set it beyond reach). One stop of each kind
is enough to come between any two steps of a synchronisation. Two files in one directory
and one beside it give a round for the root and one below it, a
directory only one side has, one both have, and one whose files are all tombstones.
Three chunks give a first, a middle and a last part, one
corruption a refusal at any of them. Two users of which one has a name that begins with the other's show which
files a cleanup takes along, and that it leaves those of the shorter name alone. Two parts of an object can be sent in the wrong order, or one of
them twice. A message of one byte and one of two give frames of two
lengths, a header cut in two, and several frames in one reading. Four changes of a
directory are a directory with a file, its rename, and one more.

`SYMMETRY Devices` in `MerkleSync_settled` exchanges the devices, which nothing there tells
apart; it checks no liveness. Deadlock checking is off where a bounded number of
edits, transfers or requests leaves the system at rest, which is what it is
supposed to do; it is on for the storages and the scanner, whose callers never end.

### Further scenarios

The other `.cfg` files are for a reader who wants to see one more behaviour
(`tlc -config <file>.cfg <module>`). Those of the first table end in a counterexample, those of the second hold. Each checks
a statement that a comment, an assertion or a test of the repository makes, or one a reader of the code may take for granted.

| file | property | what happens |
|---|---|---|
| `FileSync_download_race` | `DownloadedFileExists` | another device deletes a file between the listing and the download request; `assert(size.has_value() ...)` (`FileTransferServer.cpp:65`) stops the server |
| `FileSync_vanished_upload` | `UploadsHaveChunks` | the user deletes a file between scan and upload; the upload has no chunks, and an assertion of the client fails (`ChunkingClient.cpp:74`) |
| `FileSync_upload_race` | `OneUploadPerPath` | two devices upload a path at once; they share the open file, and the second commit finds none ("no active transfer for (user,path)", `LocalFileStorage.cpp:195`) |
| `FileSync_lost_update` | `ServerNeverGoesBack` | an upload decided on an old listing replaces a later version (`FileServer.cpp:135-145` compares nothing; `FileClient.cpp:572` says "overwrites the server's stale copy") |
| `FileSync_stale_upload` | `UploadsAreNewer` | a downloaded file has the time of its download on disk, counts as modified at the next scan and beats a later version |
| `FileSync_stale_delete` | `StaleDeleteRejected` | a delete request that is older than the server's file removes it; `tests/sync_tests.cpp:551-552` says "A's stale delete arrives -> server rejects" |
| `FileSync_naive_recreated` | `InSyncMeansEqual` | naive: a path deleted and written again stays deleted to one side; "identical, nothing to do" (`SyncCommon.h:19`) with different contents |
| `FileSync_deleted_twice` | `NoResurrection` | the second deletion of a path takes the time of the first (`FileClient.cpp:411-415`), and the file comes back |
| `MerkleSync_early_unlock` | `UnlockedMeansSynced` | a transfer ends before the last directory listing has come: "All of current sync items have been synced." (`FileClient.cpp`, `checkSyncCompletionAndUnlock`) while items are missing |
| `MerkleSync_tick_race` | `NothingFails` | the next tick comes then; the listings of both rounds mix, and an assertion fails |
| `MerkleSync_untracked_upload` | `HashedNodesHaveHashes` | the upload of a file the client does not track carries no hash, the server records it without one, and a deletion beside it fails the assertion that there is one (`MerkleTree.cpp:262`) |
| `ChunkedTransfer_empty_upload` | `EmptyUploadIsSkipped` | the upload of an empty file fails an assertion; `tests/chunking_tests.cpp:166-168` says it is skipped |
| `ChunkedTransfer_cancel_race` | `CancelFindsTransfer` | a cancellation crosses the last acknowledgement; `assert(false)` on the server (`ChunkingServer.cpp:229`) |
| `ChunkedTransfer_upload_leftover` | `OneWriteAtATime` | an upload leaves a file open for writing on the client (`FileTransferClient.cpp:10-13`), which the next transfer of the path finds |
| `Sessions_second_login` | `SessionsDieWithConnection` | a second login on a connection orphans the first session, which blocks its device |
| `Sessions_reconnect` | `ReloginOnReconnect` | a device that is back before the server has noticed is refused ("device already connected") and does not try again; `FileServer.cpp:212-213` says it does |
| `Sessions_account_gone` | `AccountGoneMeansLoggedOut` | after `accountDeleted` the client stays Authenticated without a token |
| `Transport_reconnect` | `BufferIsAligned` | a client that connected a second time would put the end of a frame of the first connection before the second's (`TcpClientTransport.cpp:50` clears nothing); the programs connect once |
| `FSScanner_kind_change` | `NothingMissed` | a name that was a directory and is a file (or the other way round) stays tracked as what it was, and two scans do not repair it |

| file | property | what it shows |
|---|---|---|
| `ChunkedTransfer_cancels` | `FilesAreWhole`, `TypeOK` | cancelling at any moment leaves no partial file, if the path is not transferred again |
| `FSScanner_leftovers` | `DeletionsReported` | six changes of two files, two entries with one inode: their deletions are reported one by one and none is lost (proved for all values) |

The type invariants `MerkleTypeOK` and `S3TypeOK` (the latter proved) hold in `MerkleSync_settled` and `S3FileStorage`: add them to the
INVARIANTS of these runs.

## 4. Fairness

`FileSync` and `MerkleSync`: weak fairness of each device's tick (a repeating `QTimer`), of its
message handlers and of the server's handlers for each connection (the event
loop serves every readable socket), stated as the change of `busy`, or of the
queue the message is taken from; and of starting a client that was stopped. The user owes nothing. Edits being bounded,
`Converges` is `<>[]`: the copies agree and go on agreeing however often devices
tick afterwards. `ChunkedTransfer`: weak fairness of the two receivers; starting
and cancelling are never required, and corruption is bounded, so a chunk that
keeps being refused is outside of what `TransfersEnd` says. `Sessions`: weak
fairness of the receivers and of `ServerCloses` (TCP reports the end at some
time). `Transport`: weak fairness of reading, of the loop's rounds and of its
exit; sending and losing the connection are never required. Nothing is strongly fair.

## 5. Refinements

- `LocalFileStorage` implements `FileStorage` (`LocalImplements`): checked, and proved.
- `S3FileStorage` implements `FileStorage` (`S3Implements`): checked, and proved. So the two storages, given the
  same calls, may differ only where a call fails, which is what the programs rely on when
  they take either through the interface.
- `Transport` implements `MessageChannel` (`TransportImplements`): checked, and proved. `MessageChannel` is
  what `toServer` and `toDevice` of the other modules are.
- `DescentIsFlat` is the same idea as a state predicate: the descent over two trees decides for every
  path what `classifyPath` decides on the metadata of the two sides.

## 6. Proofs

**PathReconcile**, for any set of contents and any number of events (assumptions:
contents are hashes, `MaxClock` is a natural number).
`InSyncIsLatest` is not inductive: it says nothing of sides that differ. The
invariant is `IInv == TypeOK /\ AgeInv`, where `AgeInv` relates the ages of
the two sides to the latest event: neither side is newer than the clock, and the
side that is at least as recent as the other shows what the latest event left.
The lemmas `NewerWins`, `InSyncShowsSame`, `ApplyShowsSame` and `ApplySettles` say
what the decision and the steps it starts do to *any* two well-formed sides;
they need no invariant. From them: `TypeCorrect`, `LatestWins`, `Settles`,
`NewerKept` (an action property) and `Symmetric`, which says that the decision is the same
seen from the other side.

**FileSync**, for any devices, paths, edits, clock, stops and restarts
(assumptions: the server is no device, `NaiveDevice` is a set of devices, there are
finitely many paths, bounds are natural numbers). `IndexCorrect` is `[]IndexMatchesStore`: whatever uploads and
deletes of any number of devices meet, the server tracks a path only if it has the
file, and has no other files unless it was restarted, deletions that its storage fails included. The invariant is
`IInv == DevicesOK /\ ServerOK /\ NetOK /\ IndexMatchesStore`: the first three are
the shapes of the variables, and of the messages on the connections, that the
handlers read (the paths of requests above all). `Invariance` proves it with one lemma per action
and per kind of message; the actions of users and devices leave index and store alone, and of the
server's handlers only the last chunk of an upload, the delete and the restart do not.

**LocalFileStorage** (last part of `ChunkedTransfer_proofs`: it is the storage the chunks are written to), for any users, names, data and number of parts.
`LocalTypeCorrect`: files and open writes are contents. `LocalStorageIsFileStorage`: initial states
map to initial states, and each operation to the operation of `FileStorage` of the same
name and result, a stop in `writeFile` included; a part that fails changes the error of a save file, which the
mapping does not show, and what stood in its place, which it does, and `finishWrite` of a save file with an error maps to a failed
one that leaves the file alone. `LocalTypeCorrect` is needed where a written part must be a part of the promise.

**FileSync, the accounts** (second part of `FileSync_proofs`). `AccountsCorrect` is `[]AccountsMatch` and `IdleDevices`
is `[]IdleMeansDrained`, for any devices, paths, edits, stops and restarts, under one more
assumption: `NaiveDevice = {}`. It is needed: a naive device counts a path twice that the server lists twice and opens
one transfer for it. `MerkleAccounts` has no such assumption and says the same of each device of a mixed fleet that is
not naive. The invariant `AInv` says of such a device that it is *listing* (one request or one list on its connection and
nothing else), or *working*: a `Round` of at most one message for each path, every upload message of an
open upload, every download message of an open download, and both counters exact; and that it is busy or has
nothing under way. What a step does to the connection of one device is a lemma about plain values (`RoundAnswers`, `RoundTurns`,
`RoundCounts`, `RoundCloses`, `RoundStarts`); a lemma for each action applies one of them, and says that all other devices keep
what they have.

**FileSync, the types** (third part of `FileSync_proofs`). `TypeCorrect` is `[]TypeOK`, for any devices of both strategies, paths,
edits, clock, stops and restarts, without an assumption more. It says two things that are not seen from one step. No time is later than the clock,
no hash is of a version nobody has written, and no device has an empty file: `BInv` (theorem `Bounds`) follows every time, hash and
content through the messages, with sets that grow with the clock (`StateAt(t)`, `StateLater`). And no counter a device
unlocks on is ever negative: `CInv` (theorem `CountersCover`) says that `pendingMessages` is at least the number of delete requests
and answers on the connection, and `outstandingTransfers` at least the number of messages of transfers. Unlike `AInv` it
holds of naive devices, and of devices and servers that an assertion has stopped: where a message is dropped on the way the counter keeps what
nothing will decrease. `UnderTake`, `UnderSend` and `CoversList` are the lemmas on the queues. TLC finds `BInv` and `CInv` true
in the 711 276 states of `FileSync_anytime` with one naive device and `MaxClock = 5`.

**FileSync, the settled regime** (last part of `FileSync_proofs`), for any devices, of both strategies, and any paths, edits and clock.
The theorems assume `SettledRegime`: a user edits a path only on an idle device while all other copies of it agree
(`EditsWhenSettled`), writes no deleted path again (`~Recreate`), and no process is stopped. It is the regime of the run
`FileSync_settled`; without it the properties are false, each in a scenario of section 3. `SettledNothingFails`,
`SettledHashDescribesStore`, `SettledInSyncMeansEqual`, the action properties `SettledServerNeverGoesBack` and
`SettledNoResurrection`, and `SettledAccounts` (`AccountsMatch` and `IdleMeansDrained` with naive devices too) follow from one invariant, `SInv`:
- of each path (`PathOK`), a device has what the server has (`CurrentAt`), or an older version or none (`BehindAt`), or it
  has written or removed the path since (`WrittenAt`, `RemovedAt`); and while one device is ahead, all others have what the server
  has, and are older (`Leads`). A busy device has scanned, so its metadata say which of them it is;
- a message still means what it meant when it was sent (`PathMsgAt`): an upload, in each of its four messages, is
  of the file the device has now, and a download of the version the server has now; a list may be out of date about a path, but then the device
  decides `"InSync"` on it, which was right (`ListedAt`);
- what a busy device has written, it is about to find out or to report (`Owes`), so no upload of another device
  overtakes it: only one device is ever ahead, and it is the one whose message arrives. Not so what it has deleted: a deletion the
  server fails leaves the device ahead with nothing under way until its next tick (`RemovedAt`), and a later version of
  the path cannot come from anywhere else;
- no two paths share a version (`Disjoint`), so a deletion of one is none of another.

`Decides` says what `classifyPath` decides of a device in each of these states, with either strategy. Each step is a lemma on the plain values of
one path (`PathWrite`, `PathTick`, `PathCommit`, `PathDownloads` and others), applied by a lemma for each message, and lemmas
that say that the other devices and paths keep what they have. TLC finds `IInv` and `SInv` true in all
68 427 states of the run: add them to the INVARIANTS of `FileSync_settled.cfg` and run it on `FileSync_proofs`.

**MerkleSync**, for any devices, edits, clock and any paths of any depth (assumptions: there are finitely many paths, none is a
prefix of another, no device is naive, the server is no device). `TreesCorrect` is `[]TreeFollowsMetadata`: in every state, whatever was
recorded and in whatever order, the tree of each process has a live leaf with the time and hash of each file it tracks, no node or a
tombstone of the recorded time for any other path, and in every directory the hash of what is below it. The invariant
(`TreesHold`) is `TInv == StoresOK /\ LinksOK /\ DescentOK /\ TreesOK`, and needs no regime and no process to be running:
- `TreesOK`: a tree is `Good`, its nodes are prefixes of paths, a path is a leaf and what is above it a directory whose children
  are its nodes one level below, each once, and every hash is that of its node; and each leaf `Mirrors` its record. A directory is never
  marked deleted, because only files are (`DescentOK` and `LinksOK` carry it through decisions and messages);
- `LinksOK`, `DescentOK`: what a decision, a staged command or a message says is about a path that is a file, and a deletion has a time;
- `StoresOK`: the shapes of the maps; a file on a disk has a time.

The hashes are a recursive function over the nodes of a tree: that `Rehashed` gives the only
function that satisfies its equation is proved by induction on the depth (`WellFoundedInduction`, over a set, as in `Transport`). From it, that
`AddFile` and `DeleteFile` of a file keep a tree `Good`, change the leaf of that file as the record changes, and no
other leaf; then that any sequence of them that covers the records that changed leads from a tree that mirrors
the old records to one that mirrors the new (`Follow`); then one lemma for each action. The lemmas of `FileSync_proofs` on the types of
records and messages are used for the actions that are `FileSync`'s.

`DescentIsAccounted` is `[]DescentAccounts`: a device never waits for a listing or an answer that is not on its way, nor
forgets one that is, and commands are staged only while a listing is expected. It assumes `TicksWhenDrained`; without it the property is false
(`MerkleSync_tick_race` is that history). The invariant `NInv` says `Awaits(d)` of each device that runs while the server
does: the counts, and that no negotiation is open while a listing is expected, without which the requests that leave
when a negotiation ends would be added to listings of another one. The proof splits by who acts. `ExpectsSent`,
`ExpectsTaken`, `ExpectsAnswered` and the lemmas after them say on two plain queues what each kind of message does to the counts,
`RequestAnswered` that the server answers each request with one message of its kind or stops, and one lemma for
each handler (`NegotiationAwaits`, `DirectoryAwaits`, `AnswerAwaits`, `TickAwaits`) that it does one of these things.

**ChunkedTransfer**, for any paths, devices' queues, part numbers, versions, refusals and lengths of files.
`TypeCorrect` has no assumption. The others assume `Chunks # 0` (an empty upload fails an assertion: scenario
`ChunkedTransfer_empty_upload`) and `Cancel # "anywhere"` (a cancellation outside of a handler may cross an acknowledgement:
`ChunkedTransfer_cancel_race`). The invariant says which of eleven phases each path is in: nothing under way, or exactly one message
of the path on the two queues, together with the state of both ends and what both
save files hold, a prefix of one version as long as the number of the part says. From it `FilesWhole`, `OneMessage`
(`StopAndWait`), `NoFailure` and the action property `UploadCommitted`. That `FilesAreWhole` also holds with
cancellations anywhere is only checked (`ChunkedTransfer_cancels`).

**S3FileStorage**, for any users, names, data, numbers of parts and uploads. `S3TypeCorrect` is `[]S3TypeOK`,
`CompletionsAccepted` is `[]CompletionIsAccepted`, `NoOrphans` an action property, `S3StorageIsFileStorage` the refinement.
The invariant `SInv` says that an upload the program knows is its own at the service, for the same object, and that the
service has all parts of its list. That a list can be sorted at all (`PlacesExist`) is proved by giving each
part the place that leaves room for those before it, and that a number's last part exists is carried in
the invariant, part by part: both without induction.

**Sessions**, for any users, devices, connections, bounds and operations
(assumptions: `NoDevice` and `NoConnection` are not names, bounds are natural
numbers). `TypeCorrect` stands alone. The safety invariants need
`IInv == TypeOK /\ Owners /\ OneSessionPerDevice /\ SessionsHaveAccounts /\ BindingsAreOwn`:
`Owners` says whose requests are on a connection (those of the device the
server has it as), without which a login could bind a connection to a session of
another device. `ReceiveEffect` reduces the five handlers to what they do to the
registry: nothing, open one session, or end some. From it `OneSession`,
`SessionAccounts` and `OwnBindings`.

`DieWithConnection` has an assumption more, `"login" \notin Operations`: the
only login on a connection is the one `FileClient` sends when it connects. The
invariant is `BoundInv == IInv /\ TokensAreHeld /\ LoginIsFirst /\ SessionsDieWithConnection`:
a token on its way or held by a device with that connection is of a session that
is over or bound to that very connection (so a logout ends the session whose
binding it clears), and a login is only ever the first message of a connection
that is bound to nothing. Without the assumption the statement is false: scenario
`Sessions_second_login`.

**Transport**, for any messages of any length, headers, numbers of messages and pieces TCP cuts the stream into; the
assumption is that the client connects once (`~Reconnects`), as the programs do: scenario `Transport_reconnect`.
`StreamsAreFrames` is the invariant: what an end has read (`buffer`) and what is on its way (`wire`) are one stream, which
begins where a frame begins, in which every byte is followed by the next of its frame or by the first of
another, and which ends where a frame ends while the connection is up. `TransportIsChannel` is the refinement: `ReadyRead` moves bytes inside
the stream and is a stutter, `ParseFrame` takes the first message, a connection that is lost cuts messages off the
end. The messages of a stream are a recursive function (`MessagesIn`), and that those of two streams put together are those of
the one and then those of the other is proved by induction: the library's induction theorem takes an
operator and cannot be used, but the statement about a *set* of numbers can be proved (`Induction`, from the
well-foundedness of the finite subsets of a set), and serves for every property a set can be formed of.

**FSScanner**, for any names, inodes, number of changes, orders of renames and both kinds of callers; the assumption (`NamesApart`) is that no
name is a file at one time and a directory at another: scenario `FSScanner_kind_change`. `TypesHold` is `[]TypeOK`, `NothingIsMissed` is `[]NothingMissed` and
`LeftoversReported` the action property `DeletionsReported`. `NothingMissed` needs to know what the first of
the two scans achieves, whatever the tracked state was before: `NoMoves`, that no directory is left which the next scan would
take for a renamed one. So the invariant is `ScanInv`: the shapes of disk and table, `NoMoves` after one scan and `Caught` after two. The
main lemma (`ScanStep`) follows the caller through its five insertions and removals (`BasedIs`) and then, by
induction over the order in which renamed directories are applied (`AllMoves`), through any number of moves of
which one may overwrite what another brought (`MovedIs`, `OneMove`).

**Model-checked only.**
- All liveness: the prover has no rule for fairness.
- `DescentIsFlat` of `MerkleSync`: the descent is a recursive function over rounds, and equal hashes hide no difference only because no two files have
  equal contents.
  Its proof would first need `IInv` of `FileSync` again for the steps of `MerkleSync`, to know that equal hashes come with equal times.
- `NothingFails` of `MerkleSync` (proved for `FileSync`, whose paths are flat): it rests on `DescentIsFlat`, since a request for a file the
  other side does not have fails an assertion there.
- `OneChangeConverges` of `FSScanner`: it needs, for each kind of change, what a directory that was tracked exactly looks like after it.

## 7. Not modelled, and why

- **Programs, keys, hashing**: input and output, configuration, third party. A hash is what is hashed.
- **The Tls transports**: neither program constructs one.
- **JSON**: messages are records. One conversion loses something: a time is written without its zone;
  the machines of the models share one.
- **The timer** and `pendingTick`: a tick is enabled whenever the device is not busy.
- **`applyServerVersion`** and the answers that would reach it: the code asserts it is never reached.
- **Writes that fail under the server** (`FileTransferServer.cpp:45` ignores what it is told):
  but for deletions, `FileSync` and `ChunkedTransfer` call storages that succeed; the storages that fail are modelled alone. A deletion
  that the service carried out and reported as failed is in `S3FileStorage` only.
- **Directories in directories, in `FSScanner`**: directories are one level deep, so a renamed directory inside a renamed
  directory, whose move is folded into the outer one (`FSScanner.cpp:163-164`), does not occur.
- **Downloads of empty files** (`ChunkingClient.cpp:164`) never end; `SyncEnds` is about files with contents.
- **Edits during an upload** (`ChunkingClient.cpp:89`): files of `ChunkedTransfer` are edited between transfers.
- **Stops and starts in `MerkleSync`**: `FileSync` has them, with flat paths.
- **Two files of one content**: a rename made while a client is stopped, which a hash without names does not see.
- **Changes that leave the modification time alone** (`FSScanner.cpp:31`).

## 8. Plan

The modules planned at first are done, but for two refinements that were left out: that `FileSync` in the settled
regime implements `PathReconcile` (the metadata of a device and the file on its disk change in two steps, so
a mapping needs the decision of a scan ahead of time), and `MerkleSync` as
an implementation of `FileSync` (it takes its actions instead, and `DescentIsFlat` compares the
decisions). What would come next: a server over `FileStorage` that fails.
