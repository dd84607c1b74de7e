-------------------------- MODULE ChunkedTransfer --------------------------
(***************************************************************************)
(* The transfer of files in chunks between one client and the server:      *)
(* ChunkingClient and ChunkingServer (subsystems/chunking_protocol), the   *)
(* storage calls FileTransferClient and FileTransferServer make for them,  *)
(* and the write lifecycle of LocalFileStorage those calls run.  A chunk   *)
(* is acknowledged before the next one is sent; a chunk whose bytes do not *)
(* match its hash is refused and sent again.                               *)
(*                                                                         *)
(* A transfer is for one path and goes up (client to server) or down.      *)
(* Transfers of several paths share the two directions of the connection,  *)
(* which are FIFO streams.  Chunks are numbered from 1 with quint32s,      *)
(* PartNumbers of them.  A file of version v is its chunks <<v, 1>>,       *)
(* <<v, 2>>, ...  Names of states and handlers are the code's.  An         *)
(* assertion that fails stops its process, and so does a Q_ASSERT, which a *)
(* release build replaces by the use of an end iterator.                   *)
(***************************************************************************)
EXTENDS Naturals, Sequences, FiniteSets

CONSTANTS Path,
          Chunks,         \* chunks of a file; 0: files are empty
          PartNumbers,    \* 2^32: number of quint32 values
          MaxStarts,      \* bound on the transfers started
          MaxCorruptions, \* bound on the chunks corrupted on their way
          Cancel          \* where the client may cancel a transfer: "never",
                          \* in a "progress" handler, or "anywhere"

ASSUME ChunksAssumption == Chunks \in Nat /\ PartNumbers \in Nat /\ Chunks + 1 < PartNumbers
ASSUME BoundsAssumption == MaxStarts \in Nat /\ MaxCorruptions \in Nat
ASSUME CancelAssumption == Cancel \in {"never", "progress", "anywhere"}

VARIABLES
  starts,       \* transfers started so far
  corruptions,  \* chunks corrupted so far
  version,      \* version[p]: versions of the file p written so far
  clientFile,   \* clientFile[p], serverFile[p]: the two storages
  serverFile,
  clientSave,   \* clientSave[p], serverSave[p]: activeSaveFiles of the two
  serverSave,   \* storages: what is written to the file so far, or NoSave
  clientUploads,    \* uploadStates and downloadStates of ChunkingClient
  clientDownloads,
  serverUploads,    \* uploadStates and downloadStates of ChunkingServer
  serverDownloads,
  toServer,     \* the two directions of the connection
  toClient,
  failure       \* the assertion that failed, or "none"

boundVars  == <<starts, corruptions, version>>
clientVars == <<clientFile, clientSave, clientUploads, clientDownloads>>
serverVars == <<serverFile, serverSave, serverUploads, serverDownloads>>
vars == <<boundVars, clientVars, serverVars, toServer, toClient, failure>>

-----------------------------------------------------------------------------
(* Data *)

PartNumber == 0..(PartNumbers - 1)

NoChunk == <<0, 0>>     \* the bytes read past the end of a file

Chunk == ((1..MaxStarts + 1) \X (1..Chunks)) \cup {NoChunk}

FileOf(v) == [i \in 1..Chunks |-> <<v, i>>]

NoFile == [i \in {0} |-> NoChunk]

(* Bytes written to a QSaveFile so far: the chunks at their offsets.       *)
NoSave    == NoFile
EmptySave == [i \in {} |-> NoChunk]

(* TransferProgress: currentPartNumber and totalParts.                     *)
NoTransfer == [part |-> PartNumbers, total |-> PartNumbers]
Progress(part, total) == [part |-> part, total |-> total]
Active(progress) == progress # NoTransfer

Plus1(part) == (part + 1) % PartNumbers

Completes_OneEarly(progress, part) == progress.total # 0 /\ part + 1 >= progress.total
(* recordConfirmedPart: is the transfer complete now?                      *)
Completes(progress, part) == progress.total # 0 /\ part >= progress.total

(* The reader of a storage: the chunk at the offset of a part.             *)
ReadPart(file, part) ==
  IF file # NoFile /\ part \in DOMAIN file THEN file[part] ELSE NoChunk

(* writeRange: the bytes go to the offset of the part; no bytes, no change. *)
WritePart(save, part, data) ==
  IF data = NoChunk THEN save
  ELSE [i \in DOMAIN save \cup {part} |-> IF i = part THEN data ELSE save[i]]

SizeInChunks(file) == IF file = NoFile THEN 0 ELSE Cardinality(DOMAIN file)

ChunkTransfer(p, part, data) == [type |-> "chunk", path |-> p, part |-> part, data |-> data]
AckChunk(p, part, ok) == [type |-> "ack", path |-> p, part |-> part, ok |-> ok]

Running == failure = "none"

Fail(what) == failure' = what

-----------------------------------------------------------------------------
Init ==
  /\ starts = 0
  /\ corruptions = 0
  /\ version = [p \in Path |-> 1]
  /\ clientFile = [p \in Path |-> FileOf(1)]
  /\ serverFile = [p \in Path |-> NoFile]
  /\ clientSave = [p \in Path |-> NoSave]
  /\ serverSave = [p \in Path |-> NoSave]
  /\ clientUploads = [p \in Path |-> NoTransfer]
  /\ clientDownloads = [p \in Path |-> NoTransfer]
  /\ serverUploads = [p \in Path |-> NoTransfer]
  /\ serverDownloads = [p \in Path |-> NoTransfer]
  /\ toServer = <<>>
  /\ toClient = <<>>
  /\ failure = "none"

-----------------------------------------------------------------------------
(* The client starts and cancels transfers *)

Idle(p) == ~Active(clientUploads[p]) /\ ~Active(clientDownloads[p])

(* FileTransferClient opens a file to write for an upload too.             *)
StartUpload(p) ==
  /\ starts < MaxStarts
  /\ Idle(p) /\ clientFile[p] # NoFile
  /\ starts' = starts + 1
  /\ clientSave' = [clientSave EXCEPT ![p] = EmptySave]
  /\ clientUploads' = [clientUploads EXCEPT ![p] = Progress(1, 0)]
  /\ toServer' = Append(toServer,
       [type |-> "uploadRequest", path |-> p, size |-> SizeInChunks(clientFile[p])])
  /\ UNCHANGED <<corruptions, version, clientFile, clientDownloads, serverVars,
                 toClient, failure>>

StartDownload(p) ==
  /\ starts < MaxStarts
  /\ Idle(p) /\ serverFile[p] # NoFile
  /\ starts' = starts + 1
  /\ clientSave' = [clientSave EXCEPT ![p] = EmptySave]
  /\ clientDownloads' = [clientDownloads EXCEPT ![p] = Progress(1, 0)]
  /\ toServer' = Append(toServer, [type |-> "downloadRequest", path |-> p])
  /\ UNCHANGED <<corruptions, version, clientFile, clientUploads, serverVars,
                 toClient, failure>>

(* A user writes a file that is not being transferred.                     *)
Rewrite(p) ==
  /\ Idle(p)
  /\ version[p] <= starts
  /\ version' = [version EXCEPT ![p] = @ + 1]
  /\ clientFile' = [clientFile EXCEPT ![p] = FileOf(version[p] + 1)]
  /\ UNCHANGED <<starts, corruptions, clientSave, clientUploads, clientDownloads,
                 serverVars, toServer, toClient, failure>>

(* The file the client opened for the upload stays open.                   *)
CancelUpload(p) ==
  /\ clientUploads' = [clientUploads EXCEPT ![p] = NoTransfer]
  /\ toServer' = Append(toServer, [type |-> "cancel", path |-> p])
  /\ UNCHANGED <<clientFile, clientSave, clientDownloads>>

CancelDownload(p) ==
  /\ clientDownloads' = [clientDownloads EXCEPT ![p] = NoTransfer]
  /\ clientSave' = [clientSave EXCEPT ![p] = NoSave]
  /\ toServer' = Append(toServer, [type |-> "cancel", path |-> p])
  /\ UNCHANGED <<clientFile, clientUploads>>

CancelAnywhere(p) ==
  /\ Cancel = "anywhere"
  /\ \/ Active(clientUploads[p]) /\ CancelUpload(p)
     \/ Active(clientDownloads[p]) /\ CancelDownload(p)
  /\ UNCHANGED <<boundVars, serverVars, toClient, failure>>

-----------------------------------------------------------------------------
(* The client receives *)

(* Until the server has told the size, the chunk size is 0 and no bytes are *)
(* read: an old acknowledgement that meets a new upload of the path.        *)
SendPart(p, total, part) ==
  toServer' = Append(toServer, ChunkTransfer(p, part,
                IF total = 0 THEN NoChunk ELSE ReadPart(clientFile[p], part)))

HandleUploadSizeReceived(m) ==
  /\ m.type = "uploadSize"
  /\ \/ /\ Active(clientUploads[m.path]) /\ m.total # 0
        /\ clientUploads' = [clientUploads EXCEPT ![m.path].total = m.total]
        /\ SendPart(m.path, m.total, clientUploads[m.path].part)
        /\ UNCHANGED failure
     \/ /\ Active(clientUploads[m.path]) /\ m.total = 0
        /\ Fail("total chunks is zero")
        /\ UNCHANGED <<clientUploads, toServer>>
     \/ /\ ~Active(clientUploads[m.path])
        /\ Fail("client has no upload state")
        /\ UNCHANGED <<clientUploads, toServer>>
  /\ UNCHANGED <<corruptions, clientFile, clientSave, clientDownloads>>

(* An upload in progress may be cancelled by the handler of uploadProgress, *)
(* before the next part is sent.                                            *)
HandleAckOfUpload(m) ==
  LET up == clientUploads[m.path] IN
  /\ m.type = "ack"
  /\ \/ /\ Active(up) /\ ~m.ok
        /\ SendPart(m.path, up.total, m.part)
        /\ UNCHANGED <<clientVars, failure>>
     \/ /\ Active(up) /\ m.ok /\ Completes(up, m.part)
        /\ clientUploads' = [clientUploads EXCEPT ![m.path] = NoTransfer]
        /\ UNCHANGED <<clientFile, clientSave, clientDownloads, toServer, failure>>
     \/ /\ Active(up) /\ m.ok /\ ~Completes(up, m.part)
        /\ clientUploads' = [clientUploads EXCEPT ![m.path].part = m.part]
        /\ SendPart(m.path, up.total, Plus1(m.part))
        /\ UNCHANGED <<clientFile, clientSave, clientDownloads, failure>>
     \/ /\ Active(up) /\ m.ok /\ ~Completes(up, m.part)
        /\ Cancel = "progress"
        /\ CancelUpload(m.path)
        /\ UNCHANGED failure
     \/ /\ ~Active(up)
        /\ Fail("client has no upload state")
        /\ UNCHANGED <<clientVars, toServer>>
  /\ UNCHANGED corruptions

HandleDownloadSizeReceived(m) ==
  /\ m.type = "downloadSize"
  /\ \/ /\ Active(clientDownloads[m.path])
        /\ clientDownloads' = [clientDownloads EXCEPT ![m.path].total = m.total]
        /\ UNCHANGED failure
     \/ /\ ~Active(clientDownloads[m.path])
        /\ Fail("client has no download state")
        /\ UNCHANGED clientDownloads
  /\ UNCHANGED <<corruptions, clientFile, clientSave, clientUploads, toServer>>

LastPart_Early(progress, part) == progress.total # 0 /\ Plus1(part) >= progress.total
LastPart(progress, part) == progress.total # 0 /\ Plus1(part) > progress.total

(* While the chunk size is unknown every part is written at offset 0.       *)
PlaceOf(progress, part) == IF progress.total = 0 THEN 1 ELSE part

(* A chunk that arrives whole is written; the last one completes the       *)
(* download, and commitDownload moves the file to its place.               *)
HandleChunkOfDownload(m) ==
  LET down == clientDownloads[m.path]
      save == WritePart(clientSave[m.path], PlaceOf(down, m.part), m.data)
  IN
  /\ m.type = "chunk"
  /\ \/ /\ Active(down)
        /\ corruptions < MaxCorruptions
        /\ corruptions' = corruptions + 1
        /\ toServer' = Append(toServer, AckChunk(m.path, m.part, FALSE))
        /\ UNCHANGED <<clientVars, failure>>
     \/ /\ Active(down) /\ LastPart(down, m.part)
        /\ clientFile' = [clientFile EXCEPT ![m.path] = save]
        /\ clientSave' = [clientSave EXCEPT ![m.path] = NoSave]
        /\ clientDownloads' = [clientDownloads EXCEPT ![m.path] = NoTransfer]
        /\ toServer' = Append(toServer, AckChunk(m.path, m.part, TRUE))
        /\ UNCHANGED <<corruptions, clientUploads, failure>>
     \/ /\ Active(down) /\ ~LastPart(down, m.part)
        /\ clientSave' = [clientSave EXCEPT ![m.path] = save]
        /\ clientDownloads' = [clientDownloads EXCEPT ![m.path].part = Plus1(m.part)]
        /\ toServer' = Append(toServer, AckChunk(m.path, m.part, TRUE))
        /\ UNCHANGED <<corruptions, clientFile, clientUploads, failure>>
     \/ /\ Active(down) /\ ~LastPart(down, m.part)
        /\ Cancel = "progress"
        /\ CancelDownload(m.path)
        /\ UNCHANGED <<corruptions, failure>>
     \/ /\ ~Active(down)
        /\ Fail("client has no download state")
        /\ UNCHANGED <<corruptions, clientVars, toServer>>

ClientReceive ==
  /\ Running
  /\ toClient # <<>>
  /\ toClient' = Tail(toClient)
  /\ LET m == Head(toClient)
     IN \/ HandleUploadSizeReceived(m)
        \/ HandleAckOfUpload(m)
        \/ HandleDownloadSizeReceived(m)
        \/ HandleChunkOfDownload(m)
  /\ UNCHANGED <<starts, version, serverVars>>

-----------------------------------------------------------------------------
(* The server receives *)

(* A file already open for the path is replaced.                           *)
HandleUploadRequest(m) ==
  /\ m.type = "uploadRequest"
  /\ serverUploads' = [serverUploads EXCEPT ![m.path] = Progress(0, m.size)]
  /\ serverSave' = [serverSave EXCEPT ![m.path] = EmptySave]
  /\ toClient' = Append(toClient, [type |-> "uploadSize", path |-> m.path, total |-> m.size])
  /\ UNCHANGED <<corruptions, serverFile, serverDownloads, failure>>

PartOf(p, part) == ChunkTransfer(p, part, ReadPart(serverFile[p], part))

(* The first part follows the size at once.                                *)
HandleDownloadRequest(m) ==
  LET total == SizeInChunks(serverFile[m.path]) IN
  /\ m.type = "downloadRequest"
  /\ serverDownloads' = [serverDownloads EXCEPT ![m.path] = Progress(1, total)]
  /\ toClient' = toClient \o << [type |-> "downloadSize", path |-> m.path, total |-> total],
                                PartOf(m.path, 1) >>
  /\ UNCHANGED <<corruptions, serverFile, serverSave, serverUploads, failure>>

(* The chunk that completes the upload also commits the file.              *)
HandleChunkOfUpload(m) ==
  LET up   == serverUploads[m.path]
      save == WritePart(serverSave[m.path], m.part, m.data)
  IN
  /\ m.type = "chunk"
  /\ \/ /\ Active(up)
        /\ corruptions < MaxCorruptions
        /\ corruptions' = corruptions + 1
        /\ toClient' = Append(toClient, AckChunk(m.path, m.part, FALSE))
        /\ UNCHANGED <<serverVars, failure>>
     \/ /\ Active(up) /\ Completes(up, m.part)
        /\ serverFile' = [serverFile EXCEPT ![m.path] = save]
        /\ serverSave' = [serverSave EXCEPT ![m.path] = NoSave]
        /\ serverUploads' = [serverUploads EXCEPT ![m.path] = NoTransfer]
        /\ toClient' = Append(toClient, AckChunk(m.path, m.part, TRUE))
        /\ UNCHANGED <<corruptions, serverDownloads, failure>>
     \/ /\ Active(up) /\ ~Completes(up, m.part)
        /\ serverSave' = [serverSave EXCEPT ![m.path] = save]
        /\ serverUploads' = [serverUploads EXCEPT ![m.path].part = m.part]
        /\ toClient' = Append(toClient, AckChunk(m.path, m.part, TRUE))
        /\ UNCHANGED <<corruptions, serverFile, serverDownloads, failure>>
     \/ /\ ~Active(up)
        /\ Fail("server has no upload state")
        /\ UNCHANGED <<corruptions, serverVars, toClient>>

HandleAckOfDownload(m) ==
  LET down == serverDownloads[m.path] IN
  /\ m.type = "ack"
  /\ \/ /\ Active(down) /\ ~m.ok
        /\ toClient' = Append(toClient, PartOf(m.path, m.part))
        /\ UNCHANGED <<serverDownloads, failure>>
     \/ /\ Active(down) /\ m.ok /\ Completes(down, m.part)
        /\ serverDownloads' = [serverDownloads EXCEPT ![m.path] = NoTransfer]
        /\ UNCHANGED <<toClient, failure>>
     \/ /\ Active(down) /\ m.ok /\ ~Completes(down, m.part)
        /\ serverDownloads' = [serverDownloads EXCEPT ![m.path].part = m.part]
        /\ toClient' = Append(toClient, PartOf(m.path, Plus1(m.part)))
        /\ UNCHANGED failure
     \/ /\ ~Active(down)
        /\ Fail("server has no download state")
        /\ UNCHANGED <<serverDownloads, toClient>>
  /\ UNCHANGED <<corruptions, serverFile, serverSave, serverUploads>>

(* A cancelled upload loses what was written of it.                        *)
HandleCancelReceived(m) ==
  /\ m.type = "cancel"
  /\ \/ /\ Active(serverUploads[m.path])
        /\ serverUploads' = [serverUploads EXCEPT ![m.path] = NoTransfer]
        /\ serverSave' = [serverSave EXCEPT ![m.path] = NoSave]
        /\ UNCHANGED <<serverDownloads, failure>>
     \/ /\ ~Active(serverUploads[m.path]) /\ Active(serverDownloads[m.path])
        /\ serverDownloads' = [serverDownloads EXCEPT ![m.path] = NoTransfer]
        /\ UNCHANGED <<serverUploads, serverSave, failure>>
     \/ /\ ~Active(serverUploads[m.path]) /\ ~Active(serverDownloads[m.path])
        /\ Fail("nothing to cancel")
        /\ UNCHANGED <<serverUploads, serverDownloads, serverSave>>
  /\ UNCHANGED <<corruptions, serverFile, toClient>>

ServerReceive ==
  /\ Running
  /\ toServer # <<>>
  /\ toServer' = Tail(toServer)
  /\ LET m == Head(toServer)
     IN \/ HandleUploadRequest(m)
        \/ HandleDownloadRequest(m)
        \/ HandleChunkOfUpload(m)
        \/ HandleAckOfDownload(m)
        \/ HandleCancelReceived(m)
  /\ UNCHANGED <<starts, version, clientVars>>

-----------------------------------------------------------------------------
ClientMoves ==
  /\ Running
  /\ \E p \in Path : StartUpload(p) \/ StartDownload(p) \/ Rewrite(p) \/ CancelAnywhere(p)

Next == ClientMoves \/ ClientReceive \/ ServerReceive

Spec == Init /\ [][Next]_vars

(* Both ends read their sockets.                                           *)
FairSpec == Spec /\ WF_vars(ClientReceive) /\ WF_vars(ServerReceive)

-----------------------------------------------------------------------------
(* Properties *)

Progresses == [part : PartNumber, total : PartNumber] \cup {NoTransfer}

(* The variables stay in their types; part numbers stay below 2^32, and    *)
(* what is written of a file lies within the file.                         *)
TypeOK ==
  /\ starts \in 0..MaxStarts /\ corruptions \in 0..MaxCorruptions
  /\ version \in [Path -> 1..MaxStarts + 1]
  /\ \A f \in {clientFile, serverFile, clientSave, serverSave} :
       \A p \in Path : DOMAIN f[p] \subseteq 0..Chunks /\ \A i \in DOMAIN f[p] : f[p][i] \in Chunk
  /\ \A s \in {clientUploads, clientDownloads, serverUploads, serverDownloads} :
       s \in [Path -> Progresses]
  /\ \A i \in DOMAIN toServer : toServer[i].path \in Path
  /\ \A i \in DOMAIN toClient : toClient[i].path \in Path

(* A file that was transferred is whole: all its chunks are those of one   *)
(* version, each in its place, however many chunks were refused and sent   *)
(* again, and however many transfers were cancelled on the way.            *)
FilesAreWhole ==
  \A p \in Path : \A f \in {clientFile[p], serverFile[p]} :
    f = NoFile \/ \E v \in 1..version[p] : f = FileOf(v)

InFlight(channel, p, types) ==
  Cardinality({i \in DOMAIN channel : channel[i].path = p /\ channel[i].type \in types})

One(condition) == IF condition THEN 1 ELSE 0

(* Stop and wait: while the client uploads a file exactly one message of   *)
(* the upload is on its way, and none otherwise; the server sends a part   *)
(* only to a client that waits for it, and only with no acknowledgement of *)
(* the path left to read.                                                  *)
StopAndWait ==
  Running => \A p \in Path :
    /\ InFlight(toServer, p, {"uploadRequest", "chunk"})
         + InFlight(toClient, p, {"uploadSize", "ack"}) = One(Active(clientUploads[p]))
    /\ InFlight(toServer, p, {"downloadRequest"}) + InFlight(toClient, p, {"chunk"})
         <= One(Active(clientDownloads[p]))
    /\ InFlight(toServer, p, {"ack"}) + InFlight(toClient, p, {"chunk"}) <= 1

(* No assertion of either end fails.                                       *)
NothingFails == Running

(* When the client counts an upload as done the server has committed it.   *)
UploadedMeansCommitted ==
  [][\A p \in Path :
       Active(clientUploads[p]) /\ ~Active(clientUploads'[p]) /\ toServer' = toServer
       => serverFile[p] = clientFile[p]]_vars

(* A transfer the client starts ends, and both ends forget it.             *)
TransfersEnd ==
  \A p \in Path :
    ~Idle(p) ~> Idle(p) /\ ~Active(serverUploads[p]) /\ ~Active(serverDownloads[p])

(* A client with an empty file to upload sends nothing and goes on (the    *)
(* tests' account of the 0-byte upload).                                   *)
EmptyUploadIsSkipped == failure # "total chunks is zero"

(* A cancellation finds its transfer on the server (ChunkingServer's       *)
(* assertion).                                                             *)
CancelFindsTransfer == failure # "nothing to cancel"

(* The client opens a file to write only if none is open for the path      *)
(* (LocalFileStorage's assertion in beginWrite).                           *)
OneWriteAtATime ==
  [][\A p \in Path : starts' # starts /\ Idle(p) /\ ~Idle(p)' => clientSave[p] = NoSave]_vars
=============================================================================
