----------------------- MODULE ChunkedTransfer_proofs -----------------------
(***************************************************************************)
(* Files arrive whole, one message of a transfer is on its way at a time   *)
(* and no assertion fails, for every set of paths, number of chunks,       *)
(* starts and corruptions, as long as files have contents and a transfer   *)
(* is cancelled only in the handler of its progress.                       *)
(*                                                                         *)
(* The invariant gives each path a phase: which messages of it the two     *)
(* queues hold, which part they are of, what the two ends know of the      *)
(* transfer and what is written so far.  Every handler moves the path of   *)
(* its message from one phase to the next and leaves other paths alone.    *)
(***************************************************************************)
EXTENDS ChunkedTransfer, LocalFileStorage, FiniteSetTheorems, FunctionTheorems, TLAPS

-----------------------------------------------------------------------------
(***************************************************************************)
(* The messages of one path in a queue that many paths share: what sending *)
(* a message (Append) and taking one (Tail) does to them, and how many     *)
(* there are.  The invariant says of each path that a queue holds nothing  *)
(* of it, one message or a pair; these lemmas carry such statements from   *)
(* one state to the next.                                                  *)
(***************************************************************************)
NoneOf(q, p) == \A i \in DOMAIN q : q[i].path # p

OnlyOne(q, p, m) ==
  /\ m.path = p
  /\ \E k \in DOMAIN q : q[k] = m /\ \A i \in DOMAIN q : q[i].path = p => i = k

OnlyPair(q, p, m, n) ==
  /\ m.path = p /\ n.path = p
  /\ \E k, l \in DOMAIN q :
       k < l /\ q[k] = m /\ q[l] = n /\ \A i \in DOMAIN q : q[i].path = p => i \in {k, l}

(* From q to r nothing changes for the path.                               *)
Keeps(q, r, p) ==
  /\ NoneOf(q, p) => NoneOf(r, p)
  /\ \A m : OnlyOne(q, p, m) => OnlyOne(r, p, m)
  /\ \A m, n : OnlyPair(q, p, m, n) => OnlyPair(r, p, m, n)

(* Number of messages of a path that are of certain types.                 *)
Count(q, p, types) == Cardinality({i \in DOMAIN q : q[i].path = p /\ q[i].type \in types})

-----------------------------------------------------------------------------
(* What is sent to another path changes nothing.                           *)
LEMMA SendOther ==
  ASSUME NEW S, NEW q \in Seq(S), NEW x \in S, NEW p, x.path # p
  PROVE  Keeps(q, Append(q, x), p)
<1>. DEFINE r == Append(q, x)
<1>1. /\ DOMAIN q = 1..Len(q) /\ DOMAIN r = 1..(Len(q) + 1) /\ Len(q) \in Nat
      /\ r[Len(q) + 1] = x /\ \A i \in DOMAIN q : r[i] = q[i] /\ i \in DOMAIN r
      /\ \A i \in DOMAIN r : i \in DOMAIN q \/ r[i] = x
  OBVIOUS
<1>. HIDE DEF r
<1>2. NoneOf(q, p) => NoneOf(r, p)
  BY <1>1 DEF NoneOf
<1>3. ASSUME NEW m, OnlyOne(q, p, m)
      PROVE  OnlyOne(r, p, m)
  BY <1>1, <1>3 DEF OnlyOne
<1>4. ASSUME NEW m, NEW n, OnlyPair(q, p, m, n)
      PROVE  OnlyPair(r, p, m, n)
  BY <1>1, <1>4 DEF OnlyPair
<1>. QED
  BY <1>2, <1>3, <1>4 DEF Keeps, r

(* What is sent to the path comes last.                                    *)
LEMMA SendOwn ==
  ASSUME NEW S, NEW q \in Seq(S), NEW x \in S, NEW p, x.path = p
  PROVE  /\ NoneOf(q, p) => OnlyOne(Append(q, x), p, x)
         /\ \A m : OnlyOne(q, p, m) => OnlyPair(Append(q, x), p, m, x)
<1>. DEFINE r == Append(q, x)
<1>1. /\ DOMAIN q = 1..Len(q) /\ DOMAIN r = 1..(Len(q) + 1) /\ Len(q) \in Nat
      /\ r[Len(q) + 1] = x /\ \A i \in DOMAIN q : r[i] = q[i] /\ i \in DOMAIN r
      /\ Len(q) + 1 \in DOMAIN r
      /\ \A i \in DOMAIN r : i \in DOMAIN q \/ i = Len(q) + 1
      /\ \A i \in DOMAIN q : i < Len(q) + 1
  OBVIOUS
<1>. HIDE DEF r
<1>2. NoneOf(q, p) => OnlyOne(r, p, x)
  BY <1>1 DEF NoneOf, OnlyOne
<1>3. ASSUME NEW m, OnlyOne(q, p, m)
      PROVE  OnlyPair(r, p, m, x)
  BY <1>1, <1>3 DEF OnlyOne, OnlyPair
<1>. QED
  BY <1>2, <1>3 DEF r

(* Taking a message of another path changes nothing.                       *)
LEMMA TakeOther ==
  ASSUME NEW S, NEW q \in Seq(S), q # << >>, NEW p, Head(q).path # p
  PROVE  Keeps(q, Tail(q), p)
<1>. DEFINE r == Tail(q)
<1>1. /\ DOMAIN q = 1..Len(q) /\ Len(q) \in Nat \ {0} /\ DOMAIN r = 1..(Len(q) - 1)
      /\ q[1].path # p
      /\ \A i \in DOMAIN r : r[i] = q[i + 1] /\ i + 1 \in DOMAIN q /\ i \in Nat
      /\ \A i \in DOMAIN q : i = 1 \/ (i - 1 \in DOMAIN r /\ r[i - 1] = q[i])
  OBVIOUS
<1>. HIDE DEF r
<1>2. NoneOf(q, p) => NoneOf(r, p)
  BY <1>1 DEF NoneOf
<1>3. ASSUME NEW m, OnlyOne(q, p, m)
      PROVE  OnlyOne(r, p, m)
  <2>1. PICK k \in DOMAIN q : q[k] = m /\ \A i \in DOMAIN q : q[i].path = p => i = k
    BY <1>3 DEF OnlyOne
  <2>2. k - 1 \in DOMAIN r /\ r[k - 1] = m
    BY <1>1, <1>3, <2>1 DEF OnlyOne
  <2>3. \A i \in DOMAIN r : r[i].path = p => i = k - 1
    BY <1>1, <2>1
  <2>. QED
    BY <1>3, <2>2, <2>3 DEF OnlyOne
<1>4. ASSUME NEW m, NEW n, OnlyPair(q, p, m, n)
      PROVE  OnlyPair(r, p, m, n)
  <2>1. PICK k, l \in DOMAIN q : /\ k < l /\ q[k] = m /\ q[l] = n
                                 /\ \A i \in DOMAIN q : q[i].path = p => i \in {k, l}
    BY <1>4 DEF OnlyPair
  <2>2. /\ k - 1 \in DOMAIN r /\ r[k - 1] = m /\ l - 1 \in DOMAIN r /\ r[l - 1] = n
        /\ k - 1 < l - 1
    BY <1>1, <1>4, <2>1 DEF OnlyPair
  <2>3. \A i \in DOMAIN r : r[i].path = p => i \in {k - 1, l - 1}
    BY <1>1, <2>1
  <2>. QED
    BY <1>4, <2>2, <2>3 DEF OnlyPair
<1>. QED
  BY <1>2, <1>3, <1>4 DEF Keeps, r

(* Taking a message of the path takes the first of them.                   *)
LEMMA TakeOwn ==
  ASSUME NEW S, NEW q \in Seq(S), q # << >>, NEW p, Head(q).path = p
  PROVE  /\ ~NoneOf(q, p)
         /\ \A m : OnlyOne(q, p, m) => Head(q) = m /\ NoneOf(Tail(q), p)
         /\ \A m, n : OnlyPair(q, p, m, n) => Head(q) = m /\ OnlyOne(Tail(q), p, n)
<1>. DEFINE r == Tail(q)
<1>1. /\ DOMAIN q = 1..Len(q) /\ Len(q) \in Nat \ {0} /\ DOMAIN r = 1..(Len(q) - 1)
      /\ q[1].path = p /\ Head(q) = q[1] /\ 1 \in DOMAIN q
      /\ \A i \in DOMAIN r : r[i] = q[i + 1] /\ i + 1 \in DOMAIN q /\ i \in Nat /\ i > 0
      /\ \A i \in DOMAIN q : i = 1 \/ (i - 1 \in DOMAIN r /\ r[i - 1] = q[i] /\ i > 1)
  OBVIOUS
<1>. HIDE DEF r
<1>2. ~NoneOf(q, p)
  BY <1>1 DEF NoneOf
<1>3. ASSUME NEW m, OnlyOne(q, p, m)
      PROVE  Head(q) = m /\ NoneOf(r, p)
  <2>1. q[1] = m /\ \A i \in DOMAIN q : q[i].path = p => i = 1
    BY <1>1, <1>3 DEF OnlyOne
  <2>. QED
    BY <1>1, <2>1 DEF NoneOf
<1>4. ASSUME NEW m, NEW n, OnlyPair(q, p, m, n)
      PROVE  Head(q) = m /\ OnlyOne(r, p, n)
  <2>1. PICK k, l \in DOMAIN q : /\ k < l /\ q[k] = m /\ q[l] = n
                                 /\ \A i \in DOMAIN q : q[i].path = p => i \in {k, l}
    BY <1>4 DEF OnlyPair
  <2>2. k = 1
    BY <1>1, <2>1
  <2>3. l - 1 \in DOMAIN r /\ r[l - 1] = n
    BY <1>1, <2>1, <2>2
  <2>4. \A i \in DOMAIN r : r[i].path = p => i = l - 1
    BY <1>1, <2>1, <2>2
  <2>. QED
    BY <1>1, <1>4, <2>1, <2>2, <2>3, <2>4 DEF OnlyPair, OnlyOne
<1>. QED
  BY <1>2, <1>3, <1>4 DEF r

LEMMA KeepsTransitive ==
  ASSUME NEW q, NEW r, NEW s, NEW p, Keeps(q, r, p), Keeps(r, s, p)
  PROVE  Keeps(q, s, p)
BY DEF Keeps

-----------------------------------------------------------------------------
(* Two messages at once are one after the other.                           *)
LEMMA SendTwo ==
  ASSUME NEW S, NEW q \in Seq(S), NEW x \in S, NEW y \in S
  PROVE  q \o <<x, y>> = Append(Append(q, x), y)
OBVIOUS

(* How many there are of a kind.                                           *)
LEMMA Counts ==
  ASSUME NEW q, NEW p, NEW types
  PROVE  /\ NoneOf(q, p) => Count(q, p, types) = 0
         /\ \A m : OnlyOne(q, p, m) => Count(q, p, types) = IF m.type \in types THEN 1 ELSE 0
<1>. DEFINE C == {i \in DOMAIN q : q[i].path = p /\ q[i].type \in types}
<1>1. ASSUME C = {}
      PROVE  Count(q, p, types) = 0
  BY <1>1, FS_EmptySet DEF Count
<1>2. ASSUME NEW k, C = {k}
      PROVE  Count(q, p, types) = 1
  BY <1>2, FS_Singleton DEF Count
<1>3. NoneOf(q, p) => C = {}
  BY DEF NoneOf
<1>4. ASSUME NEW m, OnlyOne(q, p, m)
      PROVE  \/ m.type \in types /\ \E k : C = {k}
             \/ m.type \notin types /\ C = {}
  BY <1>4 DEF OnlyOne
<1>. QED
  BY <1>1, <1>2, <1>3, <1>4

LEMMA CountsOfPair ==
  ASSUME NEW S, NEW q \in Seq(S), NEW p, NEW types, NEW m, NEW n, OnlyPair(q, p, m, n)
  PROVE  Count(q, p, types) = (IF m.type \in types THEN 1 ELSE 0)
                                + (IF n.type \in types THEN 1 ELSE 0)
<1>. DEFINE C == {i \in DOMAIN q : q[i].path = p /\ q[i].type \in types}
<1>1. PICK k, l \in DOMAIN q : /\ k < l /\ q[k] = m /\ q[l] = n /\ m.path = p /\ n.path = p
                               /\ \A i \in DOMAIN q : q[i].path = p => i \in {k, l}
  BY DEF OnlyPair
<1>2. k # l
  BY <1>1
<1>3. Cardinality({}) = 0 /\ Cardinality({k}) = 1 /\ Cardinality({l}) = 1
  BY FS_EmptySet, FS_Singleton
<1>4. Cardinality({k} \cup {l}) = 2
  <2>1. IsFiniteSet({k})
    BY FS_Singleton, Zenon
  <2>2. Cardinality({k} \cup {l}) = IF l \in {k} THEN Cardinality({k}) ELSE Cardinality({k}) + 1
    BY <2>1, FS_AddElement, Zenon
  <2>3. Cardinality({k} \cup {l}) = 1 + 1
    BY <1>2, <1>3, <2>2, Zenon
  <2>4. 1 + 1 = 2
    OBVIOUS
  <2>. QED
    BY <2>3, <2>4, Zenon
<1>5. C = (IF m.type \in types THEN {k} ELSE {}) \cup (IF n.type \in types THEN {l} ELSE {})
  BY <1>1
<1>6. Count(q, p, types) = Cardinality(C)
  BY DEF Count
<1>. HIDE DEF C
<1>7. CASE m.type \in types /\ n.type \in types
  <2>1. C = {k} \cup {l}
    BY <1>5, <1>7, Zenon
  <2>2. Count(q, p, types) = 2
    BY <1>4, <1>6, <2>1, Zenon
  <2>. QED
    BY <1>7, <2>2
<1>8. CASE m.type \in types /\ n.type \notin types
  <2>1. C = {k}
    BY <1>5, <1>8
  <2>2. Count(q, p, types) = 1
    BY <1>3, <1>6, <2>1, Zenon
  <2>. QED
    BY <1>8, <2>2
<1>9. CASE m.type \notin types /\ n.type \in types
  <2>1. C = {l}
    BY <1>5, <1>9
  <2>2. Count(q, p, types) = 1
    BY <1>3, <1>6, <2>1, Zenon
  <2>. QED
    BY <1>9, <2>2
<1>10. CASE m.type \notin types /\ n.type \notin types
  <2>1. C = {}
    BY <1>5, <1>10
  <2>2. Count(q, p, types) = 0
    BY <1>3, <1>6, <2>1, Zenon
  <2>. QED
    BY <1>10, <2>2
<1>. QED
  BY <1>7, <1>8, <1>9, <1>10

-----------------------------------------------------------------------------
(* The transfers *)

(* What a file, or what is written of one, can be.                         *)
Written  == UNION {[S -> Chunk] : S \in SUBSET (1..Chunks)}
Contents == Written \cup {NoFile}

ChunkMsgs == {m \in [type : {"chunk"}, path : Path, part : PartNumber, data : Chunk] :
                m.data # NoChunk => m.part \in 1..Chunks}
AckMsgs   == [type : {"ack"}, path : Path, part : PartNumber, ok : BOOLEAN]

ToServerMsg == [type : {"uploadRequest"}, path : Path, size : PartNumber]
                 \cup [type : {"downloadRequest", "cancel"}, path : Path]
                 \cup ChunkMsgs \cup AckMsgs
ToClientMsg == [type : {"uploadSize", "downloadSize"}, path : Path, total : PartNumber]
                 \cup ChunkMsgs \cup AckMsgs

BoundsOK ==
  /\ starts \in 0..MaxStarts /\ corruptions \in 0..MaxCorruptions
  /\ version \in [Path -> 1..MaxStarts + 1]

ClientOK ==
  /\ clientFile \in [Path -> Contents] /\ clientSave \in [Path -> Contents]
  /\ clientUploads \in [Path -> Progresses] /\ clientDownloads \in [Path -> Progresses]
  /\ \A p \in Path : Active(clientDownloads[p]) => clientSave[p] \in Written

ServerOK ==
  /\ serverFile \in [Path -> Contents] /\ serverSave \in [Path -> Contents]
  /\ serverUploads \in [Path -> Progresses] /\ serverDownloads \in [Path -> Progresses]
  /\ \A p \in Path : Active(serverUploads[p]) => serverSave[p] \in Written

QueuesOK == toServer \in Seq(ToServerMsg) /\ toClient \in Seq(ToClientMsg)

TypeInv == BoundsOK /\ ClientOK /\ ServerOK /\ QueuesOK

-----------------------------------------------------------------------------
(* The phases of a path *)

Prefix(file, k) == [i \in 1..k |-> file[i]]

NoUpload(p) == ~Active(clientUploads[p]) /\ ~Active(serverUploads[p])
NoDownload(p) == ~Active(clientDownloads[p]) /\ ~Active(serverDownloads[p])

ServerOff(p) == ~Active(serverUploads[p]) /\ ~Active(serverDownloads[p])

AtRest(p) ==
  /\ NoneOf(toServer, p) /\ NoneOf(toClient, p)
  /\ Idle(p) /\ ServerOff(p)

(* The last message of a transfer the client has done with.                *)
Farewell(m, p) ==
  /\ ~Active(serverUploads[p]) \/ ~Active(serverDownloads[p])
  /\ \/ m = [type |-> "cancel", path |-> p] /\ ~ServerOff(p)
     \/ /\ m = AckChunk(p, Chunks, TRUE)
        /\ Active(serverDownloads[p]) /\ serverDownloads[p].total = Chunks

Leaving(p) ==
  /\ NoneOf(toClient, p) /\ Idle(p)
  /\ \E m : Farewell(m, p) /\ OnlyOne(toServer, p, m)

Asked(p, request) ==
  /\ NoneOf(toClient, p)
  /\ \/ ServerOff(p) /\ OnlyOne(toServer, p, request)
     \/ \E m : Farewell(m, p) /\ OnlyPair(toServer, p, m, request)

UploadAsked(p) ==
  /\ clientUploads[p] = Progress(1, 0) /\ ~Active(clientDownloads[p])
  /\ Asked(p, [type |-> "uploadRequest", path |-> p, size |-> Chunks])

(* The server has received k parts of the upload.                          *)
Uploading(p, k) ==
  /\ Active(clientUploads[p]) /\ clientUploads[p].total = Chunks /\ NoDownload(p)
  /\ serverUploads[p] = Progress(k, Chunks)
  /\ serverSave[p] = Prefix(clientFile[p], k)

UploadSized(p) ==
  /\ NoneOf(toServer, p)
  /\ OnlyOne(toClient, p, [type |-> "uploadSize", path |-> p, total |-> Chunks])
  /\ clientUploads[p] = Progress(1, 0) /\ NoDownload(p)
  /\ serverUploads[p] = Progress(0, Chunks) /\ serverSave[p] = EmptySave

UploadChunk(p) ==
  /\ NoneOf(toClient, p)
  /\ \E k \in 1..Chunks : /\ Uploading(p, k - 1)
                          /\ OnlyOne(toServer, p, ChunkTransfer(p, k, clientFile[p][k]))

UploadAck(p) ==
  /\ NoneOf(toServer, p)
  /\ \E k \in 1..Chunks :
       \/ k < Chunks /\ Uploading(p, k) /\ OnlyOne(toClient, p, AckChunk(p, k, TRUE))
       \/ Uploading(p, k - 1) /\ OnlyOne(toClient, p, AckChunk(p, k, FALSE))

Uploaded(p) ==
  /\ NoneOf(toServer, p)
  /\ OnlyOne(toClient, p, AckChunk(p, Chunks, TRUE))
  /\ Active(clientUploads[p]) /\ clientUploads[p].total = Chunks
  /\ NoDownload(p) /\ ~Active(serverUploads[p])
  /\ serverFile[p] = clientFile[p]

DownloadAsked(p) ==
  /\ clientDownloads[p] = Progress(1, 0) /\ ~Active(clientUploads[p])
  /\ clientSave[p] = EmptySave /\ serverFile[p] # NoFile
  /\ Asked(p, [type |-> "downloadRequest", path |-> p])

(* The client has received k parts of the download, and knows its size.    *)
Downloading(p, k, total) ==
  /\ Active(clientDownloads[p]) /\ clientDownloads[p].total = total /\ NoUpload(p)
  /\ Active(serverDownloads[p]) /\ serverDownloads[p].total = Chunks
  /\ serverFile[p] # NoFile /\ clientSave[p] = Prefix(serverFile[p], k)

DownloadSized(p) ==
  /\ NoneOf(toServer, p)
  /\ OnlyPair(toClient, p, [type |-> "downloadSize", path |-> p, total |-> Chunks],
                           ChunkTransfer(p, 1, serverFile[p][1]))
  /\ Downloading(p, 0, 0)

DownloadChunk(p) ==
  /\ NoneOf(toServer, p)
  /\ \E k \in 1..Chunks : /\ Downloading(p, k - 1, Chunks)
                          /\ OnlyOne(toClient, p, ChunkTransfer(p, k, serverFile[p][k]))

DownloadAck(p) ==
  /\ NoneOf(toClient, p)
  /\ \E k \in 1..Chunks :
       \/ k < Chunks /\ Downloading(p, k, Chunks) /\ OnlyOne(toServer, p, AckChunk(p, k, TRUE))
       \/ Downloading(p, k - 1, Chunks) /\ OnlyOne(toServer, p, AckChunk(p, k, FALSE))

Phase(p) ==
  \/ AtRest(p) \/ Leaving(p)
  \/ UploadAsked(p) \/ UploadSized(p) \/ UploadChunk(p) \/ UploadAck(p) \/ Uploaded(p)
  \/ DownloadAsked(p) \/ DownloadSized(p) \/ DownloadChunk(p) \/ DownloadAck(p)

Whole(file, p) == \E v \in 1..version[p] : file = FileOf(v)

IInv ==
  /\ TypeInv
  /\ Running
  /\ \A p \in Path : Whole(clientFile[p], p)
  /\ \A p \in Path : serverFile[p] = NoFile \/ Whole(serverFile[p], p)
  /\ \A p \in Path : Phase(p)

-----------------------------------------------------------------------------
(* Types, for any number of chunks and wherever transfers are cancelled *)

LEMMA PartsTyped ==
  /\ 0..(Chunks + 1) \subseteq PartNumber
  /\ \A k \in PartNumber : Plus1(k) \in PartNumber
  /\ \A k \in 0..Chunks : Plus1(k) = k + 1
BY ChunksAssumption DEF PartNumber, Plus1

LEMMA ProgressTyped ==
  /\ NoTransfer \in Progresses /\ ~Active(NoTransfer)
  /\ \A part, total \in PartNumber : /\ Progress(part, total) \in Progresses
                                     /\ Active(Progress(part, total))
  /\ \A s \in Progresses : Active(s) =>
       /\ s.part \in PartNumber /\ s.total \in PartNumber
       /\ s = Progress(s.part, s.total)
BY ChunksAssumption DEF Progresses, NoTransfer, Progress, Active, PartNumber

LEMMA FilesTyped ==
  /\ EmptySave \in Written
  /\ \A v \in 1..MaxStarts + 1 : FileOf(v) \in Written
  /\ NoFile \notin Written
<1>1. EmptySave \in [{} -> Chunk]
  BY DEF EmptySave
<1>2. ASSUME NEW v \in 1..MaxStarts + 1
      PROVE  FileOf(v) \in [1..Chunks -> Chunk]
  BY DEF FileOf, Chunk
<1>3. DOMAIN NoFile = {0}
  BY DEF NoFile
<1>4. ASSUME NEW f \in Written
      PROVE  DOMAIN f \subseteq 1..Chunks
  BY DEF Written
<1>5. ~({0} \subseteq 1..Chunks)
  BY ChunksAssumption
<1>. QED
  BY <1>1, <1>2, <1>3, <1>4, <1>5 DEF Written

(* Bytes that are written lie within the file.                             *)
LEMMA WritePartTyped ==
  ASSUME NEW save \in Written, NEW part, NEW data \in Chunk,
         data # NoChunk => part \in 1..Chunks
  PROVE  WritePart(save, part, data) \in Written
<1>1. CASE data = NoChunk
  BY <1>1 DEF WritePart
<1>2. CASE data # NoChunk
  <2>1. PICK S \in SUBSET (1..Chunks) : save \in [S -> Chunk]
    BY DEF Written
  <2>2. WritePart(save, part, data) \in [S \cup {part} -> Chunk]
    BY <1>2, <2>1 DEF WritePart
  <2>3. S \cup {part} \in SUBSET (1..Chunks)
    BY <1>2, <2>1
  <2>. QED
    BY <2>2, <2>3 DEF Written
<1>. QED
  BY <1>1, <1>2

LEMMA ReadPartTyped ==
  ASSUME NEW file \in Contents, NEW part
  PROVE  /\ ReadPart(file, part) \in Chunk
         /\ ReadPart(file, part) # NoChunk => part \in 1..Chunks
<1>1. NoChunk \in Chunk
  BY DEF Chunk
<1>2. CASE file # NoFile /\ part \in DOMAIN file
  <2>1. file \in Written
    BY <1>2 DEF Contents
  <2>2. PICK S \in SUBSET (1..Chunks) : file \in [S -> Chunk]
    BY <2>1 DEF Written
  <2>. QED
    BY <1>2, <2>2 DEF ReadPart
<1>. QED
  BY <1>1, <1>2 DEF ReadPart

LEMMA SizeTyped ==
  ASSUME NEW file \in Contents
  PROVE  SizeInChunks(file) \in 0..Chunks
<1>1. CASE file = NoFile
  BY <1>1, ChunksAssumption DEF SizeInChunks
<1>2. CASE file # NoFile
  <2>1. DOMAIN file \in SUBSET (1..Chunks)
    BY <1>2 DEF Contents, Written
  <2>2. IsFiniteSet(1..Chunks) /\ Cardinality(1..Chunks) = Chunks
    BY FS_Interval, ChunksAssumption
  <2>3. Cardinality(DOMAIN file) <= Chunks /\ IsFiniteSet(DOMAIN file)
    BY <2>1, <2>2, FS_Subset
  <2>4. Cardinality(DOMAIN file) \in Nat
    BY <2>3, FS_CardinalityType
  <2>. QED
    BY <1>2, <2>3, <2>4, ChunksAssumption DEF SizeInChunks
<1>. QED
  BY <1>1, <1>2

(* A chunk with what a storage reads, and an acknowledgement, are messages. *)
LEMMA MessagesTyped ==
  /\ \A p \in Path, k \in PartNumber, f \in Contents :
       ChunkTransfer(p, k, ReadPart(f, k)) \in ChunkMsgs
  /\ \A p \in Path, k \in PartNumber : ChunkTransfer(p, k, NoChunk) \in ChunkMsgs
  /\ \A p \in Path, k \in PartNumber, ok \in BOOLEAN : AckChunk(p, k, ok) \in AckMsgs
<1>1. ASSUME NEW p \in Path, NEW k \in PartNumber, NEW f \in Contents
      PROVE  ChunkTransfer(p, k, ReadPart(f, k)) \in ChunkMsgs
  BY ReadPartTyped DEF ChunkTransfer, ChunkMsgs
<1>2. NoChunk \in Chunk
  BY DEF Chunk
<1>. QED
  BY <1>1, <1>2 DEF ChunkTransfer, ChunkMsgs, AckChunk, AckMsgs

(* A message's type says which record it is.                               *)
LEMMA ToServerMsgOf ==
  ASSUME NEW m \in ToServerMsg
  PROVE  /\ m.path \in Path
         /\ m.type = "uploadRequest" => m.size \in PartNumber
         /\ m.type = "chunk" => m \in ChunkMsgs
         /\ m.type = "ack" => m \in AckMsgs
BY DEF ToServerMsg, ChunkMsgs, AckMsgs

LEMMA ToClientMsgOf ==
  ASSUME NEW m \in ToClientMsg
  PROVE  /\ m.path \in Path
         /\ m.type \in {"uploadSize", "downloadSize"} => m.total \in PartNumber
         /\ m.type = "chunk" => m \in ChunkMsgs
         /\ m.type = "ack" => m \in AckMsgs
BY DEF ToClientMsg, ChunkMsgs, AckMsgs

LEMMA InitTypeInv == Init => TypeInv
<1>. SUFFICES ASSUME Init PROVE TypeInv
  OBVIOUS
<1>1. BoundsOK
  BY BoundsAssumption DEF Init, BoundsOK
<1>2. 1 \in 1..MaxStarts + 1
  BY BoundsAssumption
<1>3. FileOf(1) \in Contents /\ NoFile \in Contents
  BY <1>2, FilesTyped DEF Contents
<1>4. ClientOK /\ ServerOK
  BY <1>3, ProgressTyped DEF Init, ClientOK, ServerOK, NoSave
<1>5. QueuesOK
  BY DEF Init, QueuesOK
<1>. QED
  BY <1>1, <1>4, <1>5 DEF TypeInv

LEMMA ClientMovesTyped ==
  ASSUME TypeInv, NEW p \in Path,
         StartUpload(p) \/ StartDownload(p) \/ Rewrite(p) \/ CancelAnywhere(p)
  PROVE  TypeInv'
<1>. USE DEF TypeInv
<1>0. 0 \in PartNumber /\ 1 \in PartNumber
  BY PartsTyped, ChunksAssumption
<1>1. Progress(1, 0) \in Progresses /\ EmptySave \in Written
  BY <1>0, ProgressTyped, FilesTyped
<1>2. EmptySave \in Contents /\ NoSave \in Contents
  BY <1>1 DEF Contents, NoSave
<1>3. CASE StartUpload(p)
  <2>1. BoundsOK'
    BY <1>3, BoundsAssumption DEF BoundsOK, StartUpload
  <2>2. ClientOK'
    BY <1>1, <1>2, <1>3 DEF ClientOK, StartUpload
  <2>3. SizeInChunks(clientFile[p]) \in PartNumber
    BY SizeTyped, PartsTyped, ChunksAssumption DEF ClientOK
  <2>4. QueuesOK'
    BY <1>3, <2>3 DEF QueuesOK, StartUpload, ToServerMsg
  <2>. QED
    BY <1>3, <2>1, <2>2, <2>4 DEF ServerOK, StartUpload, serverVars
<1>4. CASE StartDownload(p)
  <2>1. BoundsOK'
    BY <1>4, BoundsAssumption DEF BoundsOK, StartDownload
  <2>2. ClientOK'
    BY <1>1, <1>2, <1>4 DEF ClientOK, StartDownload
  <2>3. QueuesOK'
    BY <1>4 DEF QueuesOK, StartDownload, ToServerMsg
  <2>. QED
    BY <1>4, <2>1, <2>2, <2>3 DEF ServerOK, StartDownload, serverVars
<1>5. CASE Rewrite(p)
  <2>1. version[p] + 1 \in 1..MaxStarts + 1
    BY <1>5, BoundsAssumption DEF Rewrite, BoundsOK
  <2>2. FileOf(version[p] + 1) \in Contents
    BY <2>1, FilesTyped DEF Contents
  <2>3. BoundsOK'
    BY <1>5, <2>1 DEF Rewrite, BoundsOK
  <2>4. ClientOK'
    BY <1>5, <2>2 DEF Rewrite, ClientOK
  <2>. QED
    BY <1>5, <2>3, <2>4 DEF ServerOK, QueuesOK, Rewrite, serverVars
<1>6. CASE CancelAnywhere(p)
  <2>1. ClientOK' /\ QueuesOK'
    <3>1. CASE Active(clientUploads[p]) /\ CancelUpload(p)
      BY <1>6, <3>1, ProgressTyped DEF CancelUpload, CancelAnywhere, ClientOK, QueuesOK, ToServerMsg
    <3>2. CASE Active(clientDownloads[p]) /\ CancelDownload(p)
      BY <1>2, <1>6, <3>2, ProgressTyped DEF CancelDownload, CancelAnywhere, ClientOK, QueuesOK, ToServerMsg
    <3>. QED
      BY <1>6, <3>1, <3>2 DEF CancelAnywhere
  <2>. QED
    BY <1>6, <2>1 DEF CancelAnywhere, BoundsOK, ServerOK, boundVars, serverVars
<1>. QED
  BY <1>3, <1>4, <1>5, <1>6

(* What the client does with a message.                                    *)
LEMMA HandleUploadSizeTyped ==
  ASSUME TypeInv, NEW m \in ToClientMsg, HandleUploadSizeReceived(m)
  PROVE  ClientOK' /\ toServer' \in Seq(ToServerMsg) /\ corruptions' = corruptions
<1>. USE DEF TypeInv
<1>. DEFINE p == m.path
           up == clientUploads[p]
<1>1. p \in Path /\ m.total \in PartNumber /\ up \in Progresses /\ clientFile[p] \in Contents
  BY ToClientMsgOf DEF HandleUploadSizeReceived, ClientOK
<1>2. CASE Active(up) /\ m.total # 0 /\ clientUploads' = [clientUploads EXCEPT ![p].total = m.total]
             /\ SendPart(p, m.total, up.part)
  <2>1. up.part \in PartNumber /\ [up EXCEPT !.total = m.total] = Progress(up.part, m.total)
    BY <1>1, <1>2, ProgressTyped DEF Progress
  <2>2. [up EXCEPT !.total = m.total] \in Progresses
    BY <1>1, <2>1, ProgressTyped
  <2>3. clientUploads' \in [Path -> Progresses]
    BY <1>1, <1>2, <2>2 DEF ClientOK
  <2>4. ChunkTransfer(p, up.part, ReadPart(clientFile[p], up.part)) \in ToServerMsg
    BY <1>1, <2>1, MessagesTyped DEF ToServerMsg
  <2>5. toServer' \in Seq(ToServerMsg)
    BY <1>2, <2>4 DEF SendPart, QueuesOK
  <2>. QED
    BY <2>3, <2>5 DEF ClientOK, HandleUploadSizeReceived
<1>3. CASE UNCHANGED <<clientUploads, toServer>>
  BY <1>3 DEF ClientOK, QueuesOK, HandleUploadSizeReceived
<1>. QED
  BY <1>2, <1>3 DEF HandleUploadSizeReceived

LEMMA HandleAckOfUploadTyped ==
  ASSUME TypeInv, NEW m \in ToClientMsg, HandleAckOfUpload(m)
  PROVE  ClientOK' /\ toServer' \in Seq(ToServerMsg) /\ corruptions' = corruptions
<1>. USE DEF TypeInv
<1>. DEFINE p == m.path
           up == clientUploads[p]
<1>1. p \in Path /\ m.part \in PartNumber /\ up \in Progresses /\ clientFile[p] \in Contents
  BY ToClientMsgOf DEF HandleAckOfUpload, ClientOK, AckMsgs
<1>2. ASSUME NEW k \in PartNumber, SendPart(p, up.total, k)
      PROVE  toServer' \in Seq(ToServerMsg)
  <2>1. /\ ChunkTransfer(p, k, ReadPart(clientFile[p], k)) \in ToServerMsg
        /\ ChunkTransfer(p, k, NoChunk) \in ToServerMsg
    BY <1>1, MessagesTyped DEF ToServerMsg
  <2>. QED
    BY <1>2, <2>1 DEF SendPart, QueuesOK
<1>3. CASE SendPart(p, up.total, m.part) /\ UNCHANGED clientVars
  BY <1>1, <1>2, <1>3 DEF clientVars, ClientOK, HandleAckOfUpload
<1>4. CASE /\ clientUploads' = [clientUploads EXCEPT ![p] = NoTransfer]
           /\ UNCHANGED <<clientFile, clientSave, clientDownloads, toServer>>
  BY <1>4, ProgressTyped DEF ClientOK, QueuesOK, HandleAckOfUpload
<1>5. CASE /\ Active(up)
           /\ clientUploads' = [clientUploads EXCEPT ![p].part = m.part]
           /\ SendPart(p, up.total, Plus1(m.part))
           /\ UNCHANGED <<clientFile, clientSave, clientDownloads>>
  <2>1. up.total \in PartNumber /\ [up EXCEPT !.part = m.part] = Progress(m.part, up.total)
    BY <1>1, <1>5, ProgressTyped DEF Progress
  <2>2. [up EXCEPT !.part = m.part] \in Progresses
    BY <1>1, <2>1, ProgressTyped
  <2>3. clientUploads' \in [Path -> Progresses]
    BY <1>1, <1>5, <2>2 DEF ClientOK
  <2>4. toServer' \in Seq(ToServerMsg)
    BY <1>1, <1>2, <1>5, PartsTyped
  <2>. QED
    BY <1>5, <2>3, <2>4 DEF ClientOK, HandleAckOfUpload
<1>6. CASE CancelUpload(p)
  <2>1. [type |-> "cancel", path |-> p] \in ToServerMsg
    BY <1>1 DEF ToServerMsg
  <2>2. ClientOK'
    BY <1>1, <1>6, ProgressTyped DEF CancelUpload, ClientOK
  <2>3. toServer' \in Seq(ToServerMsg)
    BY <1>6, <2>1 DEF CancelUpload, QueuesOK
  <2>. QED
    BY <2>2, <2>3 DEF HandleAckOfUpload
<1>7. CASE UNCHANGED <<clientVars, toServer>>
  BY <1>7 DEF clientVars, ClientOK, QueuesOK, HandleAckOfUpload
<1>. QED
  BY <1>3, <1>4, <1>5, <1>6, <1>7 DEF HandleAckOfUpload

LEMMA HandleDownloadSizeTyped ==
  ASSUME TypeInv, NEW m \in ToClientMsg, HandleDownloadSizeReceived(m)
  PROVE  ClientOK' /\ toServer' \in Seq(ToServerMsg) /\ corruptions' = corruptions
<1>. USE DEF TypeInv
<1>. DEFINE p == m.path
           down == clientDownloads[p]
<1>1. p \in Path /\ m.total \in PartNumber /\ down \in Progresses
  BY ToClientMsgOf DEF HandleDownloadSizeReceived, ClientOK
<1>2. CASE Active(down) /\ clientDownloads' = [clientDownloads EXCEPT ![p].total = m.total]
  <2>1. down.part \in PartNumber /\ [down EXCEPT !.total = m.total] = Progress(down.part, m.total)
    BY <1>1, <1>2, ProgressTyped DEF Progress
  <2>2. [down EXCEPT !.total = m.total] \in Progresses
    BY <1>1, <2>1, ProgressTyped
  <2>3. clientDownloads' \in [Path -> Progresses]
    BY <1>1, <1>2, <2>2 DEF ClientOK
  <2>. QED
    BY <1>2, <2>3 DEF ClientOK, QueuesOK, HandleDownloadSizeReceived
<1>3. CASE UNCHANGED clientDownloads
  BY <1>3 DEF ClientOK, QueuesOK, HandleDownloadSizeReceived
<1>. QED
  BY <1>2, <1>3 DEF HandleDownloadSizeReceived

LEMMA PlaceTyped ==
  ASSUME NEW down, NEW m \in ChunkMsgs
  PROVE  m.data # NoChunk => PlaceOf(down, m.part) \in 1..Chunks
BY ChunksAssumption DEF PlaceOf, ChunkMsgs

LEMMA HandleChunkOfDownloadTyped ==
  ASSUME TypeInv, NEW m \in ToClientMsg, HandleChunkOfDownload(m)
  PROVE  ClientOK' /\ toServer' \in Seq(ToServerMsg) /\ corruptions' \in 0..MaxCorruptions
<1>. USE DEF TypeInv
<1>. DEFINE p == m.path
           down == clientDownloads[p]
           saved == WritePart(clientSave[p], PlaceOf(down, m.part), m.data)
<1>1. /\ p \in Path /\ m \in ChunkMsgs /\ m.part \in PartNumber /\ m.data \in Chunk
      /\ down \in Progresses
  BY ToClientMsgOf DEF HandleChunkOfDownload, ClientOK, ChunkMsgs
<1>2. ASSUME NEW ok \in BOOLEAN, toServer' = Append(toServer, AckChunk(p, m.part, ok))
      PROVE  toServer' \in Seq(ToServerMsg)
  <2>. DEFINE ack == AckChunk(p, m.part, ok)
  <2>1. ack \in ToServerMsg
    BY <1>1, MessagesTyped DEF ToServerMsg
  <2>2. toServer' = Append(toServer, ack)
    BY <1>2
  <2>. HIDE DEF ack
  <2>. QED
    BY <2>1, <2>2 DEF QueuesOK
<1>3. Active(down) => saved \in Written
  <2>. SUFFICES ASSUME Active(down) PROVE saved \in Written
    OBVIOUS
  <2>1. clientSave[p] \in Written
    BY <1>1 DEF ClientOK
  <2>2. m.data # NoChunk => PlaceOf(down, m.part) \in 1..Chunks
    BY <1>1, PlaceTyped
  <2>. HIDE DEF p, down
  <2>. QED
    BY <1>1, <2>1, <2>2, WritePartTyped
<1>4. NoSave \in Contents
  BY DEF Contents, NoSave
<1>. HIDE DEF saved
<1>5. CASE /\ corruptions < MaxCorruptions /\ corruptions' = corruptions + 1
           /\ toServer' = Append(toServer, AckChunk(p, m.part, FALSE))
           /\ UNCHANGED clientVars
  <2>1. corruptions' \in 0..MaxCorruptions
    BY <1>5, BoundsAssumption DEF BoundsOK
  <2>2. toServer' \in Seq(ToServerMsg)
    BY <1>2, <1>5
  <2>3. ClientOK'
    BY <1>5 DEF clientVars, ClientOK
  <2>. QED
    BY <2>1, <2>2, <2>3
<1>6. CASE /\ Active(down)
           /\ clientFile' = [clientFile EXCEPT ![p] = saved]
           /\ clientSave' = [clientSave EXCEPT ![p] = NoSave]
           /\ clientDownloads' = [clientDownloads EXCEPT ![p] = NoTransfer]
           /\ toServer' = Append(toServer, AckChunk(p, m.part, TRUE))
           /\ UNCHANGED <<corruptions, clientUploads>>
  <2>1. saved \in Contents
    BY <1>3, <1>6 DEF Contents
  <2>2. ClientOK'
    BY <1>1, <1>4, <1>6, <2>1, ProgressTyped DEF ClientOK
  <2>3. toServer' \in Seq(ToServerMsg)
    BY <1>2, <1>6
  <2>. QED
    BY <1>6, <2>2, <2>3 DEF BoundsOK
<1>7. CASE /\ Active(down)
           /\ clientSave' = [clientSave EXCEPT ![p] = saved]
           /\ clientDownloads' = [clientDownloads EXCEPT ![p].part = Plus1(m.part)]
           /\ toServer' = Append(toServer, AckChunk(p, m.part, TRUE))
           /\ UNCHANGED <<corruptions, clientFile, clientUploads>>
  <2>1. saved \in Contents /\ saved \in Written
    BY <1>3, <1>7 DEF Contents
  <2>2. /\ down.total \in PartNumber /\ Plus1(m.part) \in PartNumber
        /\ [down EXCEPT !.part = Plus1(m.part)] = Progress(Plus1(m.part), down.total)
    BY <1>1, <1>7, ProgressTyped, PartsTyped DEF Progress
  <2>3. [down EXCEPT !.part = Plus1(m.part)] \in Progresses
    BY <2>2, ProgressTyped
  <2>4. ClientOK'
    BY <1>1, <1>7, <2>1, <2>3 DEF ClientOK
  <2>5. toServer' \in Seq(ToServerMsg)
    BY <1>2, <1>7
  <2>. QED
    BY <1>7, <2>4, <2>5 DEF BoundsOK
<1>8. CASE CancelDownload(p) /\ UNCHANGED corruptions
  <2>1. [type |-> "cancel", path |-> p] \in ToServerMsg
    BY <1>1 DEF ToServerMsg
  <2>2. ClientOK'
    BY <1>1, <1>4, <1>8, ProgressTyped DEF CancelDownload, ClientOK
  <2>3. toServer' \in Seq(ToServerMsg)
    BY <1>8, <2>1 DEF CancelDownload, QueuesOK
  <2>. QED
    BY <1>8, <2>2, <2>3 DEF BoundsOK
<1>9. CASE UNCHANGED <<corruptions, clientVars, toServer>>
  BY <1>9 DEF clientVars, ClientOK, QueuesOK, BoundsOK
<1>. QED
  BY <1>5, <1>6, <1>7, <1>8, <1>9 DEF HandleChunkOfDownload, saved

LEMMA ClientReceiveTyped ==
  ASSUME TypeInv, ClientReceive
  PROVE  TypeInv'
<1>. DEFINE m == Head(toClient)
<1>1. m \in ToClientMsg /\ toClient' \in Seq(ToClientMsg)
  BY DEF ClientReceive, TypeInv, QueuesOK
<1>2. ClientOK' /\ toServer' \in Seq(ToServerMsg) /\ corruptions' \in 0..MaxCorruptions
  <2>. HIDE DEF m
  <2>1. corruptions \in 0..MaxCorruptions
    BY DEF TypeInv, BoundsOK
  <2>2. CASE HandleUploadSizeReceived(m)
    BY <1>1, <2>1, <2>2, HandleUploadSizeTyped
  <2>3. CASE HandleAckOfUpload(m)
    BY <1>1, <2>1, <2>3, HandleAckOfUploadTyped
  <2>4. CASE HandleDownloadSizeReceived(m)
    BY <1>1, <2>1, <2>4, HandleDownloadSizeTyped
  <2>5. CASE HandleChunkOfDownload(m)
    BY <1>1, <2>5, HandleChunkOfDownloadTyped
  <2>. QED
    BY <2>2, <2>3, <2>4, <2>5 DEF ClientReceive, m
<1>. QED
  BY <1>1, <1>2 DEF TypeInv, BoundsOK, ServerOK, QueuesOK, ClientReceive, serverVars

(* What the server does with a message.                                    *)
LEMMA ServerSends ==
  ASSUME QueuesOK, NEW x \in ToClientMsg, toClient' = Append(toClient, x)
  PROVE  toClient' \in Seq(ToClientMsg)
BY DEF QueuesOK

LEMMA HandleUploadRequestTyped ==
  ASSUME TypeInv, NEW m \in ToServerMsg, HandleUploadRequest(m)
  PROVE  ServerOK' /\ toClient' \in Seq(ToClientMsg) /\ corruptions' = corruptions
<1>. USE DEF TypeInv
<1>1. m.path \in Path /\ m.size \in PartNumber /\ 0 \in PartNumber
  BY ToServerMsgOf, PartsTyped, ChunksAssumption DEF HandleUploadRequest
<1>2. Progress(0, m.size) \in Progresses /\ EmptySave \in Written /\ EmptySave \in Contents
  BY <1>1, ProgressTyped, FilesTyped DEF Contents
<1>3. ServerOK'
  BY <1>1, <1>2 DEF HandleUploadRequest, ServerOK
<1>4. [type |-> "uploadSize", path |-> m.path, total |-> m.size] \in ToClientMsg
  BY <1>1 DEF ToClientMsg
<1>5. toClient' \in Seq(ToClientMsg)
  BY <1>4, ServerSends DEF HandleUploadRequest
<1>. QED
  BY <1>3, <1>5 DEF HandleUploadRequest

LEMMA HandleDownloadRequestTyped ==
  ASSUME TypeInv, NEW m \in ToServerMsg, HandleDownloadRequest(m)
  PROVE  ServerOK' /\ toClient' \in Seq(ToClientMsg) /\ corruptions' = corruptions
<1>. USE DEF TypeInv
<1>. DEFINE total == SizeInChunks(serverFile[m.path])
           size == [type |-> "downloadSize", path |-> m.path, total |-> total]
           first == PartOf(m.path, 1)
<1>1. m.path \in Path /\ total \in PartNumber /\ 1 \in PartNumber
  BY ToServerMsgOf, SizeTyped, PartsTyped, ChunksAssumption DEF HandleDownloadRequest, ServerOK
<1>2. Progress(1, total) \in Progresses
  BY <1>1, ProgressTyped
<1>3. ServerOK'
  BY <1>1, <1>2 DEF HandleDownloadRequest, ServerOK
<1>4. size \in ToClientMsg
  BY <1>1 DEF ToClientMsg
<1>5. first \in ToClientMsg
  BY <1>1, MessagesTyped DEF PartOf, ToClientMsg, ServerOK
<1>6. toClient' = toClient \o <<size, first>>
  BY DEF HandleDownloadRequest
<1>. HIDE DEF size, first
<1>7. toClient' \in Seq(ToClientMsg)
  BY <1>4, <1>5, <1>6 DEF QueuesOK
<1>. QED
  BY <1>3, <1>7 DEF HandleDownloadRequest

LEMMA HandleChunkOfUploadTyped ==
  ASSUME TypeInv, NEW m \in ToServerMsg, HandleChunkOfUpload(m)
  PROVE  ServerOK' /\ toClient' \in Seq(ToClientMsg) /\ corruptions' \in 0..MaxCorruptions
<1>. USE DEF TypeInv
<1>. DEFINE p == m.path
           up == serverUploads[p]
           saved == WritePart(serverSave[p], m.part, m.data)
<1>1. /\ p \in Path /\ m \in ChunkMsgs /\ m.part \in PartNumber /\ m.data \in Chunk
      /\ up \in Progresses /\ (m.data # NoChunk => m.part \in 1..Chunks)
  BY ToServerMsgOf DEF HandleChunkOfUpload, ServerOK, ChunkMsgs
<1>2. ASSUME NEW ok \in BOOLEAN, toClient' = Append(toClient, AckChunk(p, m.part, ok))
      PROVE  toClient' \in Seq(ToClientMsg)
  BY <1>1, <1>2, MessagesTyped, ServerSends DEF ToClientMsg
<1>3. Active(up) => saved \in Written
  <2>. SUFFICES ASSUME Active(up) PROVE saved \in Written
    OBVIOUS
  <2>1. serverSave[p] \in Written
    BY <1>1 DEF ServerOK
  <2>. HIDE DEF p, up
  <2>. QED
    BY <1>1, <2>1, WritePartTyped
<1>4. NoSave \in Contents
  BY DEF Contents, NoSave
<1>. HIDE DEF saved
<1>5. CASE /\ corruptions < MaxCorruptions /\ corruptions' = corruptions + 1
           /\ toClient' = Append(toClient, AckChunk(p, m.part, FALSE))
           /\ UNCHANGED serverVars
  <2>1. corruptions' \in 0..MaxCorruptions
    BY <1>5, BoundsAssumption DEF BoundsOK
  <2>2. toClient' \in Seq(ToClientMsg)
    BY <1>2, <1>5
  <2>3. ServerOK'
    BY <1>5 DEF serverVars, ServerOK
  <2>. QED
    BY <2>1, <2>2, <2>3
<1>6. CASE /\ Active(up)
           /\ serverFile' = [serverFile EXCEPT ![p] = saved]
           /\ serverSave' = [serverSave EXCEPT ![p] = NoSave]
           /\ serverUploads' = [serverUploads EXCEPT ![p] = NoTransfer]
           /\ toClient' = Append(toClient, AckChunk(p, m.part, TRUE))
           /\ UNCHANGED <<corruptions, serverDownloads>>
  <2>1. saved \in Contents
    BY <1>3, <1>6 DEF Contents
  <2>2. ServerOK'
    BY <1>1, <1>4, <1>6, <2>1, ProgressTyped DEF ServerOK
  <2>3. toClient' \in Seq(ToClientMsg)
    BY <1>2, <1>6
  <2>. QED
    BY <1>6, <2>2, <2>3 DEF BoundsOK
<1>7. CASE /\ Active(up)
           /\ serverSave' = [serverSave EXCEPT ![p] = saved]
           /\ serverUploads' = [serverUploads EXCEPT ![p].part = m.part]
           /\ toClient' = Append(toClient, AckChunk(p, m.part, TRUE))
           /\ UNCHANGED <<corruptions, serverFile, serverDownloads>>
  <2>1. saved \in Contents /\ saved \in Written
    BY <1>3, <1>7 DEF Contents
  <2>2. up.total \in PartNumber /\ [up EXCEPT !.part = m.part] = Progress(m.part, up.total)
    BY <1>1, <1>7, ProgressTyped DEF Progress
  <2>3. [up EXCEPT !.part = m.part] \in Progresses
    BY <1>1, <2>2, ProgressTyped
  <2>4. ServerOK'
    BY <1>1, <1>7, <2>1, <2>3 DEF ServerOK
  <2>5. toClient' \in Seq(ToClientMsg)
    BY <1>2, <1>7
  <2>. QED
    BY <1>7, <2>4, <2>5 DEF BoundsOK
<1>8. CASE UNCHANGED <<corruptions, serverVars, toClient>>
  BY <1>8 DEF serverVars, ServerOK, QueuesOK, BoundsOK
<1>. QED
  BY <1>5, <1>6, <1>7, <1>8 DEF HandleChunkOfUpload, saved

LEMMA HandleAckOfDownloadTyped ==
  ASSUME TypeInv, NEW m \in ToServerMsg, HandleAckOfDownload(m)
  PROVE  ServerOK' /\ toClient' \in Seq(ToClientMsg) /\ corruptions' = corruptions
<1>. USE DEF TypeInv
<1>. DEFINE p == m.path
           down == serverDownloads[p]
<1>1. p \in Path /\ m.part \in PartNumber /\ down \in Progresses /\ serverFile[p] \in Contents
  BY ToServerMsgOf DEF HandleAckOfDownload, ServerOK, AckMsgs
<1>2. ASSUME NEW k \in PartNumber, toClient' = Append(toClient, PartOf(p, k))
      PROVE  toClient' \in Seq(ToClientMsg)
  <2>1. PartOf(p, k) \in ToClientMsg
    BY <1>1, MessagesTyped DEF PartOf, ToClientMsg
  <2>. QED
    BY <1>2, <2>1, ServerSends
<1>3. corruptions' = corruptions /\ UNCHANGED <<serverFile, serverSave, serverUploads>>
  BY DEF HandleAckOfDownload
<1>4. CASE toClient' = Append(toClient, PartOf(p, m.part)) /\ UNCHANGED serverDownloads
  BY <1>1, <1>2, <1>3, <1>4 DEF ServerOK
<1>5. CASE serverDownloads' = [serverDownloads EXCEPT ![p] = NoTransfer] /\ UNCHANGED toClient
  BY <1>3, <1>5, ProgressTyped DEF ServerOK, QueuesOK
<1>6. CASE /\ Active(down)
           /\ serverDownloads' = [serverDownloads EXCEPT ![p].part = m.part]
           /\ toClient' = Append(toClient, PartOf(p, Plus1(m.part)))
  <2>1. down.total \in PartNumber /\ [down EXCEPT !.part = m.part] = Progress(m.part, down.total)
    BY <1>1, <1>6, ProgressTyped DEF Progress
  <2>2. [down EXCEPT !.part = m.part] \in Progresses
    BY <1>1, <2>1, ProgressTyped
  <2>3. ServerOK'
    BY <1>1, <1>3, <1>6, <2>2 DEF ServerOK
  <2>4. toClient' \in Seq(ToClientMsg)
    BY <1>1, <1>2, <1>6, PartsTyped
  <2>. QED
    BY <1>3, <2>3, <2>4
<1>7. CASE UNCHANGED <<serverDownloads, toClient>>
  BY <1>3, <1>7 DEF ServerOK, QueuesOK
<1>. QED
  BY <1>4, <1>5, <1>6, <1>7 DEF HandleAckOfDownload

LEMMA HandleCancelTyped ==
  ASSUME TypeInv, NEW m \in ToServerMsg, HandleCancelReceived(m)
  PROVE  ServerOK' /\ toClient' \in Seq(ToClientMsg) /\ corruptions' = corruptions
<1>. USE DEF TypeInv
<1>1. m.path \in Path /\ NoSave \in Contents
  BY ToServerMsgOf DEF Contents, NoSave
<1>2. NoTransfer \in Progresses /\ ~Active(NoTransfer)
  BY ProgressTyped
<1>3. corruptions' = corruptions /\ toClient' = toClient /\ serverFile' = serverFile
  BY DEF HandleCancelReceived
<1>4. CASE /\ serverUploads' = [serverUploads EXCEPT ![m.path] = NoTransfer]
           /\ serverSave' = [serverSave EXCEPT ![m.path] = NoSave]
           /\ UNCHANGED serverDownloads
  BY <1>1, <1>2, <1>3, <1>4 DEF ServerOK, QueuesOK
<1>5. CASE /\ serverDownloads' = [serverDownloads EXCEPT ![m.path] = NoTransfer]
           /\ UNCHANGED <<serverUploads, serverSave>>
  BY <1>1, <1>2, <1>3, <1>5 DEF ServerOK, QueuesOK
<1>6. CASE UNCHANGED <<serverUploads, serverDownloads, serverSave>>
  BY <1>3, <1>6 DEF ServerOK, QueuesOK
<1>. QED
  BY <1>4, <1>5, <1>6 DEF HandleCancelReceived

LEMMA ServerReceiveTyped ==
  ASSUME TypeInv, ServerReceive
  PROVE  TypeInv'
<1>. DEFINE m == Head(toServer)
<1>1. m \in ToServerMsg /\ toServer' \in Seq(ToServerMsg)
  BY DEF ServerReceive, TypeInv, QueuesOK
<1>2. ServerOK' /\ toClient' \in Seq(ToClientMsg) /\ corruptions' \in 0..MaxCorruptions
  <2>. HIDE DEF m
  <2>1. corruptions \in 0..MaxCorruptions
    BY DEF TypeInv, BoundsOK
  <2>2. CASE HandleUploadRequest(m)
    BY <1>1, <2>1, <2>2, HandleUploadRequestTyped
  <2>3. CASE HandleDownloadRequest(m)
    BY <1>1, <2>1, <2>3, HandleDownloadRequestTyped
  <2>4. CASE HandleChunkOfUpload(m)
    BY <1>1, <2>4, HandleChunkOfUploadTyped
  <2>5. CASE HandleAckOfDownload(m)
    BY <1>1, <2>1, <2>5, HandleAckOfDownloadTyped
  <2>6. CASE HandleCancelReceived(m)
    BY <1>1, <2>1, <2>6, HandleCancelTyped
  <2>. QED
    BY <2>2, <2>3, <2>4, <2>5, <2>6 DEF ServerReceive, m
<1>. QED
  BY <1>1, <1>2 DEF TypeInv, BoundsOK, ClientOK, QueuesOK, ServerReceive, clientVars

LEMMA TypeInvStep == TypeInv /\ [Next]_vars => TypeInv'
<1>. SUFFICES ASSUME TypeInv, [Next]_vars PROVE TypeInv'
  OBVIOUS
<1>1. CASE UNCHANGED vars
  BY <1>1 DEF TypeInv, vars, boundVars, clientVars, serverVars, BoundsOK, ClientOK, ServerOK, QueuesOK
<1>2. CASE ClientMoves
  BY <1>2, ClientMovesTyped DEF ClientMoves
<1>. QED
  BY <1>1, <1>2, ClientReceiveTyped, ServerReceiveTyped DEF Next

(* Part numbers stay below 2^32 and what is written of a file lies within  *)
(* the file, whatever is cancelled when (TypeOK).                          *)
THEOREM TypeCorrect == Spec => []TypeOK
<1>1. TypeInv => TypeOK
  <2>. SUFFICES ASSUME TypeInv PROVE TypeOK
    OBVIOUS
  <2>1. ASSUME NEW c \in Contents
        PROVE  DOMAIN c \subseteq 0..Chunks /\ \A i \in DOMAIN c : c[i] \in Chunk
    <3>1. CASE c = NoFile
      BY <3>1, ChunksAssumption DEF NoFile, Chunk
    <3>2. CASE c \in Written
      <4>1. PICK S \in SUBSET (1..Chunks) : c \in [S -> Chunk]
        BY <3>2 DEF Written
      <4>2. 1..Chunks \subseteq 0..Chunks
        BY ChunksAssumption
      <4>. QED
        BY <4>1, <4>2
    <3>. QED
      BY <3>1, <3>2 DEF Contents
  <2>2. \A f \in {clientFile, serverFile, clientSave, serverSave} : f \in [Path -> Contents]
    BY DEF TypeInv, ClientOK, ServerOK
  <2>3. /\ \A i \in DOMAIN toServer : toServer[i].path \in Path
        /\ \A i \in DOMAIN toClient : toClient[i].path \in Path
    BY ToServerMsgOf, ToClientMsgOf DEF TypeInv, QueuesOK
  <2>. QED
    BY <2>1, <2>2, <2>3 DEF TypeOK, TypeInv, BoundsOK, ClientOK, ServerOK
<1>. QED
  BY <1>1, InitTypeInv, TypeInvStep, PTL DEF Spec

-----------------------------------------------------------------------------
(* Phases, for files with contents and transfers that are cancelled in     *)
(* their progress handlers                                                 *)

Regime == Chunks # 0 /\ Cancel # "anywhere"

(* What the two ends have of a path stays as it is.                        *)
Same(p) ==
  /\ clientFile'[p] = clientFile[p] /\ clientSave'[p] = clientSave[p]
  /\ clientUploads'[p] = clientUploads[p] /\ clientDownloads'[p] = clientDownloads[p]
  /\ serverFile'[p] = serverFile[p] /\ serverSave'[p] = serverSave[p]
  /\ serverUploads'[p] = serverUploads[p] /\ serverDownloads'[p] = serverDownloads[p]

LEMMA PhaseKept ==
  ASSUME NEW p, Phase(p), Same(p),
         Keeps(toServer, toServer', p), Keeps(toClient, toClient', p)
  PROVE  Phase(p)'
<1>1. ASSUME NEW m, Farewell(m, p)
      PROVE  Farewell(m, p)'
  BY <1>1 DEF Same, Farewell, ServerOff
<1>2. ASSUME NEW k, Uploading(p, k)
      PROVE  Uploading(p, k)'
  BY <1>2 DEF Same, Uploading, NoDownload, Prefix
<1>3. ASSUME NEW k, NEW total, Downloading(p, k, total)
      PROVE  Downloading(p, k, total)'
  BY <1>3 DEF Same, Downloading, NoUpload, Prefix
<1>4. /\ NoneOf(toServer, p) => NoneOf(toServer, p)'
      /\ NoneOf(toClient, p) => NoneOf(toClient, p)'
  BY DEF Keeps, NoneOf
<1>5. ASSUME NEW m
      PROVE  /\ OnlyOne(toServer, p, m) => OnlyOne(toServer', p, m)
             /\ OnlyOne(toClient, p, m) => OnlyOne(toClient', p, m)
  BY DEF Keeps
<1>6. ASSUME NEW m, NEW n
      PROVE  /\ OnlyPair(toServer, p, m, n) => OnlyPair(toServer', p, m, n)
             /\ OnlyPair(toClient, p, m, n) => OnlyPair(toClient', p, m, n)
  BY DEF Keeps
<1>7. ASSUME NEW request, Asked(p, request)
      PROVE  Asked(p, request)'
  BY <1>1, <1>4, <1>5, <1>6, <1>7 DEF Asked, ServerOff, Same
<1>8. CASE AtRest(p)
  BY <1>4, <1>8 DEF AtRest, Idle, ServerOff, Same, Phase
<1>9. CASE Leaving(p)
  BY <1>1, <1>4, <1>5, <1>9 DEF Leaving, Idle, Same, Phase
<1>10. CASE UploadAsked(p)
  BY <1>7, <1>10 DEF UploadAsked, Same, Phase
<1>11. CASE UploadSized(p)
  BY <1>4, <1>5, <1>11 DEF UploadSized, NoDownload, Same, Phase
<1>12. CASE UploadChunk(p)
  BY <1>2, <1>4, <1>5, <1>12 DEF UploadChunk, Same, Phase
<1>13. CASE UploadAck(p)
  BY <1>2, <1>4, <1>5, <1>13 DEF UploadAck, Phase
<1>14. CASE Uploaded(p)
  BY <1>4, <1>5, <1>14 DEF Uploaded, NoDownload, Same, Phase
<1>15. CASE DownloadAsked(p)
  BY <1>7, <1>15 DEF DownloadAsked, Same, Phase
<1>16. CASE DownloadSized(p)
  BY <1>3, <1>4, <1>6, <1>16 DEF DownloadSized, Same, Phase
<1>17. CASE DownloadChunk(p)
  BY <1>3, <1>4, <1>5, <1>17 DEF DownloadChunk, Same, Phase
<1>18. CASE DownloadAck(p)
  BY <1>3, <1>4, <1>5, <1>18 DEF DownloadAck, Phase
<1>. QED
  BY <1>8, <1>9, <1>10, <1>11, <1>12, <1>13, <1>14, <1>15, <1>16, <1>17, <1>18 DEF Phase

(* A whole file is read part by part, and put together from its parts.     *)
LEMMA WholeFile ==
  ASSUME NEW p, NEW file, Whole(file, p), Chunks # 0, NEW k \in 1..Chunks
  PROVE  /\ file # NoFile /\ SizeInChunks(file) = Chunks
         /\ ReadPart(file, k) = file[k] /\ file[k] # NoChunk
         /\ WritePart(Prefix(file, k - 1), k, file[k]) = Prefix(file, k)
         /\ Prefix(file, Chunks) = file /\ Prefix(file, 0) = EmptySave
<1>1. PICK v \in 1..version[p] : file = FileOf(v)
  BY DEF Whole
<1>2. DOMAIN file = 1..Chunks /\ file = [i \in 1..Chunks |-> file[i]] /\ file[k] = <<v, k>>
  BY <1>1 DEF FileOf
<1>3. file # NoFile
  <2>1. DOMAIN NoFile = {0} /\ 0 \notin 1..Chunks
    BY DEF NoFile
  <2>. QED
    BY <1>2, <2>1
<1>4. SizeInChunks(file) = Chunks
  <2>1. Cardinality(1..Chunks) = Chunks
    BY FS_Interval, ChunksAssumption
  <2>. QED
    BY <1>2, <1>3, <2>1, Zenon DEF SizeInChunks
<1>5. ReadPart(file, k) = file[k] /\ file[k] # NoChunk
  BY <1>2, <1>3 DEF ReadPart, NoChunk
<1>6. WritePart(Prefix(file, k - 1), k, file[k]) = Prefix(file, k)
  <2>1. (1..k - 1) \cup {k} = 1..k
    BY ChunksAssumption
  <2>2. DOMAIN Prefix(file, k - 1) = 1..k - 1
    BY DEF Prefix
  <2>. QED
    BY <1>5, <2>1, <2>2 DEF WritePart, Prefix
<1>7. Prefix(file, Chunks) = file
  BY <1>2 DEF Prefix
<1>8. Prefix(file, 0) = EmptySave
  <2>1. 1..0 = {}
    OBVIOUS
  <2>. QED
    BY <2>1 DEF Prefix, EmptySave
<1>. QED
  BY <1>3, <1>4, <1>5, <1>6, <1>7, <1>8

(* What the next message to the client can be.                             *)
LEMMA NextToClient ==
  ASSUME QueuesOK, toClient # << >>, NEW m, m = Head(toClient), NEW p, p = m.path, Phase(p)
  PROVE  /\ NoneOf(toServer, p)
         /\ m.type # "downloadSize" => NoneOf(Tail(toClient), p)
         /\ m.type = "uploadSize" => UploadSized(p) /\ m.total = Chunks
         /\ m.type = "ack" =>
              \/ Uploaded(p) /\ m.part = Chunks /\ m.ok
              \/ \E k \in 1..Chunks :
                   /\ m.part = k
                   /\ \/ m.ok /\ k < Chunks /\ Uploading(p, k)
                      \/ ~m.ok /\ Uploading(p, k - 1)
         /\ m.type = "downloadSize" =>
              /\ Downloading(p, 0, 0) /\ m.total = Chunks
              /\ OnlyOne(Tail(toClient), p, ChunkTransfer(p, 1, serverFile[p][1]))
         /\ m.type = "chunk" =>
              \E k \in 1..Chunks : /\ Downloading(p, k - 1, Chunks)
                                  /\ m.part = k /\ m.data = serverFile[p][k]
<1>1. /\ ~NoneOf(toClient, p)
      /\ \A n : OnlyOne(toClient, p, n) => m = n /\ NoneOf(Tail(toClient), p)
      /\ \A n, o : OnlyPair(toClient, p, n, o) => m = n /\ OnlyOne(Tail(toClient), p, o)
  BY TakeOwn DEF QueuesOK
<1>2. ~AtRest(p) /\ ~Leaving(p) /\ ~UploadAsked(p) /\ ~UploadChunk(p)
  BY <1>1 DEF AtRest, Leaving, UploadAsked, Asked, UploadChunk
<1>3. ~DownloadAsked(p) /\ ~DownloadAck(p)
  BY <1>1 DEF DownloadAsked, Asked, DownloadAck
<1>4. CASE UploadSized(p)
  BY <1>1, <1>4 DEF UploadSized
<1>5. CASE UploadAck(p)
  <2>1. PICK k \in 1..Chunks :
          \/ k < Chunks /\ Uploading(p, k) /\ m = AckChunk(p, k, TRUE)
          \/ Uploading(p, k - 1) /\ m = AckChunk(p, k, FALSE)
    BY <1>1, <1>5 DEF UploadAck
  <2>2. NoneOf(toServer, p) /\ NoneOf(Tail(toClient), p)
    BY <1>1, <1>5 DEF UploadAck
  <2>3. m.type = "ack" /\ m.part = k
    BY <2>1 DEF AckChunk
  <2>4. \/ m.ok /\ k < Chunks /\ Uploading(p, k)
        \/ ~m.ok /\ Uploading(p, k - 1)
    BY <2>1 DEF AckChunk
  <2>. QED
    BY <2>2, <2>3, <2>4
<1>6. CASE Uploaded(p)
  BY <1>1, <1>6 DEF Uploaded, AckChunk
<1>7. CASE DownloadSized(p)
  BY <1>1, <1>7 DEF DownloadSized
<1>8. CASE DownloadChunk(p)
  BY <1>1, <1>8 DEF DownloadChunk, ChunkTransfer
<1>. QED
  BY <1>2, <1>3, <1>4, <1>5, <1>6, <1>7, <1>8 DEF Phase

(* What the next message to the server can be.                             *)
UploadWaits(p) == clientUploads[p] = Progress(1, 0) /\ ~Active(clientDownloads[p])

DownloadWaits(p) ==
  /\ clientDownloads[p] = Progress(1, 0) /\ ~Active(clientUploads[p])
  /\ clientSave[p] = EmptySave /\ serverFile[p] # NoFile

(* A message m of the path p that is first in its queue, in the words of   *)
(* the phase it is met in.                                                 *)
ServerMeets(m, p) ==
  /\ NoneOf(toClient, p)
  /\ ~Farewell(m, p) => NoneOf(Tail(toServer), p)
  /\ m.type = "cancel" => Farewell(m, p)
  /\ Farewell(m, p) =>
       \/ Idle(p) /\ NoneOf(Tail(toServer), p)
       \/ /\ UploadWaits(p)
          /\ OnlyOne(Tail(toServer), p, [type |-> "uploadRequest", path |-> p, size |-> Chunks])
       \/ /\ DownloadWaits(p)
          /\ OnlyOne(Tail(toServer), p, [type |-> "downloadRequest", path |-> p])
  /\ m.type = "uploadRequest" => ServerOff(p) /\ UploadWaits(p) /\ m.size = Chunks
  /\ m.type = "downloadRequest" => ServerOff(p) /\ DownloadWaits(p)
  /\ m.type = "chunk" =>
       \E k \in 1..Chunks : /\ Uploading(p, k - 1)
                           /\ m.part = k /\ m.data = clientFile[p][k]
  /\ m.type = "ack" /\ ~Farewell(m, p) =>
       \E k \in 1..Chunks :
         /\ m.part = k
         /\ \/ m.ok /\ k < Chunks /\ Downloading(p, k, Chunks)
            \/ ~m.ok /\ Downloading(p, k - 1, Chunks)

LEMMA NextToServer ==
  ASSUME QueuesOK, toServer # << >>, NEW m, m = Head(toServer), NEW p, p = m.path, Phase(p)
  PROVE  ServerMeets(m, p)
<1>. USE DEF ServerMeets
<1>1. /\ ~NoneOf(toServer, p)
      /\ \A n : OnlyOne(toServer, p, n) => m = n /\ NoneOf(Tail(toServer), p)
      /\ \A n, o : OnlyPair(toServer, p, n, o) => m = n /\ OnlyOne(Tail(toServer), p, o)
  BY TakeOwn DEF QueuesOK
<1>2. /\ ~AtRest(p) /\ ~UploadSized(p) /\ ~UploadAck(p) /\ ~Uploaded(p)
      /\ ~DownloadSized(p) /\ ~DownloadChunk(p)
  BY <1>1 DEF AtRest, UploadSized, UploadAck, Uploaded, DownloadSized, DownloadChunk
<1>3. Farewell(m, p) => \/ m.type = "cancel"
                        \/ m.type = "ack" /\ m.part = Chunks /\ m.ok
  BY DEF Farewell, AckChunk
<1>4. CASE Leaving(p)
  BY <1>1, <1>3, <1>4 DEF Leaving
<1>5. ASSUME NEW request, Asked(p, request)
      PROVE  /\ NoneOf(toClient, p)
             /\ \/ ServerOff(p) /\ m = request /\ NoneOf(Tail(toServer), p)
                \/ Farewell(m, p) /\ OnlyOne(Tail(toServer), p, request)
  BY <1>1, <1>5 DEF Asked
<1>6. CASE UploadAsked(p)
  <2>1. UploadWaits(p) /\ Asked(p, [type |-> "uploadRequest", path |-> p, size |-> Chunks])
    BY <1>6 DEF UploadAsked, UploadWaits
  <2>. QED
    BY <1>3, <1>5, <2>1
<1>7. CASE DownloadAsked(p)
  <2>1. DownloadWaits(p) /\ Asked(p, [type |-> "downloadRequest", path |-> p])
    BY <1>7 DEF DownloadAsked, DownloadWaits
  <2>. QED
    BY <1>3, <1>5, <2>1
<1>8. CASE UploadChunk(p)
  BY <1>1, <1>3, <1>8 DEF UploadChunk, ChunkTransfer
<1>9. CASE DownloadAck(p)
  <2>1. PICK k \in 1..Chunks :
          \/ k < Chunks /\ Downloading(p, k, Chunks) /\ m = AckChunk(p, k, TRUE)
          \/ Downloading(p, k - 1, Chunks) /\ m = AckChunk(p, k, FALSE)
    BY <1>1, <1>9 DEF DownloadAck
  <2>2. NoneOf(toClient, p) /\ NoneOf(Tail(toServer), p)
    BY <1>1, <1>9 DEF DownloadAck
  <2>3. m.type = "ack" /\ m.part = k
    BY <2>1 DEF AckChunk
  <2>4. \/ m.ok /\ k < Chunks /\ Downloading(p, k, Chunks)
        \/ ~m.ok /\ Downloading(p, k - 1, Chunks)
    BY <2>1 DEF AckChunk
  <2>5. ~Farewell(m, p)
    BY <1>3, <2>3, <2>4
  <2>. QED
    BY <2>2, <2>3, <2>4, <2>5
<1>. QED
  BY <1>2, <1>4, <1>6, <1>7, <1>8, <1>9 DEF Phase

-----------------------------------------------------------------------------
(* A step of one path *)

(* At most one message, of the path, is put in a queue.                    *)
Sent(q, r, S, p) == r = q \/ \E x \in S : x.path = p /\ r = Append(q, x)

LEMMA SentKeeps ==
  ASSUME NEW S, NEW q \in Seq(S), NEW r, NEW p, Sent(q, r, S, p), NEW o, o # p
  PROVE  Keeps(q, r, o)
<1>1. CASE r = q
  BY <1>1 DEF Keeps
<1>2. CASE \E x \in S : x.path = p /\ r = Append(q, x)
  BY <1>2, SendOther
<1>. QED
  BY <1>1, <1>2 DEF Sent

FilesOK(p) ==
  /\ Whole(clientFile[p], p)
  /\ serverFile[p] = NoFile \/ Whole(serverFile[p], p)

LEMMA FilesKept ==
  ASSUME NEW p, FilesOK(p), clientFile'[p] = clientFile[p], serverFile'[p] = serverFile[p],
         version'[p] = version[p]
  PROVE  FilesOK(p)'
BY DEF FilesOK, Whole, FileOf

(* The client takes a message of the path p.                               *)
ClientTakes(m, p) ==
  /\ toClient # << >> /\ m = Head(toClient) /\ toClient' = Tail(toClient) /\ p = m.path
  /\ UNCHANGED <<starts, version, serverVars>>

(* What is left to show of a step of the path p.                           *)
ClientEffect(p) ==
  /\ \A o \in Path \ {p} : Same(o)
  /\ Sent(toServer, toServer', ToServerMsg, p)
  /\ Phase(p)' /\ FilesOK(p)' /\ Running'

LEMMA TakenByClient ==
  ASSUME IInv, NEW m, NEW p \in Path, ClientTakes(m, p)
  PROVE  /\ QueuesOK /\ toClient # << >> /\ m = Head(toClient) /\ p = m.path /\ Phase(p)
         /\ toClient' = Tail(toClient)
BY DEF IInv, TypeInv, ClientTakes

LEMMA ClientSends ==
  ASSUME QueuesOK, NEW p, NEW x \in ToServerMsg, x.path = p, NoneOf(toServer, p),
         toServer' = Append(toServer, x)
  PROVE  Sent(toServer, toServer', ToServerMsg, p) /\ OnlyOne(toServer', p, x)
BY SendOwn DEF QueuesOK, Sent

LEMMA ClientSendsPart ==
  ASSUME IInv, Regime, NEW p \in Path, NEW k \in 1..Chunks, NoneOf(toServer, p),
         SendPart(p, Chunks, k)
  PROVE  /\ Sent(toServer, toServer', ToServerMsg, p)
         /\ OnlyOne(toServer', p, ChunkTransfer(p, k, clientFile[p][k]))
<1>. DEFINE x == ChunkTransfer(p, k, clientFile[p][k])
<1>1. k \in PartNumber /\ Chunks # 0
  BY PartsTyped, ChunksAssumption DEF Regime
<1>2. ReadPart(clientFile[p], k) = clientFile[p][k]
  BY <1>1, WholeFile DEF IInv
<1>3. toServer' = Append(toServer, x)
  BY <1>1, <1>2 DEF SendPart
<1>4. x \in ToServerMsg /\ x.path = p
  <2>1. ChunkTransfer(p, k, ReadPart(clientFile[p], k)) \in ChunkMsgs
    BY <1>1, MessagesTyped DEF IInv, TypeInv, ClientOK
  <2>. QED
    BY <1>2, <2>1 DEF ToServerMsg, ChunkTransfer
<1>. HIDE DEF x
<1>5. Sent(toServer, toServer', ToServerMsg, p) /\ OnlyOne(toServer', p, x)
  BY <1>3, <1>4, ClientSends DEF IInv, TypeInv
<1>. QED
  BY <1>5 DEF x

LEMMA ClientCancels ==
  ASSUME IInv, NEW p \in Path, NoneOf(toServer, p),
         toServer' = Append(toServer, [type |-> "cancel", path |-> p])
  PROVE  /\ Sent(toServer, toServer', ToServerMsg, p)
         /\ OnlyOne(toServer', p, [type |-> "cancel", path |-> p])
<1>1. [type |-> "cancel", path |-> p] \in ToServerMsg
  BY DEF ToServerMsg
<1>. QED
  BY <1>1, ClientSends DEF IInv, TypeInv

LEMMA UploadSizeEffect ==
  ASSUME IInv, Regime, NEW m, NEW p \in Path, ClientTakes(m, p), HandleUploadSizeReceived(m)
  PROVE  ClientEffect(p)
<1>1. m.type = "uploadSize" /\ m.path = p
  BY TakenByClient DEF HandleUploadSizeReceived
<1>2. /\ UploadSized(p) /\ m.total = Chunks
      /\ NoneOf(toServer, p) /\ NoneOf(Tail(toClient), p)
  BY <1>1, TakenByClient, NextToClient
<1>3. /\ 0 \in PartNumber /\ 1 \in PartNumber /\ Chunks \in PartNumber
      /\ 1 \in 1..Chunks /\ Chunks # 0
  BY PartsTyped, ChunksAssumption DEF Regime
<1>4. Active(Progress(1, 0)) /\ Active(Progress(1, Chunks))
  BY <1>3, ProgressTyped
<1>5. /\ clientUploads' = [clientUploads EXCEPT ![p].total = Chunks]
      /\ SendPart(p, Chunks, 1) /\ failure' = failure
  <2>1. Active(clientUploads[p]) /\ clientUploads[p].part = 1 /\ m.total # 0
    BY <1>2, <1>3, <1>4 DEF UploadSized, Progress
  <2>. QED
    BY <1>1, <1>2, <2>1 DEF HandleUploadSizeReceived
<1>6. UNCHANGED <<clientFile, clientSave, clientDownloads, serverVars, version>>
  BY DEF HandleUploadSizeReceived, ClientTakes
<1>7. /\ Sent(toServer, toServer', ToServerMsg, p)
      /\ OnlyOne(toServer', p, ChunkTransfer(p, 1, clientFile[p][1]))
  BY <1>2, <1>3, <1>5, ClientSendsPart
<1>8. \A o \in Path \ {p} : Same(o)
  BY <1>5, <1>6 DEF Same, serverVars, IInv, TypeInv, ClientOK
<1>9. clientUploads'[p] = Progress(1, Chunks)
  BY <1>2, <1>5 DEF UploadSized, Progress, IInv, TypeInv, ClientOK
<1>10. Prefix(clientFile[p], 0) = EmptySave
  BY <1>3, WholeFile DEF IInv
<1>11. Uploading(p, 0)'
  BY <1>2, <1>4, <1>6, <1>9, <1>10 DEF UploadSized, Uploading, NoDownload, serverVars, Progress
<1>12. UploadChunk(p)'
  <2>1. NoneOf(toClient', p)
    BY <1>2 DEF ClientTakes
  <2>. QED
    BY <1>3, <1>6, <1>7, <1>11, <2>1 DEF UploadChunk
<1>13. FilesOK(p)' /\ Running'
  BY <1>5, <1>6, FilesKept DEF IInv, FilesOK, Running, serverVars
<1>. QED
  BY <1>7, <1>8, <1>12, <1>13 DEF ClientEffect, Phase

LEMMA AckOfUploadEffect ==
  ASSUME IInv, Regime, NEW m, NEW p \in Path, ClientTakes(m, p), HandleAckOfUpload(m)
  PROVE  ClientEffect(p)
<1>. DEFINE up == clientUploads[p]
<1>1. m.type = "ack" /\ m.path = p
  BY TakenByClient DEF HandleAckOfUpload
<1>2. /\ NoneOf(toServer, p) /\ NoneOf(Tail(toClient), p)
      /\ \/ Uploaded(p) /\ m.part = Chunks /\ m.ok
         \/ \E k \in 1..Chunks :
              /\ m.part = k
              /\ \/ m.ok /\ k < Chunks /\ Uploading(p, k)
                 \/ ~m.ok /\ Uploading(p, k - 1)
  BY <1>1, TakenByClient, NextToClient
<1>3. NoneOf(toClient', p)
  BY <1>2 DEF ClientTakes
<1>4. UNCHANGED <<clientFile, clientSave, clientDownloads, serverVars, version>>
  BY DEF HandleAckOfUpload, CancelUpload, clientVars, ClientTakes
<1>5. FilesOK(p)'
  BY <1>4, FilesKept DEF IInv, FilesOK, serverVars
<1>6. Chunks # 0 /\ Chunks \in Nat
  BY ChunksAssumption DEF Regime
<1>7. ASSUME NEW u, clientUploads' = [clientUploads EXCEPT ![p] = u]
      PROVE  clientUploads'[p] = u /\ \A o \in Path \ {p} : Same(o)
  BY <1>4, <1>7 DEF Same, serverVars, IInv, TypeInv, ClientOK
<1>8. Sent(toServer, toServer, ToServerMsg, p)
  BY DEF Sent
<1>9. CASE Uploaded(p) /\ m.part = Chunks /\ m.ok
  <2>1. Active(up) /\ Completes(up, m.part)
    BY <1>6, <1>9 DEF Uploaded, Completes
  <2>2. clientUploads' = [clientUploads EXCEPT ![p] = NoTransfer] /\ UNCHANGED <<toServer, failure>>
    BY <1>1, <1>9, <2>1 DEF HandleAckOfUpload
  <2>3. clientUploads'[p] = NoTransfer /\ \A o \in Path \ {p} : Same(o)
    BY <1>7, <2>2
  <2>4. AtRest(p)'
    BY <1>2, <1>3, <1>4, <1>9, <2>2, <2>3, ProgressTyped
    DEF AtRest, Uploaded, NoDownload, Idle, ServerOff, serverVars
  <2>. QED
    BY <1>5, <1>8, <2>2, <2>3, <2>4 DEF ClientEffect, Phase, IInv, Running
<1>10. ASSUME NEW k \in 1..Chunks, m.part = k, ~m.ok, Uploading(p, k - 1)
       PROVE  ClientEffect(p)
  <2>1. Active(up) /\ up.total = Chunks
    BY <1>10 DEF Uploading
  <2>2. SendPart(p, Chunks, k) /\ UNCHANGED <<clientUploads, failure>>
    BY <1>1, <1>10, <2>1 DEF HandleAckOfUpload, clientVars
  <2>3. /\ Sent(toServer, toServer', ToServerMsg, p)
        /\ OnlyOne(toServer', p, ChunkTransfer(p, k, clientFile[p][k]))
    BY <1>2, <2>2, ClientSendsPart
  <2>4. Uploading(p, k - 1)'
    BY <1>4, <1>10, <2>2 DEF Uploading, NoDownload, serverVars
  <2>5. UploadChunk(p)'
    BY <1>3, <1>4, <2>3, <2>4 DEF UploadChunk
  <2>6. \A o \in Path \ {p} : Same(o)
    BY <1>4, <2>2 DEF Same, serverVars
  <2>. QED
    BY <1>5, <2>2, <2>3, <2>5, <2>6 DEF ClientEffect, Phase, IInv, Running
<1>11. ASSUME NEW k \in 1..Chunks, m.part = k, m.ok, k < Chunks, Uploading(p, k)
       PROVE  ClientEffect(p)
  <2>1. Active(up) /\ up.total = Chunks /\ ~Completes(up, k) /\ Active(serverUploads[p])
    <3>1. Active(Progress(k, Chunks))
      BY PartsTyped, ProgressTyped, ChunksAssumption
    <3>2. Active(up) /\ up.total = Chunks /\ serverUploads[p] = Progress(k, Chunks)
      BY <1>11 DEF Uploading
    <3>3. ~Completes(up, k)
      BY <1>6, <1>11, <3>2 DEF Completes
    <3>. QED
      BY <3>1, <3>2, <3>3
  <2>2. \/ /\ clientUploads' = [clientUploads EXCEPT ![p].part = k]
           /\ SendPart(p, Chunks, Plus1(k)) /\ UNCHANGED failure
        \/ CancelUpload(p) /\ UNCHANGED failure
    BY <1>1, <1>11, <2>1 DEF HandleAckOfUpload
  <2>3. CASE /\ clientUploads' = [clientUploads EXCEPT ![p].part = k]
             /\ SendPart(p, Chunks, Plus1(k)) /\ UNCHANGED failure
    <3>1. k + 1 \in 1..Chunks /\ Plus1(k) = k + 1 /\ k = (k + 1) - 1
      BY <1>6, <1>11, PartsTyped
    <3>2. /\ Sent(toServer, toServer', ToServerMsg, p)
          /\ OnlyOne(toServer', p, ChunkTransfer(p, k + 1, clientFile[p][k + 1]))
      BY <1>2, <2>3, <3>1, ClientSendsPart
    <3>3. up \in Progresses /\ k \in PartNumber /\ Chunks \in PartNumber
      BY PartsTyped, ChunksAssumption DEF IInv, TypeInv, ClientOK
    <3>4. clientUploads' = [clientUploads EXCEPT ![p] = [up EXCEPT !.part = k]]
      BY <2>3
    <3>5. [up EXCEPT !.part = k] = Progress(k, Chunks)
      <4>1. up = Progress(up.part, Chunks)
        BY <2>1, <3>3, ProgressTyped
      <4>. QED
        BY <4>1 DEF Progress
    <3>6. clientUploads'[p] = Progress(k, Chunks) /\ \A o \in Path \ {p} : Same(o)
      BY <1>7, <3>4, <3>5
    <3>7. Active(clientUploads'[p]) /\ clientUploads'[p].total = Chunks
      <4>1. Active(Progress(k, Chunks)) /\ Progress(k, Chunks).total = Chunks
        BY <3>3, ProgressTyped DEF Progress
      <4>. QED
        BY <3>6, <4>1
    <3>8. Uploading(p, k)'
      BY <1>4, <1>11, <3>7 DEF Uploading, NoDownload, serverVars
    <3>9. UploadChunk(p)'
      BY <1>3, <1>4, <3>1, <3>2, <3>8 DEF UploadChunk
    <3>. QED
      BY <1>5, <2>3, <3>2, <3>6, <3>9 DEF ClientEffect, Phase, IInv, Running
  <2>4. CASE CancelUpload(p) /\ UNCHANGED failure
    <3>1. clientUploads'[p] = NoTransfer /\ \A o \in Path \ {p} : Same(o)
      BY <1>7, <2>4 DEF CancelUpload
    <3>2. /\ Sent(toServer, toServer', ToServerMsg, p)
          /\ OnlyOne(toServer', p, [type |-> "cancel", path |-> p])
      BY <1>2, <2>4, ClientCancels DEF CancelUpload
    <3>3. Farewell([type |-> "cancel", path |-> p], p)'
      BY <1>4, <1>11, <2>1 DEF Farewell, ServerOff, Uploading, NoDownload, serverVars
    <3>4. Idle(p)'
      BY <1>4, <1>11, <3>1, ProgressTyped DEF Idle, Uploading, NoDownload
    <3>5. Leaving(p)'
      BY <1>3, <3>2, <3>3, <3>4 DEF Leaving
    <3>. QED
      BY <1>5, <2>4, <3>1, <3>2, <3>5 DEF ClientEffect, Phase, IInv, Running
  <2>. QED
    BY <2>2, <2>3, <2>4
<1>. QED
  BY <1>2, <1>9, <1>10, <1>11

LEMMA DownloadSizeEffect ==
  ASSUME IInv, Regime, NEW m, NEW p \in Path, ClientTakes(m, p), HandleDownloadSizeReceived(m)
  PROVE  ClientEffect(p)
<1>. DEFINE down == clientDownloads[p]
<1>1. m.type = "downloadSize" /\ m.path = p
  BY TakenByClient DEF HandleDownloadSizeReceived
<1>2. /\ NoneOf(toServer, p) /\ Downloading(p, 0, 0) /\ m.total = Chunks
      /\ OnlyOne(Tail(toClient), p, ChunkTransfer(p, 1, serverFile[p][1]))
  BY <1>1, TakenByClient, NextToClient
<1>3. /\ clientDownloads' = [clientDownloads EXCEPT ![p].total = Chunks]
      /\ UNCHANGED <<toServer, failure>>
  BY <1>1, <1>2 DEF HandleDownloadSizeReceived, Downloading
<1>4. UNCHANGED <<clientFile, clientSave, clientUploads, serverVars, version>>
  BY DEF HandleDownloadSizeReceived, ClientTakes
<1>5. /\ Chunks \in PartNumber /\ 1 \in 1..Chunks /\ down \in Progresses
  BY PartsTyped, ChunksAssumption DEF Regime, IInv, TypeInv, ClientOK
<1>6. Active([down EXCEPT !.total = Chunks]) /\ [down EXCEPT !.total = Chunks].total = Chunks
  <2>1. down.part \in PartNumber /\ [down EXCEPT !.total = Chunks] = Progress(down.part, Chunks)
    BY <1>2, <1>5, ProgressTyped DEF Downloading, Progress
  <2>2. Active(Progress(down.part, Chunks)) /\ Progress(down.part, Chunks).total = Chunks
    BY <1>5, <2>1, ProgressTyped DEF Progress
  <2>. QED
    BY <2>1, <2>2
<1>7. clientDownloads'[p] = [down EXCEPT !.total = Chunks] /\ \A o \in Path \ {p} : Same(o)
  BY <1>3, <1>4 DEF Same, serverVars, IInv, TypeInv, ClientOK
<1>8. Downloading(p, 0, Chunks)'
  BY <1>2, <1>4, <1>6, <1>7 DEF Downloading, NoUpload, Prefix, serverVars
<1>9. DownloadChunk(p)'
  <2>1. NoneOf(toServer', p) /\ OnlyOne(toClient', p, ChunkTransfer(p, 1, serverFile'[p][1]))
    BY <1>2, <1>3, <1>4 DEF ClientTakes, serverVars
  <2>. QED
    BY <1>5, <1>8, <2>1 DEF DownloadChunk
<1>10. FilesOK(p)' /\ Running'
  BY <1>3, <1>4, FilesKept DEF IInv, FilesOK, Running, serverVars
<1>11. Sent(toServer, toServer', ToServerMsg, p)
  BY <1>3 DEF Sent
<1>. QED
  BY <1>7, <1>9, <1>10, <1>11 DEF ClientEffect, Phase

LEMMA ClientAcks ==
  ASSUME IInv, NEW p \in Path, NEW k \in 0..Chunks, NEW ok \in BOOLEAN, NoneOf(toServer, p),
         toServer' = Append(toServer, AckChunk(p, k, ok))
  PROVE  /\ Sent(toServer, toServer', ToServerMsg, p)
         /\ OnlyOne(toServer', p, AckChunk(p, k, ok))
<1>. DEFINE x == AckChunk(p, k, ok)
<1>1. x \in ToServerMsg
  BY PartsTyped, MessagesTyped, ChunksAssumption DEF ToServerMsg
<1>2. x.path = p
  BY DEF AckChunk
<1>3. toServer' = Append(toServer, x)
  OBVIOUS
<1>. HIDE DEF x
<1>4. Sent(toServer, toServer', ToServerMsg, p) /\ OnlyOne(toServer', p, x)
  BY <1>1, <1>2, <1>3, ClientSends DEF IInv, TypeInv
<1>. QED
  BY <1>4 DEF x

LEMMA ChunkOfDownloadEffect ==
  ASSUME IInv, Regime, NEW m, NEW p \in Path, ClientTakes(m, p), HandleChunkOfDownload(m)
  PROVE  ClientEffect(p)
<1>. DEFINE down == clientDownloads[p]
            saved == Prefix(serverFile[p], m.part)
<1>1. m.type = "chunk" /\ m.path = p
  BY TakenByClient DEF HandleChunkOfDownload
<1>2. NoneOf(toServer, p) /\ NoneOf(Tail(toClient), p)
  BY <1>1, TakenByClient, NextToClient
<1>3. PICK k \in 1..Chunks : /\ Downloading(p, k - 1, Chunks)
                             /\ m.part = k /\ m.data = serverFile[p][k]
  BY <1>1, TakenByClient, NextToClient
<1>4. NoneOf(toClient', p)
  BY <1>2 DEF ClientTakes
<1>5. UNCHANGED <<clientUploads, serverVars, version>>
  BY DEF HandleChunkOfDownload, CancelDownload, clientVars, ClientTakes
<1>6. Chunks # 0 /\ Chunks \in Nat
  BY ChunksAssumption DEF Regime
<1>7. /\ Active(down) /\ down.total = Chunks /\ serverFile[p] # NoFile
      /\ clientSave[p] = Prefix(serverFile[p], k - 1)
      /\ Active(serverDownloads[p]) /\ serverDownloads[p].total = Chunks
      /\ ~Active(clientUploads[p]) /\ ~Active(serverUploads[p])
  BY <1>3 DEF Downloading, NoUpload
<1>8. Whole(serverFile[p], p)
  BY <1>7 DEF IInv
<1>9. WritePart(clientSave[p], PlaceOf(down, m.part), m.data) = saved
  BY <1>3, <1>6, <1>7, <1>8, WholeFile DEF PlaceOf
<1>10. /\ k \in 0..Chunks /\ Plus1(k) = k + 1 /\ k \in PartNumber /\ k + 1 \in PartNumber
       /\ Chunks \in PartNumber
  BY <1>6, PartsTyped
<1>11. LastPart(down, m.part) <=> k = Chunks
  BY <1>3, <1>6, <1>7, <1>10 DEF LastPart
<1>. HIDE DEF saved
<1>12. CASE /\ toServer' = Append(toServer, AckChunk(p, k, FALSE))
            /\ UNCHANGED <<clientVars, failure>>
  <2>1. /\ Sent(toServer, toServer', ToServerMsg, p)
        /\ OnlyOne(toServer', p, AckChunk(p, k, FALSE))
    BY <1>2, <1>10, <1>12, ClientAcks
  <2>2. Downloading(p, k - 1, Chunks)'
    BY <1>3, <1>5, <1>12 DEF Downloading, NoUpload, Prefix, clientVars, serverVars
  <2>3. DownloadAck(p)'
    BY <1>4, <2>1, <2>2 DEF DownloadAck
  <2>4. FilesOK(p)' /\ Running' /\ \A o \in Path \ {p} : Same(o)
    BY <1>5, <1>12, FilesKept DEF IInv, FilesOK, Running, Same, clientVars, serverVars
  <2>. QED
    BY <2>1, <2>3, <2>4 DEF ClientEffect, Phase
<1>13. CASE /\ k = Chunks
            /\ clientFile' = [clientFile EXCEPT ![p] = saved]
            /\ clientSave' = [clientSave EXCEPT ![p] = NoSave]
            /\ clientDownloads' = [clientDownloads EXCEPT ![p] = NoTransfer]
            /\ toServer' = Append(toServer, AckChunk(p, k, TRUE))
            /\ UNCHANGED failure
  <2>1. /\ Sent(toServer, toServer', ToServerMsg, p)
        /\ OnlyOne(toServer', p, AckChunk(p, Chunks, TRUE))
    BY <1>2, <1>10, <1>13, ClientAcks
  <2>2. saved = serverFile[p]
    BY <1>3, <1>6, <1>8, <1>13, WholeFile DEF saved
  <2>3. /\ clientFile'[p] = serverFile[p] /\ clientDownloads'[p] = NoTransfer
        /\ \A o \in Path \ {p} : Same(o)
    BY <1>5, <1>13, <2>2 DEF Same, serverVars, IInv, TypeInv, ClientOK
  <2>4. FilesOK(p)' /\ Running'
    BY <1>5, <1>8, <1>13, <2>3 DEF FilesOK, Whole, FileOf, IInv, Running, serverVars
  <2>5. Farewell(AckChunk(p, Chunks, TRUE), p)'
    BY <1>5, <1>7 DEF Farewell, AckChunk, serverVars
  <2>6. Idle(p)'
    BY <1>5, <1>7, <2>3, ProgressTyped DEF Idle
  <2>7. Leaving(p)'
    BY <1>4, <2>1, <2>5, <2>6 DEF Leaving
  <2>. QED
    BY <2>1, <2>3, <2>4, <2>7 DEF ClientEffect, Phase
<1>14. CASE /\ k # Chunks
            /\ clientSave' = [clientSave EXCEPT ![p] = saved]
            /\ clientDownloads' = [clientDownloads EXCEPT ![p].part = k + 1]
            /\ toServer' = Append(toServer, AckChunk(p, k, TRUE))
            /\ UNCHANGED <<clientFile, failure>>
  <2>1. /\ Sent(toServer, toServer', ToServerMsg, p)
        /\ OnlyOne(toServer', p, AckChunk(p, k, TRUE))
    BY <1>2, <1>10, <1>14, ClientAcks
  <2>2. /\ clientSave'[p] = Prefix(serverFile[p], k)
        /\ clientDownloads'[p] = [down EXCEPT !.part = k + 1]
        /\ \A o \in Path \ {p} : Same(o)
    BY <1>3, <1>5, <1>14 DEF Same, serverVars, IInv, TypeInv, ClientOK, saved
  <2>3. [down EXCEPT !.part = k + 1] = Progress(k + 1, Chunks)
    <3>1. down = Progress(down.part, Chunks)
      BY <1>7, ProgressTyped DEF IInv, TypeInv, ClientOK
    <3>. QED
      BY <3>1 DEF Progress
  <2>4. Active(clientDownloads'[p]) /\ clientDownloads'[p].total = Chunks
    <3>1. Active(Progress(k + 1, Chunks)) /\ Progress(k + 1, Chunks).total = Chunks
      BY <1>10, ProgressTyped DEF Progress
    <3>. QED
      BY <2>2, <2>3, <3>1
  <2>5. Downloading(p, k, Chunks)'
    BY <1>5, <1>7, <2>2, <2>4 DEF Downloading, NoUpload, Prefix, serverVars
  <2>6. k < Chunks
    BY <1>6, <1>14
  <2>7. DownloadAck(p)'
    BY <1>4, <2>1, <2>5, <2>6 DEF DownloadAck
  <2>8. FilesOK(p)' /\ Running'
    BY <1>5, <1>14, FilesKept DEF IInv, FilesOK, Running, serverVars
  <2>. QED
    BY <2>1, <2>2, <2>7, <2>8 DEF ClientEffect, Phase
<1>15. CASE CancelDownload(p) /\ UNCHANGED failure
  <2>1. /\ clientDownloads'[p] = NoTransfer /\ clientFile' = clientFile
        /\ \A o \in Path \ {p} : Same(o)
    BY <1>5, <1>15 DEF CancelDownload, Same, serverVars, IInv, TypeInv, ClientOK
  <2>2. /\ Sent(toServer, toServer', ToServerMsg, p)
        /\ OnlyOne(toServer', p, [type |-> "cancel", path |-> p])
    BY <1>2, <1>15, ClientCancels DEF CancelDownload
  <2>3. Farewell([type |-> "cancel", path |-> p], p)'
    BY <1>5, <1>7 DEF Farewell, ServerOff, serverVars
  <2>4. Idle(p)'
    BY <1>5, <1>7, <2>1, ProgressTyped DEF Idle
  <2>5. Leaving(p)'
    BY <1>4, <2>2, <2>3, <2>4 DEF Leaving
  <2>6. FilesOK(p)' /\ Running'
    BY <1>5, <1>15, <2>1, FilesKept DEF IInv, FilesOK, Running, serverVars
  <2>. QED
    BY <2>1, <2>2, <2>5, <2>6 DEF ClientEffect, Phase
<1>. QED
  <2>1. m.part = k
    BY <1>3
  <2>. QED
    BY <1>1, <1>7, <1>9, <1>10, <1>11, <1>12, <1>13, <1>14, <1>15, <2>1 DEF HandleChunkOfDownload

(* The server takes a message of the path p.                               *)
ServerTakes(m, p) ==
  /\ toServer # << >> /\ m = Head(toServer) /\ toServer' = Tail(toServer) /\ p = m.path
  /\ UNCHANGED <<starts, version, clientVars>>

ServerEffect(p) ==
  /\ \A o \in Path \ {p} : Same(o) /\ Keeps(toClient, toClient', o)
  /\ Phase(p)' /\ FilesOK(p)' /\ Running'

LEMMA TakenByServer ==
  ASSUME IInv, NEW m, NEW p \in Path, ServerTakes(m, p)
  PROVE  /\ QueuesOK /\ toServer # << >> /\ m = Head(toServer) /\ p = m.path /\ Phase(p)
         /\ toServer' = Tail(toServer) /\ ServerMeets(m, p)
BY NextToServer DEF IInv, TypeInv, ServerTakes

LEMMA ServerSendsOne ==
  ASSUME QueuesOK, NEW p, NEW x \in ToClientMsg, x.path = p, NoneOf(toClient, p),
         toClient' = Append(toClient, x)
  PROVE  OnlyOne(toClient', p, x) /\ \A o \in Path \ {p} : Keeps(toClient, toClient', o)
BY SendOwn, SendOther DEF QueuesOK

LEMMA ServerSendsPart ==
  ASSUME IInv, Regime, NEW p \in Path, NEW k \in 1..Chunks, serverFile[p] # NoFile
  PROVE  PartOf(p, k) = ChunkTransfer(p, k, serverFile[p][k]) /\ PartOf(p, k) \in ToClientMsg
<1>1. k \in PartNumber /\ Chunks # 0
  BY PartsTyped, ChunksAssumption DEF Regime
<1>2. ReadPart(serverFile[p], k) = serverFile[p][k]
  BY <1>1, WholeFile DEF IInv
<1>3. PartOf(p, k) \in ChunkMsgs
  BY <1>1, MessagesTyped DEF PartOf, IInv, TypeInv, ServerOK
<1>. QED
  BY <1>2, <1>3 DEF PartOf, ToClientMsg

LEMMA ServerAcks ==
  ASSUME IInv, NEW p \in Path, NEW k \in 0..Chunks, NEW ok \in BOOLEAN, NoneOf(toClient, p),
         toClient' = Append(toClient, AckChunk(p, k, ok))
  PROVE  /\ OnlyOne(toClient', p, AckChunk(p, k, ok))
         /\ \A o \in Path \ {p} : Keeps(toClient, toClient', o)
<1>. DEFINE x == AckChunk(p, k, ok)
<1>1. x \in ToClientMsg
  BY PartsTyped, MessagesTyped, ChunksAssumption DEF ToClientMsg
<1>2. x.path = p
  BY DEF AckChunk
<1>3. toClient' = Append(toClient, x)
  OBVIOUS
<1>. HIDE DEF x
<1>4. OnlyOne(toClient', p, x) /\ \A o \in Path \ {p} : Keeps(toClient, toClient', o)
  BY <1>1, <1>2, <1>3, ServerSendsOne DEF IInv, TypeInv
<1>. QED
  BY <1>4 DEF x

(* After the last message of a transfer the server has nothing of it, and  *)
(* the request of the next one may have been sent.                         *)
LEMMA FarewellEffect ==
  ASSUME IInv, NEW m, NEW p \in Path, ServerTakes(m, p), Farewell(m, p), ServerOff(p)',
         UNCHANGED <<toClient, serverFile, failure>>, \A o \in Path \ {p} : Same(o)
  PROVE  ServerEffect(p)
<1>1. NoneOf(toClient', p)
  BY TakenByServer DEF ServerMeets
<1>2. UNCHANGED <<clientVars, version>> /\ toServer' = Tail(toServer)
  BY DEF ServerTakes
<1>3. FilesOK(p)' /\ Running'
  BY <1>2, FilesKept DEF IInv, FilesOK, Running, clientVars
<1>4. Phase(p)'
  <2>1. CASE Idle(p) /\ NoneOf(Tail(toServer), p)
    BY <1>1, <1>2, <2>1 DEF Phase, AtRest, Idle, clientVars
  <2>2. CASE /\ UploadWaits(p)
             /\ OnlyOne(Tail(toServer), p, [type |-> "uploadRequest", path |-> p, size |-> Chunks])
    BY <1>1, <1>2, <2>2 DEF Phase, UploadAsked, Asked, UploadWaits, clientVars
  <2>3. CASE /\ DownloadWaits(p)
             /\ OnlyOne(Tail(toServer), p, [type |-> "downloadRequest", path |-> p])
    BY <1>1, <1>2, <2>3 DEF Phase, DownloadAsked, Asked, DownloadWaits, clientVars
  <2>. QED
    BY <2>1, <2>2, <2>3, TakenByServer DEF ServerMeets
<1>5. \A o \in Path \ {p} : Keeps(toClient, toClient', o)
  BY DEF Keeps
<1>. QED
  BY <1>3, <1>4, <1>5 DEF ServerEffect

LEMMA CancelEffect ==
  ASSUME IInv, Regime, NEW m, NEW p \in Path, ServerTakes(m, p), HandleCancelReceived(m)
  PROVE  ServerEffect(p)
<1>1. m.type = "cancel" /\ m.path = p
  BY TakenByServer DEF HandleCancelReceived
<1>2. Farewell(m, p)
  BY <1>1, TakenByServer DEF ServerMeets
<1>3. \/ Active(serverUploads[p]) /\ ~Active(serverDownloads[p])
      \/ ~Active(serverUploads[p]) /\ Active(serverDownloads[p])
  BY <1>1, <1>2 DEF Farewell, ServerOff, AckChunk
<1>4. UNCHANGED <<toClient, serverFile, failure>>
  BY <1>1, <1>3 DEF HandleCancelReceived
<1>5. ServerOff(p)' /\ \A o \in Path \ {p} : Same(o)
  BY <1>1, <1>3, ProgressTyped
  DEF HandleCancelReceived, ServerTakes, ServerOff, Same, clientVars, IInv, TypeInv, ServerOK
<1>. QED
  BY <1>2, <1>4, <1>5, FarewellEffect

LEMMA UploadRequestEffect ==
  ASSUME IInv, Regime, NEW m, NEW p \in Path, ServerTakes(m, p), HandleUploadRequest(m)
  PROVE  ServerEffect(p)
<1>. DEFINE x == [type |-> "uploadSize", path |-> p, total |-> Chunks]
<1>1. m.type = "uploadRequest" /\ m.path = p
  BY TakenByServer DEF HandleUploadRequest
<1>2. ~Farewell(m, p)
  BY <1>1 DEF Farewell, AckChunk
<1>3. /\ NoneOf(toClient, p) /\ NoneOf(Tail(toServer), p)
      /\ ServerOff(p) /\ UploadWaits(p) /\ m.size = Chunks
  BY <1>1, <1>2, TakenByServer DEF ServerMeets
<1>4. UNCHANGED <<serverFile, serverDownloads, failure, clientVars, version>>
  BY DEF HandleUploadRequest, ServerTakes
<1>5. /\ serverUploads'[p] = Progress(0, Chunks) /\ serverSave'[p] = EmptySave
      /\ \A o \in Path \ {p} : Same(o)
  BY <1>1, <1>3, <1>4 DEF HandleUploadRequest, Same, clientVars, IInv, TypeInv, ServerOK
<1>6. x \in ToClientMsg /\ toClient' = Append(toClient, x)
  BY <1>1, <1>3, PartsTyped, ChunksAssumption DEF ToClientMsg, HandleUploadRequest
<1>7. OnlyOne(toClient', p, x) /\ \A o \in Path \ {p} : Keeps(toClient, toClient', o)
  BY <1>3, <1>6, ServerSendsOne DEF IInv, TypeInv
<1>8. UploadSized(p)'
  <2>1. NoneOf(toServer', p)
    BY <1>3 DEF ServerTakes
  <2>. QED
    BY <1>3, <1>4, <1>5, <1>7, <2>1
    DEF UploadSized, UploadWaits, NoDownload, ServerOff, clientVars
<1>9. FilesOK(p)' /\ Running'
  BY <1>4, FilesKept DEF IInv, FilesOK, Running, clientVars
<1>. QED
  BY <1>5, <1>7, <1>8, <1>9 DEF ServerEffect, Phase

LEMMA DownloadRequestEffect ==
  ASSUME IInv, Regime, NEW m, NEW p \in Path, ServerTakes(m, p), HandleDownloadRequest(m)
  PROVE  ServerEffect(p)
<1>. DEFINE x == [type |-> "downloadSize", path |-> p, total |-> Chunks]
            y == ChunkTransfer(p, 1, serverFile[p][1])
<1>1. m.type = "downloadRequest" /\ m.path = p
  BY TakenByServer DEF HandleDownloadRequest
<1>2. ~Farewell(m, p)
  BY <1>1 DEF Farewell, AckChunk
<1>3. /\ NoneOf(toClient, p) /\ NoneOf(Tail(toServer), p)
      /\ ServerOff(p) /\ DownloadWaits(p)
  BY <1>1, <1>2, TakenByServer DEF ServerMeets
<1>4. UNCHANGED <<serverFile, serverSave, serverUploads, failure, clientVars, version>>
  BY DEF HandleDownloadRequest, ServerTakes
<1>5. /\ 1 \in 1..Chunks /\ 1 \in PartNumber /\ 0 \in PartNumber /\ Chunks \in PartNumber
      /\ Chunks # 0
  BY PartsTyped, ChunksAssumption DEF Regime
<1>6. serverFile[p] # NoFile /\ SizeInChunks(serverFile[p]) = Chunks
  BY <1>3, <1>5, WholeFile DEF DownloadWaits, IInv
<1>7. PartOf(p, 1) = y /\ y \in ToClientMsg /\ y.path = p
  <2>1. PartOf(p, 1) = y /\ PartOf(p, 1) \in ToClientMsg
    BY <1>5, <1>6, ServerSendsPart
  <2>. QED
    BY <2>1 DEF ChunkTransfer
<1>8. x \in ToClientMsg /\ x.path = p
  BY <1>5 DEF ToClientMsg
<1>9. toClient' = toClient \o <<x, y>>
  BY <1>1, <1>6, <1>7 DEF HandleDownloadRequest
<1>10. /\ serverDownloads'[p] = Progress(1, Chunks)
       /\ \A o \in Path \ {p} : Same(o)
  BY <1>1, <1>4, <1>6 DEF HandleDownloadRequest, Same, clientVars, IInv, TypeInv, ServerOK
<1>. HIDE DEF x, y
<1>11. OnlyPair(toClient', p, x, y) /\ \A o \in Path \ {p} : Keeps(toClient, toClient', o)
  <2>. DEFINE once == Append(toClient, x)
  <2>1. toClient \in Seq(ToClientMsg) /\ once \in Seq(ToClientMsg)
    BY <1>8 DEF IInv, TypeInv, QueuesOK
  <2>2. toClient' = Append(once, y)
    BY <1>7, <1>8, <1>9, <2>1, SendTwo
  <2>3. OnlyOne(once, p, x) /\ \A o \in Path \ {p} : Keeps(toClient, once, o)
    BY <1>3, <1>8, <2>1, SendOwn, SendOther
  <2>. HIDE DEF once
  <2>4. OnlyPair(toClient', p, x, y)
    BY <1>7, <2>1, <2>2, <2>3, SendOwn
  <2>5. \A o \in Path \ {p} : Keeps(once, toClient', o)
    BY <1>7, <2>1, <2>2, SendOther
  <2>. QED
    BY <2>3, <2>4, <2>5, KeepsTransitive
<1>12. Active(Progress(1, 0)) /\ Active(Progress(1, Chunks))
  BY <1>5, ProgressTyped
<1>13. Prefix(serverFile[p], 0) = EmptySave
  BY <1>5, <1>6, WholeFile DEF IInv
<1>14. Downloading(p, 0, 0)'
  BY <1>3, <1>4, <1>6, <1>10, <1>12, <1>13
  DEF Downloading, DownloadWaits, ServerOff, NoUpload, clientVars, Progress
<1>15. DownloadSized(p)'
  <2>1. NoneOf(toServer', p)
    BY <1>3 DEF ServerTakes
  <2>2. y = ChunkTransfer(p, 1, serverFile'[p][1])
    BY <1>4 DEF y
  <2>. QED
    BY <1>11, <1>14, <2>1, <2>2 DEF DownloadSized, x
<1>16. FilesOK(p)' /\ Running'
  BY <1>4, FilesKept DEF IInv, FilesOK, Running, clientVars
<1>. QED
  BY <1>10, <1>11, <1>15, <1>16 DEF ServerEffect, Phase

LEMMA ChunkOfUploadEffect ==
  ASSUME IInv, Regime, NEW m, NEW p \in Path, ServerTakes(m, p), HandleChunkOfUpload(m)
  PROVE  ServerEffect(p)
<1>. DEFINE up == serverUploads[p]
            saved == Prefix(clientFile[p], m.part)
<1>1. m.type = "chunk" /\ m.path = p
  BY TakenByServer DEF HandleChunkOfUpload
<1>2. ~Farewell(m, p)
  BY <1>1 DEF Farewell, AckChunk
<1>3. /\ NoneOf(toClient, p) /\ NoneOf(toServer', p)
  BY <1>2, TakenByServer DEF ServerMeets
<1>4. PICK k \in 1..Chunks : /\ Uploading(p, k - 1)
                             /\ m.part = k /\ m.data = clientFile[p][k]
  BY <1>1, TakenByServer DEF ServerMeets
<1>5. UNCHANGED <<clientVars, serverDownloads, version>>
  BY DEF HandleChunkOfUpload, serverVars, ServerTakes
<1>6. Chunks # 0 /\ Chunks \in Nat
  BY ChunksAssumption DEF Regime
<1>7. /\ Active(clientUploads[p]) /\ clientUploads[p].total = Chunks /\ NoDownload(p)
      /\ up = Progress(k - 1, Chunks) /\ serverSave[p] = Prefix(clientFile[p], k - 1)
  BY <1>4 DEF Uploading
<1>8. Whole(clientFile[p], p)
  BY DEF IInv
<1>9. WritePart(serverSave[p], m.part, m.data) = saved
  BY <1>4, <1>6, <1>7, <1>8, WholeFile
<1>10. /\ k \in 0..Chunks /\ k - 1 \in PartNumber /\ k \in PartNumber /\ Chunks \in PartNumber
  BY <1>6, PartsTyped
<1>11. Active(up) /\ up.total = Chunks
  BY <1>7, <1>10, ProgressTyped DEF Progress
<1>12. Completes(up, m.part) <=> k = Chunks
  BY <1>4, <1>6, <1>11 DEF Completes
<1>. HIDE DEF saved
<1>13. CASE /\ toClient' = Append(toClient, AckChunk(p, k, FALSE))
            /\ UNCHANGED <<serverVars, failure>>
  <2>1. /\ OnlyOne(toClient', p, AckChunk(p, k, FALSE))
        /\ \A o \in Path \ {p} : Keeps(toClient, toClient', o)
    BY <1>3, <1>10, <1>13, ServerAcks
  <2>2. Uploading(p, k - 1)'
    BY <1>4, <1>5, <1>13 DEF Uploading, NoDownload, Prefix, clientVars, serverVars
  <2>3. UploadAck(p)'
    BY <1>3, <2>1, <2>2 DEF UploadAck
  <2>4. FilesOK(p)' /\ Running' /\ \A o \in Path \ {p} : Same(o)
    BY <1>5, <1>13, FilesKept DEF IInv, FilesOK, Running, Same, clientVars, serverVars
  <2>. QED
    BY <2>1, <2>3, <2>4 DEF ServerEffect, Phase
<1>14. CASE /\ k = Chunks
            /\ serverFile' = [serverFile EXCEPT ![p] = saved]
            /\ serverSave' = [serverSave EXCEPT ![p] = NoSave]
            /\ serverUploads' = [serverUploads EXCEPT ![p] = NoTransfer]
            /\ toClient' = Append(toClient, AckChunk(p, k, TRUE))
            /\ UNCHANGED failure
  <2>1. /\ OnlyOne(toClient', p, AckChunk(p, Chunks, TRUE))
        /\ \A o \in Path \ {p} : Keeps(toClient, toClient', o)
    BY <1>3, <1>10, <1>14, ServerAcks
  <2>2. saved = clientFile[p]
    BY <1>4, <1>6, <1>8, <1>14, WholeFile DEF saved
  <2>3. /\ serverFile'[p] = clientFile[p] /\ serverUploads'[p] = NoTransfer
        /\ \A o \in Path \ {p} : Same(o)
    BY <1>5, <1>14, <2>2 DEF Same, clientVars, IInv, TypeInv, ServerOK
  <2>4. FilesOK(p)' /\ Running'
    BY <1>5, <1>8, <1>14, <2>3 DEF FilesOK, Whole, FileOf, IInv, Running, clientVars
  <2>5. Uploaded(p)'
    BY <1>3, <1>5, <1>7, <2>1, <2>3, ProgressTyped DEF Uploaded, NoDownload, clientVars
  <2>. QED
    BY <2>1, <2>3, <2>4, <2>5 DEF ServerEffect, Phase
<1>15. CASE /\ k # Chunks
            /\ serverSave' = [serverSave EXCEPT ![p] = saved]
            /\ serverUploads' = [serverUploads EXCEPT ![p].part = k]
            /\ toClient' = Append(toClient, AckChunk(p, k, TRUE))
            /\ UNCHANGED <<serverFile, failure>>
  <2>1. /\ OnlyOne(toClient', p, AckChunk(p, k, TRUE))
        /\ \A o \in Path \ {p} : Keeps(toClient, toClient', o)
    BY <1>3, <1>10, <1>15, ServerAcks
  <2>2. /\ serverSave'[p] = Prefix(clientFile[p], k)
        /\ serverUploads'[p] = [up EXCEPT !.part = k]
        /\ \A o \in Path \ {p} : Same(o)
    BY <1>4, <1>5, <1>15 DEF Same, clientVars, IInv, TypeInv, ServerOK, saved
  <2>3. [up EXCEPT !.part = k] = Progress(k, Chunks)
    BY <1>7 DEF Progress
  <2>4. Uploading(p, k)'
    BY <1>5, <1>7, <2>2, <2>3 DEF Uploading, NoDownload, Prefix, clientVars
  <2>5. k < Chunks
    BY <1>6, <1>15
  <2>6. UploadAck(p)'
    BY <1>3, <2>1, <2>4, <2>5 DEF UploadAck
  <2>7. FilesOK(p)' /\ Running'
    BY <1>5, <1>15, FilesKept DEF IInv, FilesOK, Running, clientVars
  <2>. QED
    BY <2>1, <2>2, <2>6, <2>7 DEF ServerEffect, Phase
<1>. QED
  <2>1. m.part = k
    BY <1>4
  <2>. QED
    BY <1>1, <1>9, <1>11, <1>12, <1>13, <1>14, <1>15, <2>1 DEF HandleChunkOfUpload

LEMMA AckOfDownloadEffect ==
  ASSUME IInv, Regime, NEW m, NEW p \in Path, ServerTakes(m, p), HandleAckOfDownload(m)
  PROVE  ServerEffect(p)
<1>. DEFINE down == serverDownloads[p]
<1>1. m.type = "ack" /\ m.path = p
  BY TakenByServer DEF HandleAckOfDownload
<1>2. UNCHANGED <<clientVars, serverFile, serverSave, serverUploads, version>>
  BY DEF HandleAckOfDownload, ServerTakes
<1>3. Chunks # 0 /\ Chunks \in Nat
  BY ChunksAssumption DEF Regime
<1>4. CASE Farewell(m, p)
  <2>1. /\ m.part = Chunks /\ m.ok /\ ~Active(serverUploads[p])
        /\ Active(down) /\ down.total = Chunks
    BY <1>1, <1>4 DEF Farewell, AckChunk
  <2>2. Completes(down, m.part)
    BY <1>3, <2>1 DEF Completes
  <2>3. /\ serverDownloads' = [serverDownloads EXCEPT ![p] = NoTransfer]
        /\ UNCHANGED <<toClient, failure>>
    BY <1>1, <2>1, <2>2 DEF HandleAckOfDownload
  <2>4. ServerOff(p)' /\ \A o \in Path \ {p} : Same(o)
    BY <1>2, <2>1, <2>3, ProgressTyped
    DEF ServerOff, Same, clientVars, IInv, TypeInv, ServerOK
  <2>. QED
    BY <1>2, <1>4, <2>3, <2>4, FarewellEffect
<1>5. CASE ~Farewell(m, p)
  <2>1. NoneOf(toClient, p) /\ NoneOf(toServer', p)
    BY <1>5, TakenByServer DEF ServerMeets
  <2>2. PICK k \in 1..Chunks :
          /\ m.part = k
          /\ \/ m.ok /\ k < Chunks /\ Downloading(p, k, Chunks)
             \/ ~m.ok /\ Downloading(p, k - 1, Chunks)
    BY <1>1, <1>5, TakenByServer DEF ServerMeets
  <2>3. Active(down) /\ down.total = Chunks /\ serverFile[p] # NoFile
    BY <2>2 DEF Downloading
  <2>4. FilesOK(p)'
    BY <1>2, FilesKept DEF IInv, FilesOK, clientVars
  <2>5. ASSUME NEW j \in 1..Chunks, toClient' = Append(toClient, PartOf(p, j))
        PROVE  /\ OnlyOne(toClient', p, ChunkTransfer(p, j, serverFile'[p][j]))
               /\ \A o \in Path \ {p} : Keeps(toClient, toClient', o)
    <3>1. PartOf(p, j) \in ToClientMsg /\ PartOf(p, j) = ChunkTransfer(p, j, serverFile'[p][j])
      BY <1>2, <2>3, ServerSendsPart
    <3>2. PartOf(p, j).path = p
      BY <3>1 DEF ChunkTransfer
    <3>. QED
      BY <2>1, <2>5, <3>1, <3>2, ServerSendsOne DEF IInv, TypeInv
  <2>6. CASE ~m.ok /\ Downloading(p, k - 1, Chunks)
    <3>1. toClient' = Append(toClient, PartOf(p, k)) /\ UNCHANGED <<serverDownloads, failure>>
      BY <1>1, <2>2, <2>3, <2>6 DEF HandleAckOfDownload
    <3>2. Downloading(p, k - 1, Chunks)'
      BY <1>2, <2>6, <3>1 DEF Downloading, NoUpload, Prefix, clientVars
    <3>3. DownloadChunk(p)'
      BY <2>1, <2>5, <3>1, <3>2 DEF DownloadChunk
    <3>4. Running' /\ \A o \in Path \ {p} : Same(o)
      BY <1>2, <3>1 DEF Same, IInv, Running, clientVars
    <3>. QED
      BY <2>4, <2>5, <3>1, <3>3, <3>4 DEF ServerEffect, Phase
  <2>7. CASE m.ok /\ k < Chunks /\ Downloading(p, k, Chunks)
    <3>1. ~Completes(down, k)
      BY <1>3, <2>3, <2>7 DEF Completes
    <3>2. /\ k + 1 \in 1..Chunks /\ Plus1(k) = k + 1 /\ k = (k + 1) - 1
          /\ k \in PartNumber /\ Chunks \in PartNumber
      BY <1>3, <2>7, PartsTyped
    <3>3. /\ serverDownloads' = [serverDownloads EXCEPT ![p].part = k]
          /\ toClient' = Append(toClient, PartOf(p, k + 1)) /\ UNCHANGED failure
      BY <1>1, <2>2, <2>3, <2>7, <3>1, <3>2 DEF HandleAckOfDownload
    <3>4. /\ serverDownloads'[p] = [down EXCEPT !.part = k]
          /\ \A o \in Path \ {p} : Same(o)
      BY <1>2, <3>3 DEF Same, clientVars, IInv, TypeInv, ServerOK
    <3>5. [down EXCEPT !.part = k] = Progress(k, Chunks)
      <4>1. down = Progress(down.part, Chunks)
        BY <2>3, ProgressTyped DEF IInv, TypeInv, ServerOK
      <4>. QED
        BY <4>1 DEF Progress
    <3>6. Active(serverDownloads'[p]) /\ serverDownloads'[p].total = Chunks
      <4>1. Active(Progress(k, Chunks)) /\ Progress(k, Chunks).total = Chunks
        BY <3>2, ProgressTyped DEF Progress
      <4>. QED
        BY <3>4, <3>5, <4>1
    <3>7. Downloading(p, k, Chunks)'
      BY <1>2, <2>7, <3>6 DEF Downloading, NoUpload, Prefix, clientVars
    <3>8. DownloadChunk(p)'
      BY <2>1, <2>5, <3>2, <3>3, <3>7 DEF DownloadChunk
    <3>. QED
      BY <2>4, <2>5, <3>2, <3>3, <3>4, <3>8 DEF ServerEffect, Phase, IInv, Running
  <2>. QED
    BY <2>2, <2>6, <2>7
<1>. QED
  BY <1>4, <1>5

(* What is left to show of a step in which the client sends of itself.     *)
LEMMA IdlePhases ==
  ASSUME NEW p, Phase(p), Idle(p)
  PROVE  NoneOf(toClient, p) /\ (AtRest(p) \/ Leaving(p))
<1>1. 0 \in PartNumber /\ 1 \in PartNumber
  BY PartsTyped, ChunksAssumption
<1>2. Active(Progress(1, 0))
  BY <1>1, ProgressTyped
<1>3. ~UploadAsked(p) /\ ~UploadSized(p) /\ ~UploadChunk(p) /\ ~UploadAck(p) /\ ~Uploaded(p)
  BY <1>2 DEF Idle, UploadAsked, UploadSized, UploadChunk, UploadAck, Uploaded, Uploading
<1>4. ~DownloadAsked(p) /\ ~DownloadSized(p) /\ ~DownloadChunk(p) /\ ~DownloadAck(p)
  BY <1>2 DEF Idle, DownloadAsked, DownloadSized, DownloadChunk, DownloadAck, Downloading
<1>. QED
  BY <1>3, <1>4 DEF Phase, AtRest, Leaving

(* A request is sent after nothing, or after a farewell.                   *)
LEMMA RequestAsked ==
  ASSUME IInv, NEW p \in Path, Idle(p), NEW x \in ToServerMsg, x.path = p,
         toServer' = Append(toServer, x), UNCHANGED <<serverVars, toClient>>
  PROVE  Asked(p, x)' /\ Sent(toServer, toServer', ToServerMsg, p)
<1>1. toServer \in Seq(ToServerMsg) /\ Phase(p)
  BY DEF IInv, TypeInv, QueuesOK
<1>2. NoneOf(toClient', p) /\ (AtRest(p) \/ Leaving(p))
  BY <1>1, IdlePhases
<1>3. Sent(toServer, toServer', ToServerMsg, p)
  BY DEF Sent
<1>4. CASE AtRest(p)
  <2>1. ServerOff(p)' /\ OnlyOne(toServer', p, x)
    BY <1>1, <1>4, SendOwn DEF AtRest, ServerOff, serverVars
  <2>. QED
    BY <1>2, <1>3, <2>1 DEF Asked
<1>5. CASE Leaving(p)
  <2>1. PICK n : Farewell(n, p) /\ OnlyOne(toServer, p, n)
    BY <1>5 DEF Leaving
  <2>2. Farewell(n, p)'
    BY <2>1 DEF Farewell, ServerOff, serverVars
  <2>3. OnlyPair(toServer', p, n, x)
    BY <1>1, <2>1, SendOwn
  <2>. QED
    BY <1>2, <1>3, <2>2, <2>3 DEF Asked
<1>. QED
  BY <1>2, <1>4, <1>5

LEMMA StartUploadEffect ==
  ASSUME IInv, Regime, NEW p \in Path, StartUpload(p)
  PROVE  ClientEffect(p)
<1>. DEFINE x == [type |-> "uploadRequest", path |-> p, size |-> Chunks]
<1>1. Idle(p) /\ UNCHANGED <<serverVars, toClient, clientFile, clientDownloads, version, failure>>
  BY DEF StartUpload
<1>2. 1 \in 1..Chunks /\ Chunks # 0 /\ Chunks \in PartNumber
  BY PartsTyped, ChunksAssumption DEF Regime
<1>3. SizeInChunks(clientFile[p]) = Chunks
  BY <1>2, WholeFile DEF IInv
<1>4. x \in ToServerMsg /\ x.path = p /\ toServer' = Append(toServer, x)
  BY <1>2, <1>3 DEF StartUpload, ToServerMsg
<1>5. Asked(p, x)' /\ Sent(toServer, toServer', ToServerMsg, p)
  BY <1>1, <1>4, RequestAsked
<1>6. clientUploads'[p] = Progress(1, 0) /\ \A o \in Path \ {p} : Same(o)
  BY <1>1 DEF StartUpload, Same, serverVars, IInv, TypeInv, ClientOK
<1>7. UploadAsked(p)'
  BY <1>1, <1>5, <1>6 DEF UploadAsked, Idle
<1>8. FilesOK(p)' /\ Running'
  BY <1>1, FilesKept DEF IInv, FilesOK, Running, serverVars
<1>. QED
  BY <1>5, <1>6, <1>7, <1>8 DEF ClientEffect, Phase

LEMMA StartDownloadEffect ==
  ASSUME IInv, Regime, NEW p \in Path, StartDownload(p)
  PROVE  ClientEffect(p)
<1>. DEFINE x == [type |-> "downloadRequest", path |-> p]
<1>1. /\ Idle(p) /\ serverFile[p] # NoFile
      /\ UNCHANGED <<serverVars, toClient, clientFile, clientUploads, version, failure>>
  BY DEF StartDownload
<1>2. x \in ToServerMsg /\ x.path = p /\ toServer' = Append(toServer, x)
  BY DEF StartDownload, ToServerMsg
<1>3. Asked(p, x)' /\ Sent(toServer, toServer', ToServerMsg, p)
  BY <1>1, <1>2, RequestAsked
<1>4. /\ clientDownloads'[p] = Progress(1, 0) /\ clientSave'[p] = EmptySave
      /\ \A o \in Path \ {p} : Same(o)
  BY <1>1 DEF StartDownload, Same, serverVars, IInv, TypeInv, ClientOK
<1>5. DownloadAsked(p)'
  BY <1>1, <1>3, <1>4 DEF DownloadAsked, Idle, serverVars
<1>6. FilesOK(p)' /\ Running'
  BY <1>1, FilesKept DEF IInv, FilesOK, Running, serverVars
<1>. QED
  BY <1>3, <1>4, <1>5, <1>6 DEF ClientEffect, Phase

LEMMA RewriteEffect ==
  ASSUME IInv, NEW p \in Path, Rewrite(p)
  PROVE  ClientEffect(p)
<1>1. Idle(p) /\ version[p] \in Nat /\ version[p] + 1 \in 1..version[p] + 1
  BY DEF Rewrite, IInv, TypeInv, BoundsOK
<1>2. /\ version'[p] = version[p] + 1 /\ clientFile'[p] = FileOf(version[p] + 1)
      /\ \A o \in Path \ {p} : Same(o)
  BY DEF Rewrite, Same, serverVars, IInv, TypeInv, BoundsOK, ClientOK
<1>3. UNCHANGED <<clientUploads, clientDownloads, serverVars, toServer, toClient, failure>>
  BY DEF Rewrite
<1>4. Phase(p)'
  <2>1. AtRest(p) \/ Leaving(p)
    BY <1>1, IdlePhases DEF IInv
  <2>2. CASE AtRest(p)
    BY <1>3, <2>2 DEF AtRest, Idle, ServerOff, serverVars, Phase
  <2>3. CASE Leaving(p)
    BY <1>3, <2>3 DEF Leaving, Idle, Farewell, ServerOff, serverVars, Phase
  <2>. QED
    BY <2>1, <2>2, <2>3
<1>5. FilesOK(p)'
  <2>1. Whole(clientFile[p], p)'
    BY <1>1, <1>2 DEF Whole, FileOf
  <2>2. ASSUME NEW v \in 1..version[p], serverFile[p] = FileOf(v)
        PROVE  Whole(serverFile[p], p)'
    BY <1>1, <1>2, <1>3, <2>2 DEF Whole, FileOf, serverVars
  <2>. QED
    BY <1>3, <2>1, <2>2 DEF FilesOK, Whole, IInv, serverVars
<1>6. Sent(toServer, toServer', ToServerMsg, p) /\ Running'
  BY <1>3 DEF Sent, IInv, Running
<1>. QED
  BY <1>2, <1>4, <1>5, <1>6 DEF ClientEffect

(* The paths a step is not about stay in their phases.                     *)
LEMMA OthersKept ==
  ASSUME IInv, NEW p \in Path, TypeInv', Running', Phase(p)', FilesOK(p)',
         \A o \in Path \ {p} : /\ Same(o) /\ version'[o] = version[o]
                               /\ Keeps(toServer, toServer', o) /\ Keeps(toClient, toClient', o)
  PROVE  IInv'
<1>1. ASSUME NEW o \in Path
      PROVE  Phase(o)' /\ FilesOK(o)'
  <2>1. CASE o = p
    BY <2>1
  <2>2. CASE o # p
    <3>1. Phase(o)'
      BY <2>2, PhaseKept DEF IInv
    <3>2. FilesOK(o)'
      BY <2>2, FilesKept DEF IInv, FilesOK, Same
    <3>. QED
      BY <3>1, <3>2
  <2>. QED
    BY <2>1, <2>2
<1>2. ASSUME NEW o \in Path
      PROVE  Whole(clientFile[o], o)' /\ (serverFile[o] = NoFile \/ Whole(serverFile[o], o))'
  BY <1>1 DEF FilesOK
<1>. QED
  BY <1>1, <1>2 DEF IInv

LEMMA ClientReceiveIInv ==
  ASSUME IInv, Regime, ClientReceive
  PROVE  IInv'
<1>1. PICK m \in ToClientMsg, p \in Path : m = Head(toClient) /\ p = m.path
  BY ToClientMsgOf DEF ClientReceive, IInv, TypeInv, QueuesOK
<1>2. ClientTakes(m, p)
  BY <1>1 DEF ClientReceive, ClientTakes
<1>3. ClientEffect(p)
  <2>1. CASE HandleUploadSizeReceived(m)
    BY <1>1, <1>2, <2>1, UploadSizeEffect
  <2>2. CASE HandleAckOfUpload(m)
    BY <1>1, <1>2, <2>2, AckOfUploadEffect
  <2>3. CASE HandleDownloadSizeReceived(m)
    BY <1>1, <1>2, <2>3, DownloadSizeEffect
  <2>4. CASE HandleChunkOfDownload(m)
    BY <1>1, <1>2, <2>4, ChunkOfDownloadEffect
  <2>. QED
    BY <1>1, <2>1, <2>2, <2>3, <2>4 DEF ClientReceive
<1>4. ASSUME NEW o \in Path \ {p}
      PROVE  Keeps(toServer, toServer', o) /\ Keeps(toClient, toClient', o)
  <2>1. Keeps(toServer, toServer', o)
    BY <1>3, SentKeeps DEF ClientEffect, IInv, TypeInv, QueuesOK
  <2>2. Keeps(toClient, toClient', o)
    BY <1>2, TakeOther DEF ClientTakes, IInv, TypeInv, QueuesOK
  <2>. QED
    BY <2>1, <2>2
<1>5. TypeInv' /\ version' = version
  BY <1>2, ClientReceiveTyped DEF IInv, ClientTakes
<1>6. Running' /\ Phase(p)' /\ FilesOK(p)'
  BY <1>3 DEF ClientEffect
<1>7. \A o \in Path \ {p} : /\ Same(o) /\ version'[o] = version[o]
                            /\ Keeps(toServer, toServer', o) /\ Keeps(toClient, toClient', o)
  BY <1>3, <1>4, <1>5 DEF ClientEffect
<1>. QED
  BY <1>1, <1>5, <1>6, <1>7, OthersKept

LEMMA ServerReceiveIInv ==
  ASSUME IInv, Regime, ServerReceive
  PROVE  IInv'
<1>1. PICK m \in ToServerMsg, p \in Path : m = Head(toServer) /\ p = m.path
  BY ToServerMsgOf DEF ServerReceive, IInv, TypeInv, QueuesOK
<1>2. ServerTakes(m, p)
  BY <1>1 DEF ServerReceive, ServerTakes
<1>3. ServerEffect(p)
  <2>1. CASE HandleUploadRequest(m)
    BY <1>1, <1>2, <2>1, UploadRequestEffect
  <2>2. CASE HandleDownloadRequest(m)
    BY <1>1, <1>2, <2>2, DownloadRequestEffect
  <2>3. CASE HandleChunkOfUpload(m)
    BY <1>1, <1>2, <2>3, ChunkOfUploadEffect
  <2>4. CASE HandleAckOfDownload(m)
    BY <1>1, <1>2, <2>4, AckOfDownloadEffect
  <2>5. CASE HandleCancelReceived(m)
    BY <1>1, <1>2, <2>5, CancelEffect
  <2>. QED
    BY <1>1, <2>1, <2>2, <2>3, <2>4, <2>5 DEF ServerReceive
<1>4. ASSUME NEW o \in Path \ {p}
      PROVE  Keeps(toServer, toServer', o)
  BY <1>2, TakeOther DEF ServerTakes, IInv, TypeInv, QueuesOK
<1>5. TypeInv' /\ version' = version
  BY <1>2, ServerReceiveTyped DEF IInv, ServerTakes
<1>6. Running' /\ Phase(p)' /\ FilesOK(p)'
  BY <1>3 DEF ServerEffect
<1>7. \A o \in Path \ {p} : /\ Same(o) /\ version'[o] = version[o]
                            /\ Keeps(toServer, toServer', o) /\ Keeps(toClient, toClient', o)
  BY <1>3, <1>4, <1>5 DEF ServerEffect
<1>. QED
  BY <1>1, <1>5, <1>6, <1>7, OthersKept

LEMMA ClientMovesIInv ==
  ASSUME IInv, Regime, ClientMoves
  PROVE  IInv'
<1>1. PICK p \in Path : StartUpload(p) \/ StartDownload(p) \/ Rewrite(p)
  BY DEF ClientMoves, CancelAnywhere, Regime
<1>2. ClientEffect(p)
  BY <1>1, StartUploadEffect, StartDownloadEffect, RewriteEffect
<1>3. toClient' = toClient /\ \A o \in Path \ {p} : version'[o] = version[o]
  BY <1>1 DEF StartUpload, StartDownload, Rewrite, IInv, TypeInv, BoundsOK
<1>4. \A o \in Path \ {p} : Keeps(toServer, toServer', o) /\ Keeps(toClient, toClient', o)
  <2>1. \A o \in Path \ {p} : Keeps(toServer, toServer', o)
    BY <1>2, SentKeeps DEF ClientEffect, IInv, TypeInv, QueuesOK
  <2>. QED
    BY <1>3, <2>1 DEF Keeps
<1>5. TypeInv'
  BY <1>1, ClientMovesTyped DEF IInv
<1>. QED
  BY <1>2, <1>3, <1>4, <1>5, OthersKept DEF ClientEffect

LEMMA InitIInv == Init => IInv
<1>. SUFFICES ASSUME Init PROVE IInv
  OBVIOUS
<1>1. TypeInv /\ Running
  BY InitTypeInv DEF Init, Running
<1>2. ASSUME NEW p \in Path
      PROVE  Whole(clientFile[p], p) /\ serverFile[p] = NoFile
  BY DEF Init, Whole
<1>3. ASSUME NEW p \in Path
      PROVE  Phase(p)
  <2>1. NoneOf(toServer, p) /\ NoneOf(toClient, p)
    BY DEF Init, NoneOf
  <2>2. Idle(p) /\ ServerOff(p)
    BY ProgressTyped DEF Init, Idle, ServerOff
  <2>. QED
    BY <2>1, <2>2 DEF AtRest, Phase
<1>. QED
  BY <1>1, <1>2, <1>3 DEF IInv

LEMMA IInvStep == ASSUME Regime PROVE IInv /\ [Next]_vars => IInv'
<1>. SUFFICES ASSUME IInv, [Next]_vars PROVE IInv'
  OBVIOUS
<1>1. CASE UNCHANGED vars
  <2>1. TypeInv' /\ Running'
    BY <1>1, TypeInvStep DEF IInv, Running, vars
  <2>2. ASSUME NEW p \in Path
        PROVE  Phase(p)' /\ FilesOK(p)'
    <3>1. Same(p) /\ version'[p] = version[p]
      BY <1>1 DEF Same, vars, boundVars, clientVars, serverVars
    <3>2. Keeps(toServer, toServer', p) /\ Keeps(toClient, toClient', p)
      BY <1>1 DEF Keeps, vars
    <3>. QED
      BY <3>1, <3>2, PhaseKept, FilesKept DEF IInv, FilesOK, Same
  <2>3. /\ \A p \in Path : Whole(clientFile[p], p)'
        /\ \A p \in Path : (serverFile[p] = NoFile \/ Whole(serverFile[p], p))'
    BY <2>2 DEF FilesOK
  <2>. QED
    BY <2>1, <2>2, <2>3 DEF IInv
<1>2. CASE ClientMoves
  BY <1>2, ClientMovesIInv
<1>3. CASE ClientReceive
  BY <1>3, ClientReceiveIInv
<1>4. CASE ServerReceive
  BY <1>4, ServerReceiveIInv
<1>. QED
  BY <1>1, <1>2, <1>3, <1>4 DEF Next

(* The inductive invariant of a regime in which files have contents.       *)
LEMMA IInvAlways == ASSUME Regime PROVE Spec => []IInv
<1>1. IInv /\ [Next]_vars => IInv'
  BY IInvStep
<1>. QED
  BY <1>1, InitIInv, PTL DEF Spec

-----------------------------------------------------------------------------
(* What the phases say *)

(* What was transferred is whole (FilesAreWhole): every chunk of one       *)
(* version, each in its place, although chunks are refused and sent again  *)
(* and transfers are cancelled in their progress handlers.                 *)
THEOREM FilesWhole ==
  ASSUME Chunks # 0, Cancel # "anywhere"
  PROVE  Spec => []FilesAreWhole
<1>1. Regime
  BY DEF Regime
<1>2. IInv => FilesAreWhole
  BY DEF IInv, FilesAreWhole, Whole
<1>3. Spec => []IInv
  BY <1>1, IInvAlways
<1>. QED
  BY <1>2, <1>3, PTL

(* No assertion of either end fails (NothingFails): every message meets    *)
(* the transfer it belongs to, a cancellation too.                         *)
THEOREM NoFailure ==
  ASSUME Chunks # 0, Cancel # "anywhere"
  PROVE  Spec => []NothingFails
<1>1. Regime
  BY DEF Regime
<1>2. IInv => NothingFails
  BY DEF IInv, NothingFails
<1>3. Spec => []IInv
  BY <1>1, IInvAlways
<1>. QED
  BY <1>2, <1>3, PTL

(* The messages of a path in a queue, counted by type.                     *)
LEMMA InFlightOf ==
  ASSUME QueuesOK, NEW q, q \in {toServer, toClient}, NEW p, NEW types
  PROVE  /\ NoneOf(q, p) => InFlight(q, p, types) = 0
         /\ \A m : OnlyOne(q, p, m) => InFlight(q, p, types) = One(m.type \in types)
         /\ \A m, n : OnlyPair(q, p, m, n) =>
              InFlight(q, p, types) = One(m.type \in types) + One(n.type \in types)
<1>1. InFlight(q, p, types) = Count(q, p, types)
  BY DEF InFlight, Count
<1>2. q \in Seq(ToServerMsg \cup ToClientMsg)
  <2>1. toServer \in Seq(ToServerMsg \cup ToClientMsg)
    BY DEF QueuesOK
  <2>2. toClient \in Seq(ToServerMsg \cup ToClientMsg)
    BY DEF QueuesOK
  <2>. QED
    BY <2>1, <2>2
<1>3. ASSUME NEW m, NEW n, OnlyPair(q, p, m, n)
      PROVE  InFlight(q, p, types) = One(m.type \in types) + One(n.type \in types)
  BY <1>1, <1>2, <1>3, CountsOfPair DEF One
<1>. QED
  BY <1>1, <1>3, Counts DEF One

(* How many messages of each kind the queues hold of a path.               *)
UploadMessages(p) == InFlight(toServer, p, {"uploadRequest", "chunk"})
                       + InFlight(toClient, p, {"uploadSize", "ack"})
DownloadRequests(p) == InFlight(toServer, p, {"downloadRequest"})
DownloadChunks(p) == InFlight(toClient, p, {"chunk"})
DownloadAcks(p) == InFlight(toServer, p, {"ack"})

LEMMA PhaseCounts ==
  ASSUME IInv, NEW p \in Path
  PROVE  /\ UploadMessages(p) = One(Active(clientUploads[p]))
         /\ DownloadRequests(p) + DownloadChunks(p) <= One(Active(clientDownloads[p]))
         /\ DownloadAcks(p) + DownloadChunks(p) <= 1
<1>. DEFINE Sends(m) ==
       /\ UploadMessages(p) = One(m.type \in {"uploadRequest", "chunk"})
       /\ DownloadRequests(p) = One(m.type = "downloadRequest")
       /\ DownloadChunks(p) = 0 /\ DownloadAcks(p) = One(m.type = "ack")
     Gets(m) ==
       /\ UploadMessages(p) = One(m.type \in {"uploadSize", "ack"})
       /\ DownloadRequests(p) = 0 /\ DownloadAcks(p) = 0
       /\ DownloadChunks(p) = One(m.type = "chunk")
<1>. USE DEF UploadMessages, DownloadRequests, DownloadChunks, DownloadAcks
<1>0. QueuesOK /\ Phase(p)
  BY DEF IInv, TypeInv
<1>1. ASSUME NEW m, OnlyOne(toServer, p, m), NoneOf(toClient, p)
      PROVE  Sends(m)
  BY <1>0, <1>1, InFlightOf DEF One
<1>2. ASSUME NEW m, OnlyOne(toClient, p, m), NoneOf(toServer, p)
      PROVE  Gets(m)
  BY <1>0, <1>2, InFlightOf DEF One
<1>3. Active(Progress(1, 0))
  BY PartsTyped, ProgressTyped, ChunksAssumption
<1>4. CASE AtRest(p)
  BY <1>0, <1>4, InFlightOf DEF AtRest, Idle, One
<1>5. ASSUME NEW m, Farewell(m, p)
      PROVE  m.type \in {"cancel", "ack"}
  BY <1>5 DEF Farewell, AckChunk
<1>6. CASE Leaving(p)
  <2>1. PICK m : Farewell(m, p) /\ OnlyOne(toServer, p, m)
    BY <1>6 DEF Leaving
  <2>2. Sends(m) /\ m.type \in {"cancel", "ack"} /\ Idle(p)
    BY <1>1, <1>5, <1>6, <2>1 DEF Leaving
  <2>. HIDE DEF UploadMessages, DownloadRequests, DownloadChunks, DownloadAcks
  <2>. QED
    BY <2>2 DEF Idle, One
<1>7. ASSUME NEW request, request.type \in {"uploadRequest", "downloadRequest"}, Asked(p, request)
      PROVE  /\ UploadMessages(p) = One(request.type = "uploadRequest")
             /\ DownloadRequests(p) = One(request.type = "downloadRequest")
             /\ DownloadChunks(p) = 0 /\ DownloadAcks(p) \in {0, 1}
  <2>1. CASE OnlyOne(toServer, p, request)
    BY <1>1, <1>7, <2>1 DEF Asked, One
  <2>2. CASE \E m : Farewell(m, p) /\ OnlyPair(toServer, p, m, request)
    <3>1. PICK m : Farewell(m, p) /\ OnlyPair(toServer, p, m, request)
      BY <2>2
    <3>2. m.type \in {"cancel", "ack"} /\ NoneOf(toClient, p)
      BY <1>5, <1>7, <3>1 DEF Asked
    <3>3. /\ InFlight(toClient, p, {"uploadSize", "ack"}) = 0
          /\ InFlight(toClient, p, {"chunk"}) = 0
      BY <1>0, <3>2, InFlightOf
    <3>4. ASSUME NEW types
          PROVE  InFlight(toServer, p, types) = One(m.type \in types) + One(request.type \in types)
      BY <1>0, <3>1, InFlightOf
    <3>. QED
      BY <1>7, <3>2, <3>3, <3>4 DEF One
  <2>. QED
    BY <1>7, <2>1, <2>2 DEF Asked
<1>8. CASE UploadAsked(p)
  <2>. DEFINE request == [type |-> "uploadRequest", path |-> p, size |-> Chunks]
  <2>1. Asked(p, request) /\ request.type = "uploadRequest"
    BY <1>8 DEF UploadAsked
  <2>2. /\ UploadMessages(p) = 1 /\ DownloadRequests(p) = 0
        /\ DownloadChunks(p) = 0 /\ DownloadAcks(p) \in {0, 1}
    BY <1>7, <2>1 DEF One
  <2>3. Active(clientUploads[p]) /\ ~Active(clientDownloads[p])
    BY <1>3, <1>8 DEF UploadAsked
  <2>. HIDE DEF UploadMessages, DownloadRequests, DownloadChunks, DownloadAcks
  <2>. QED
    BY <2>2, <2>3 DEF One
<1>9. CASE DownloadAsked(p)
  <2>. DEFINE request == [type |-> "downloadRequest", path |-> p]
  <2>1. Asked(p, request) /\ request.type = "downloadRequest"
    BY <1>9 DEF DownloadAsked
  <2>2. /\ UploadMessages(p) = 0 /\ DownloadRequests(p) = 1
        /\ DownloadChunks(p) = 0 /\ DownloadAcks(p) \in {0, 1}
    BY <1>7, <2>1 DEF One
  <2>3. Active(clientDownloads[p]) /\ ~Active(clientUploads[p])
    BY <1>3, <1>9 DEF DownloadAsked
  <2>. HIDE DEF UploadMessages, DownloadRequests, DownloadChunks, DownloadAcks
  <2>. QED
    BY <2>2, <2>3 DEF One
<1>. HIDE DEF UploadMessages, DownloadRequests, DownloadChunks, DownloadAcks
<1>10. CASE UploadSized(p)
  <2>1. Gets([type |-> "uploadSize", path |-> p, total |-> Chunks])
    BY <1>2, <1>10 DEF UploadSized
  <2>. QED
    BY <1>3, <1>10, <2>1 DEF UploadSized, NoDownload, One
<1>11. CASE UploadChunk(p)
  <2>1. PICK k \in 1..Chunks : /\ Uploading(p, k - 1)
                               /\ OnlyOne(toServer, p, ChunkTransfer(p, k, clientFile[p][k]))
    BY <1>11 DEF UploadChunk
  <2>2. Sends(ChunkTransfer(p, k, clientFile[p][k]))
    BY <1>1, <1>11, <2>1 DEF UploadChunk
  <2>. QED
    BY <2>1, <2>2 DEF Uploading, NoDownload, ChunkTransfer, One
<1>12. CASE UploadAck(p)
  <2>1. PICK k \in 1..Chunks :
          /\ Active(clientUploads[p]) /\ NoDownload(p)
          /\ OnlyOne(toClient, p, AckChunk(p, k, TRUE)) \/ OnlyOne(toClient, p, AckChunk(p, k, FALSE))
    BY <1>12 DEF UploadAck, Uploading
  <2>2. PICK m : OnlyOne(toClient, p, m) /\ m.type = "ack"
    BY <2>1 DEF AckChunk
  <2>3. Gets(m)
    BY <1>2, <1>12, <2>2 DEF UploadAck
  <2>. QED
    BY <2>1, <2>2, <2>3 DEF NoDownload, One
<1>13. CASE Uploaded(p)
  <2>1. Gets(AckChunk(p, Chunks, TRUE))
    BY <1>2, <1>13 DEF Uploaded
  <2>2. AckChunk(p, Chunks, TRUE).type = "ack"
    BY DEF AckChunk
  <2>3. Active(clientUploads[p]) /\ ~Active(clientDownloads[p])
    BY <1>13 DEF Uploaded, NoDownload
  <2>4. /\ UploadMessages(p) = 1 /\ DownloadRequests(p) = 0
        /\ DownloadAcks(p) = 0 /\ DownloadChunks(p) = 0
    BY <2>1, <2>2, Zenon DEF One
  <2>. QED
    BY <2>3, <2>4 DEF One
<1>14. CASE DownloadSized(p)
  <2>1. /\ NoneOf(toServer, p)
        /\ OnlyPair(toClient, p, [type |-> "downloadSize", path |-> p, total |-> Chunks],
                                 ChunkTransfer(p, 1, serverFile[p][1]))
    BY <1>14 DEF DownloadSized
  <2>2. /\ UploadMessages(p) = 0 /\ DownloadRequests(p) = 0
        /\ DownloadChunks(p) = 1 /\ DownloadAcks(p) = 0
    <3>1. /\ InFlight(toClient, p, {"uploadSize", "ack"}) = 0
          /\ InFlight(toClient, p, {"chunk"}) = 1
      BY <1>0, <2>1, InFlightOf DEF One, ChunkTransfer
    <3>. QED
      BY <1>0, <2>1, <3>1, InFlightOf
      DEF UploadMessages, DownloadRequests, DownloadChunks, DownloadAcks
  <2>. QED
    BY <1>14, <2>2 DEF DownloadSized, Downloading, NoUpload, One
<1>15. CASE DownloadChunk(p)
  <2>1. PICK k \in 1..Chunks : /\ Downloading(p, k - 1, Chunks)
                               /\ OnlyOne(toClient, p, ChunkTransfer(p, k, serverFile[p][k]))
    BY <1>15 DEF DownloadChunk
  <2>2. Gets(ChunkTransfer(p, k, serverFile[p][k]))
    BY <1>2, <1>15, <2>1 DEF DownloadChunk
  <2>. QED
    BY <2>1, <2>2 DEF Downloading, NoUpload, ChunkTransfer, One
<1>16. CASE DownloadAck(p)
  <2>1. PICK k \in 1..Chunks :
          /\ Active(clientDownloads[p]) /\ NoUpload(p)
          /\ OnlyOne(toServer, p, AckChunk(p, k, TRUE)) \/ OnlyOne(toServer, p, AckChunk(p, k, FALSE))
    BY <1>16 DEF DownloadAck, Downloading
  <2>2. PICK m : OnlyOne(toServer, p, m) /\ m.type = "ack"
    BY <2>1 DEF AckChunk
  <2>3. Sends(m)
    BY <1>1, <1>16, <2>2 DEF DownloadAck
  <2>. QED
    BY <2>1, <2>2, <2>3 DEF NoUpload, One
<1>. QED
  BY <1>0, <1>4, <1>6, <1>8, <1>9, <1>10, <1>11, <1>12, <1>13, <1>14, <1>15, <1>16 DEF Phase

(* One message of an upload is on its way while it lasts, and at most one  *)
(* of a download; the server sends a part only to a client that waits for  *)
(* it (StopAndWait).                                                       *)
THEOREM OneMessage ==
  ASSUME Chunks # 0, Cancel # "anywhere"
  PROVE  Spec => []StopAndWait
<1>1. Regime
  BY DEF Regime
<1>2. IInv => StopAndWait
  BY PhaseCounts
  DEF StopAndWait, UploadMessages, DownloadRequests, DownloadChunks, DownloadAcks
<1>3. Spec => []IInv
  BY <1>1, IInvAlways
<1>. QED
  BY <1>2, <1>3, PTL

(* A message that is sent changes its queue.                               *)
LEMMA SendingShows ==
  ASSUME QueuesOK, NEW x, toServer' = Append(toServer, x)
  PROVE  toServer' # toServer
<1>1. Len(toServer) \in Nat /\ Len(Append(toServer, x)) = Len(toServer) + 1
  BY DEF QueuesOK
<1>. QED
  BY <1>1

LEMMA UploadEnds ==
  ASSUME IInv, Regime, NEW p \in Path, ClientReceive,
         Active(clientUploads[p]), ~Active(clientUploads'[p]), toServer' = toServer
  PROVE  serverFile[p] = clientFile[p]
<1>1. QueuesOK
  BY DEF IInv, TypeInv
<1>2. PICK m \in ToClientMsg, q \in Path : m = Head(toClient) /\ q = m.path
  BY ToClientMsgOf DEF ClientReceive, IInv, TypeInv, QueuesOK
<1>3. ClientTakes(m, q)
  BY <1>2 DEF ClientReceive, ClientTakes
<1>4. CASE HandleUploadSizeReceived(m)
  <2>1. toServer' # toServer \/ clientUploads' = clientUploads
    BY <1>1, <1>4, SendingShows DEF HandleUploadSizeReceived, SendPart
  <2>. QED
    BY <2>1
<1>5. CASE HandleDownloadSizeReceived(m) \/ HandleChunkOfDownload(m)
  BY <1>5 DEF HandleDownloadSizeReceived, HandleChunkOfDownload, CancelDownload, clientVars
<1>6. CASE HandleAckOfUpload(m)
  <2>1. q = p
    <3>1. CASE q # p
      BY <1>3, <1>6, <3>1, AckOfUploadEffect DEF ClientEffect, Same
    <3>. QED
      BY <3>1
  <2>2. \/ Uploaded(p)
        \/ \E k \in 1..Chunks : /\ m.part = k
                                /\ ~m.ok \/ (k < Chunks /\ Uploading(p, k))
    BY <1>3, <1>6, <2>1, TakenByClient, NextToClient DEF HandleAckOfUpload
  <2>3. CASE Uploaded(p)
    BY <2>3 DEF Uploaded
  <2>4. ASSUME NEW k \in 1..Chunks, m.part = k, ~m.ok \/ (k < Chunks /\ Uploading(p, k))
        PROVE  FALSE
    <3>1. ~m.ok \/ ~Completes(clientUploads[p], m.part)
      BY <2>4, ChunksAssumption DEF Uploading, Completes
    <3>2. \E part : SendPart(p, clientUploads[p].total, part) \/ CancelUpload(p)
      BY <1>2, <1>6, <2>1, <3>1 DEF HandleAckOfUpload
    <3>. QED
      BY <1>1, <3>2, SendingShows DEF SendPart, CancelUpload
  <2>. QED
    BY <2>2, <2>3, <2>4
<1>. QED
  BY <1>2, <1>4, <1>5, <1>6 DEF ClientReceive

(* When the client counts an upload as done, the server has committed the  *)
(* very file the client has (UploadedMeansCommitted).                      *)
THEOREM UploadCommitted ==
  ASSUME Chunks # 0, Cancel # "anywhere"
  PROVE  Spec => UploadedMeansCommitted
<1>. DEFINE Ends(p) == Active(clientUploads[p]) /\ ~Active(clientUploads'[p]) /\ toServer' = toServer
            Step == \A p \in Path : Ends(p) => serverFile[p] = clientFile[p]
<1>1. Regime
  BY DEF Regime
<1>2. Spec => []IInv
  BY <1>1, IInvAlways
<1>3. IInv /\ [Next]_vars => Step
  <2>. SUFFICES ASSUME IInv, [Next]_vars, NEW p \in Path, Ends(p)
                PROVE  serverFile[p] = clientFile[p]
    OBVIOUS
  <2>1. clientUploads'[p] # clientUploads[p] /\ QueuesOK
    BY DEF IInv, TypeInv
  <2>2. ~UNCHANGED vars /\ ~ServerReceive
    BY <2>1 DEF vars, clientVars, ServerReceive
  <2>3. ~ClientMoves
    <3>1. ASSUME NEW q \in Path
          PROVE  ~StartUpload(q) /\ ~StartDownload(q)
      BY <2>1, SendingShows DEF StartUpload, StartDownload
    <3>2. ASSUME NEW q \in Path
          PROVE  ~Rewrite(q) /\ ~CancelAnywhere(q)
      BY <1>1, <2>1 DEF Rewrite, CancelAnywhere, Regime
    <3>. QED
      BY <3>1, <3>2 DEF ClientMoves
  <2>. QED
    BY <1>1, <2>2, <2>3, UploadEnds DEF Next
<1>. QED
  BY <1>2, <1>3, PTL DEF Spec, UploadedMeansCommitted

-----------------------------------------------------------------------------
(***************************************************************************)
(* The storage in a directory that the chunks are written to implements    *)
(* FileStorage, for every set of users, names and data and every number    *)
(* of parts.                                                               *)
(***************************************************************************)

(* What is written into a content is a content.                            *)
LEMMA WithPartIsContent ==
  ASSUME NEW c \in Storage!Contents, NEW p \in 1..Parts, NEW x \in Data
  PROVE  Storage!With(c, p, x) \in Storage!Contents
<1>1. PICK S \in SUBSET (1..Parts) : c \in [S -> Data]
  BY DEF Storage!Contents
<1>2. Storage!With(c, p, x) \in [S \cup {p} -> Data]
  BY <1>1 DEF Storage!With
<1>. QED
  BY <1>2 DEF Storage!Contents

(* So is what is left of one.                                              *)
LEMMA BeginningIsContent ==
  ASSUME NEW c \in Storage!Contents, NEW left \in Storage!Beginnings(c)
  PROVE  left \in Storage!Contents
<1>1. PICK S \in SUBSET (1..Parts) : c \in [S -> Data]
  BY DEF Storage!Contents
<1>2. PICK n \in 0..Parts : left = [p \in DOMAIN c \cap 1..n |-> c[p]]
  BY DEF Storage!Beginnings
<1>3. left \in [S \cap 1..n -> Data]
  BY <1>1, <1>2
<1>. QED
  BY <1>3 DEF Storage!Contents

LEMMA WithoutPartIsContent ==
  ASSUME NEW c \in Storage!Contents, NEW p
  PROVE  Storage!Without(c, {p}) \in Storage!Contents
<1>1. PICK S \in SUBSET (1..Parts) : c \in [S -> Data]
  BY DEF Storage!Contents
<1>2. Storage!Without(c, {p}) \in [S \ {p} -> Data]
  BY <1>1 DEF Storage!Without
<1>. QED
  BY <1>2 DEF Storage!Contents

LEMMA NothingIsContent == Storage!Nothing \in Storage!Contents
<1>1. Storage!Nothing \in [{} -> Data]
  BY DEF Storage!Nothing
<1>. QED
  BY <1>1 DEF Storage!Contents

(* Files and save files keep their types (LocalTypeOK).                    *)
THEOREM LocalTypeCorrect == LocalSpec => []LocalTypeOK
<1>1. LocalInit => LocalTypeOK
  BY DEF LocalInit, LocalTypeOK
<1>2. LocalTypeOK /\ [LocalNext]_localVars => LocalTypeOK'
  <2>. SUFFICES ASSUME LocalTypeOK, [LocalNext]_localVars
                PROVE  LocalTypeOK'
    OBVIOUS
  <2>. USE NothingIsContent DEF LocalTypeOK
  <2>1. ASSUME NEW f \in Storage!File, NEW ok \in BOOLEAN, BeginWrite(f, ok)
        PROVE  LocalTypeOK'
    BY <2>1 DEF BeginWrite, Storage!With, NewSave
  <2>2. ASSUME NEW f \in Storage!File, NEW ok \in BOOLEAN, NEW p \in 1..Parts,
               NEW x \in Data, WriteRange(f, p, x, ok)
        PROVE  LocalTypeOK'
    <3>1. f \in DOMAIN saves /\ saves[f] \in [parts : Storage!Contents, error : BOOLEAN]
      BY <2>2 DEF WriteRange
    <3>2. /\ Storage!With(saves[f].parts, p, x) \in Storage!Contents
          /\ Storage!Without(saves[f].parts, {p}) \in Storage!Contents
      BY <3>1, WithPartIsContent, WithoutPartIsContent
    <3>3. PICK save : save \in [parts : Storage!Contents, error : BOOLEAN]
                      /\ saves' = Storage!With(saves, f, save)
      BY <2>2, <3>1, <3>2 DEF WriteRange
    <3>. QED
      BY <2>2, <3>3 DEF WriteRange, Storage!With
  <2>3. ASSUME NEW f \in Storage!File, NEW ok \in BOOLEAN, FinishWrite(f, ok)
        PROVE  LocalTypeOK'
    BY <2>3 DEF FinishWrite, Storage!With, Storage!Without
  <2>4. ASSUME NEW f \in Storage!File, AbortWrite(f)
        PROVE  LocalTypeOK'
    BY <2>4 DEF AbortWrite, Storage!Without
  <2>5. ASSUME NEW f \in Storage!File, NEW ok \in BOOLEAN, NEW c \in Storage!Contents,
               WriteFile(f, c, ok)
        PROVE  LocalTypeOK'
    BY <2>5, BeginningIsContent DEF WriteFile, Storage!With
  <2>10. ASSUME NEW f \in Storage!File, NEW c \in Storage!Contents, RestartInWriteFile(f, c)
         PROVE  LocalTypeOK'
    BY <2>10, BeginningIsContent DEF RestartInWriteFile, Storage!With
  <2>6. ASSUME NEW f \in Storage!File, NEW ok \in BOOLEAN, DeleteFile(f, ok)
        PROVE  LocalTypeOK'
    BY <2>6 DEF DeleteFile, Storage!Without
  <2>7. ASSUME NEW u \in User, Cleanup(u)
        PROVE  LocalTypeOK'
    BY <2>7 DEF Cleanup, Storage!Without
  <2>8. CASE Restart
    BY <2>8 DEF Restart
  <2>9. CASE UNCHANGED localVars
    BY <2>9 DEF localVars
  <2>. QED
    BY <2>1, <2>2, <2>3, <2>4, <2>5, <2>6, <2>7, <2>8, <2>9, <2>10 DEF LocalNext
<1>. QED
  BY <1>1, <1>2, PTL DEF LocalSpec

(* The writes that FileStorage speaks of.                                  *)
OpenWrites(table) == [f \in DOMAIN table |-> table[f].parts]

(* Opening or closing a save file opens or closes the write it stands for. *)
LEMMA WrittenWith ==
  ASSUME NEW table, NEW f, NEW s
  PROVE  OpenWrites(Storage!With(table, f, s)) = Storage!With(OpenWrites(table), f, s.parts)
BY DEF OpenWrites, Storage!With

LEMMA WrittenWithout ==
  ASSUME NEW table, NEW S
  PROVE  OpenWrites(Storage!Without(table, S)) = Storage!Without(OpenWrites(table), S)
BY DEF OpenWrites, Storage!Without

(* Every step of a local storage is one that FileStorage allows: a failed  *)
(* range spoils its own place at most, a save file is committed with all   *)
(* of its parts or not at all, cleanup forgets only what is below the      *)
(* user's prefix, and only writeFile leaves a beginning, whatever the disk *)
(* had room for and wherever in it the program stopped.                    *)
THEOREM LocalStorageIsFileStorage == LocalSpec => LocalImplements
<1>1. LocalInit => Storage!Init
  BY DEF LocalInit, Storage!Init, NewSave
<1>2. LocalTypeOK /\ [LocalNext]_localVars => [Storage!Next]_(Storage!vars)
  <2>. SUFFICES ASSUME LocalTypeOK, [LocalNext]_localVars
                PROVE  Storage!Next \/ UNCHANGED Storage!vars
    OBVIOUS
  <2>. DEFINE W == OpenWrites(saves)
  <2>0. /\ W = [f \in DOMAIN saves |-> saves[f].parts]
        /\ W' = [f \in DOMAIN saves' |-> saves'[f].parts]
        /\ DOMAIN W = DOMAIN saves
    BY DEF OpenWrites
  <2>1. ASSUME NEW f \in Storage!File, NEW ok \in BOOLEAN, BeginWrite(f, ok)
        PROVE  Storage!BeginWrite(f, ok)
    <3>1. CASE ok
      <4>1. W' = Storage!With(W, f, NewSave.parts)
        BY <2>1, <3>1, WrittenWith DEF BeginWrite
      <4>. QED
        BY <2>0, <2>1, <3>1, <4>1 DEF BeginWrite, Storage!BeginWrite, NewSave
    <3>2. CASE ~ok
      BY <2>0, <2>1, <3>2 DEF BeginWrite, Storage!BeginWrite
    <3>. QED
      BY <3>1, <3>2
  <2>2. ASSUME NEW f \in Storage!File, NEW ok \in BOOLEAN, NEW p \in 1..Parts,
               NEW x \in Data, WriteRange(f, p, x, ok)
        PROVE  Storage!WriteRange(f, p, x, ok)
    <3>0. f \in DOMAIN saves /\ saves[f] \in [parts : Storage!Contents, error : BOOLEAN]
      BY <2>2 DEF WriteRange, LocalTypeOK
    <3>1. f \in DOMAIN W /\ W[f] = saves[f].parts
      BY <2>0, <3>0
    <3>2. PICK save : /\ saves' = Storage!With(saves, f, save)
                      /\ \/ ok /\ save.parts = Storage!With(W[f], p, x)
                         \/ ~ok /\ save.parts = Storage!Without(W[f], {p})
                         \/ ~ok /\ save.parts = W[f]
      BY <2>2, <3>0, <3>1 DEF WriteRange
    <3>3. W' = Storage!With(W, f, save.parts)
      BY <3>2, WrittenWith
    <3>4. Storage!With(W, f, W[f]) = W
      <4>1. DOMAIN W \cup {f} = DOMAIN W
        BY <3>1
      <4>2. W = [g \in DOMAIN W |-> W[g]]
        BY <2>0
      <4>. QED
        BY <4>1, <4>2 DEF Storage!With
    <3>5. reply' = {Storage!Reply("writeRange", f, ok)} /\ UNCHANGED disk
      BY <2>2 DEF WriteRange
    <3>. HIDE DEF W
    <3>. QED
      BY <2>0, <3>1, <3>2, <3>3, <3>4, <3>5 DEF Storage!WriteRange
  <2>3. ASSUME NEW f \in Storage!File, NEW ok \in BOOLEAN, FinishWrite(f, ok)
        PROVE  Storage!FinishWrite(f, ok)
    <3>1. W' = Storage!Without(W, {f})
      BY <2>3, WrittenWithout DEF FinishWrite
    <3>2. f \in DOMAIN W /\ W[f] = saves[f].parts
      BY <2>0, <2>3 DEF FinishWrite
    <3>. QED
      BY <2>0, <2>3, <3>1, <3>2 DEF FinishWrite, Storage!FinishWrite
  <2>4. ASSUME NEW f \in Storage!File, AbortWrite(f)
        PROVE  Storage!AbortWrite(f, TRUE)
    <3>1. W' = Storage!Without(W, {f})
      BY <2>4, WrittenWithout DEF AbortWrite
    <3>. QED
      BY <2>0, <2>4, <3>1 DEF AbortWrite, Storage!AbortWrite
  <2>5. ASSUME NEW f \in Storage!File, NEW ok \in BOOLEAN, NEW c \in Storage!Contents,
               WriteFile(f, c, ok)
        PROVE  Storage!WriteFile(f, c, ok)
    BY <2>0, <2>5 DEF WriteFile, Storage!WriteFile
  <2>6. ASSUME NEW f \in Storage!File, NEW ok \in BOOLEAN, DeleteFile(f, ok)
        PROVE  Storage!DeleteFile(f, ok)
    BY <2>0, <2>6 DEF DeleteFile, Storage!DeleteFile
  <2>7. ASSUME NEW u \in User, Cleanup(u)
        PROVE  Storage!Cleanup(u)
    <3>1. W' = Storage!Without(W, Storage!Filed(u))
      BY <2>7, WrittenWithout DEF Cleanup
    <3>. QED
      BY <2>0, <2>7, <3>1 DEF Cleanup, Storage!Cleanup
  <2>8. ASSUME Restart
        PROVE  Storage!Restart
    <3>1. W' = [f \in {} |-> Storage!Nothing]
      BY <2>0, <2>8 DEF Restart
    <3>. QED
      BY <2>0, <2>8, <3>1 DEF Restart, Storage!Restart
  <2>10. ASSUME NEW f \in Storage!File, NEW c \in Storage!Contents, RestartInWriteFile(f, c)
         PROVE  Storage!RestartInWriteFile(f, c)
    <3>1. W' = [g \in {} |-> Storage!Nothing]
      BY <2>0, <2>10 DEF RestartInWriteFile
    <3>. QED
      BY <2>0, <2>10, <3>1 DEF RestartInWriteFile, Storage!RestartInWriteFile
  <2>9. CASE UNCHANGED localVars
    BY <2>9 DEF localVars, Storage!vars
  <2>. QED
    BY <2>1, <2>2, <2>3, <2>4, <2>5, <2>6, <2>7, <2>8, <2>9, <2>10
    DEF LocalNext, Storage!Next
<1>3. QED
  BY <1>1, <1>2, LocalTypeCorrect, PTL DEF LocalSpec, LocalImplements, Storage!Spec
=============================================================================
