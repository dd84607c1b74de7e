--------------------------- MODULE FileSync_proofs ---------------------------
(***************************************************************************)
(* What holds of the synchronisation for every number of devices, paths    *)
(* and edits, whatever the devices do, and however often programs are      *)
(* stopped and started again.                                              *)
(*                                                                         *)
(* 1. The server's index and its store agree.  That is not inductive by    *)
(* itself: that a committed file becomes a tracked one depends on the time *)
(* its upload request carried, and that a tracked one is there depends on  *)
(* what the chunk carried.  So the invariant (IInv) follows both through   *)
(* the messages.                                                           *)
(*                                                                         *)
(* 2. The two counters a device unlocks on count what they stand for, and  *)
(* a device that has unlocked itself has nothing in flight.  A sync is a   *)
(* round of messages: a list, then at most one message of each path, each  *)
(* belonging to a transfer that is open or to a delete that is counted.    *)
(* What is proved of one device is therefore a statement on its two        *)
(* channels, its open transfers and its two counters (Round), and each     *)
(* step of it a lemma on such values; the steps of the specification only  *)
(* say which of the lemmas applies.  A naive device counts a path twice    *)
(* that the server listed twice, and opens one transfer for it: its        *)
(* accounts do not match.                                                  *)
(*                                                                         *)
(* 3. The types, with their bounds: no time is later than the clock, no    *)
(* hash is of a version nobody has written, and no counter is negative.    *)
(* That no counter is negative is not inductive either: of every device,   *)
(* naive or not and running or not, a counter is at least the number of    *)
(* messages that can still decrease it (CInv).                             *)
(*                                                                         *)
(* 4. Devices whose users edit a path only while the other copies agree:   *)
(* no assertion fails, the server never goes back, nothing that was        *)
(* deleted comes back, and what counts as in sync is equal (SInv), naive   *)
(* devices and Merkle devices mixed.                                       *)
(***************************************************************************)
EXTENDS FileSync, FiniteSetTheorems, FunctionTheorems, SequenceTheorems, TLAPS

-----------------------------------------------------------------------------
(* Messages by type, of all paths                                          *)

OfTypes(q, types) == {i \in DOMAIN q : q[i].type \in types}

LEMMA OfTypesFinite ==
  ASSUME NEW S, NEW q \in Seq(S), NEW types
  PROVE  IsFiniteSet(OfTypes(q, types)) /\ Cardinality(OfTypes(q, types)) \in Nat
<1>1. IsFiniteSet(1..Len(q))
  BY FS_Interval
<1>2. OfTypes(q, types) \subseteq 1..Len(q)
  BY DEF OfTypes
<1>. QED
  BY <1>1, <1>2, FS_Subset, FS_CardinalityType

(* A message that is sent is one more of its type.                         *)
LEMMA SendCounts ==
  ASSUME NEW S, NEW q \in Seq(S), NEW x \in S, NEW types
  PROVE  Cardinality(OfTypes(Append(q, x), types))
           = Cardinality(OfTypes(q, types)) + (IF x.type \in types THEN 1 ELSE 0)
<1>. DEFINE r == Append(q, x)
            n == Len(q) + 1
<1>1. /\ DOMAIN q = 1..Len(q) /\ DOMAIN r = 1..n /\ r[n] = x /\ n \notin DOMAIN q
      /\ \A i \in DOMAIN q : r[i] = q[i] /\ i \in DOMAIN r
      /\ \A i \in DOMAIN r : i \in DOMAIN q \/ i = n
      /\ n \in DOMAIN r
  OBVIOUS
<1>. HIDE DEF r, n
<1>2. IsFiniteSet(OfTypes(q, types)) /\ Cardinality(OfTypes(q, types)) \in Nat
  BY OfTypesFinite
<1>3. CASE x.type \in types
  <2>1. OfTypes(r, types) = OfTypes(q, types) \cup {n} /\ n \notin OfTypes(q, types)
    BY <1>1, <1>3 DEF OfTypes
  <2>2. Cardinality(OfTypes(q, types) \cup {n}) = Cardinality(OfTypes(q, types)) + 1
    BY <1>2, <2>1, FS_AddElement, Zenon
  <2>. QED
    BY <1>3, <2>1, <2>2 DEF r
<1>4. CASE x.type \notin types
  <2>1. OfTypes(r, types) = OfTypes(q, types)
    BY <1>1, <1>4 DEF OfTypes
  <2>. QED
    BY <1>2, <1>4, <2>1 DEF r
<1>. QED
  BY <1>3, <1>4

(* The first message that is taken is one less of its type.                *)
LEMMA TakeCounts ==
  ASSUME NEW S, NEW q \in Seq(S), q # << >>, NEW types
  PROVE  Cardinality(OfTypes(q, types))
           = Cardinality(OfTypes(Tail(q), types)) + (IF Head(q).type \in types THEN 1 ELSE 0)
<1>. DEFINE r == Tail(q)
            Later == OfTypes(q, types) \ {1}
<1>1. /\ DOMAIN q = 1..Len(q) /\ Len(q) \in Nat \ {0} /\ DOMAIN r = 1..(Len(q) - 1)
      /\ Head(q) = q[1] /\ 1 \in DOMAIN q /\ r \in Seq(S)
      /\ \A i \in DOMAIN r : r[i] = q[i + 1] /\ i + 1 \in DOMAIN q /\ i \in Nat /\ i > 0
      /\ \A i \in DOMAIN q : i = 1 \/ (i - 1 \in DOMAIN r /\ r[i - 1] = q[i] /\ i > 1)
      /\ \A i \in DOMAIN q : i \in Nat
  OBVIOUS
<1>. HIDE DEF r
<1>2. IsFiniteSet(OfTypes(q, types)) /\ Cardinality(OfTypes(q, types)) \in Nat
  BY OfTypesFinite
<1>3. IsFiniteSet(OfTypes(r, types)) /\ Cardinality(OfTypes(r, types)) \in Nat
  BY <1>1, OfTypesFinite
<1>4. Cardinality(Later) = Cardinality(OfTypes(r, types))
  <2>. DEFINE f == [i \in OfTypes(r, types) |-> i + 1]
  <2>1. f \in Bijection(OfTypes(r, types), Later)
    <3>1. f \in [OfTypes(r, types) -> Later]
      BY <1>1 DEF OfTypes
    <3>2. \A i, j \in OfTypes(r, types) : f[i] = f[j] => i = j
      BY <1>1 DEF OfTypes
    <3>3. \A j \in Later : j - 1 \in OfTypes(r, types) /\ f[j - 1] = j
      BY <1>1 DEF OfTypes
    <3>. QED
      BY <3>1, <3>2, <3>3, Fun_IsBij
  <2>2. ExistsBijection(OfTypes(r, types), Later)
    BY <2>1 DEF ExistsBijection
  <2>. QED
    BY <1>3, <2>2, FS_Bijection
<1>5. CASE q[1].type \in types
  <2>1. 1 \in OfTypes(q, types)
    BY <1>1, <1>5 DEF OfTypes
  <2>2. Cardinality(Later) = Cardinality(OfTypes(q, types)) - 1
    BY <1>2, <2>1, FS_RemoveElement
  <2>. QED
    BY <1>1, <1>2, <1>3, <1>4, <1>5, <2>2 DEF r
<1>6. CASE q[1].type \notin types
  <2>1. Later = OfTypes(q, types)
    BY <1>1, <1>6 DEF OfTypes
  <2>2. Cardinality(OfTypes(q, types)) = Cardinality(OfTypes(r, types))
    BY <1>4, <2>1, Zenon
  <2>3. Head(q).type \notin types
    BY <1>1, <1>6
  <2>. HIDE DEF Later
  <2>. QED
    BY <1>3, <2>2, <2>3 DEF r
<1>. QED
  BY <1>5, <1>6

(* What is sent at once is counted together.                               *)
LEMMA JoinCounts ==
  ASSUME NEW S, NEW q \in Seq(S), NEW r \in Seq(S), NEW types
  PROVE  Cardinality(OfTypes(q \o r, types))
           = Cardinality(OfTypes(q, types)) + Cardinality(OfTypes(r, types))
<1>. DEFINE n == Len(q)
            s == q \o r
            A == OfTypes(q, types)
            B == OfTypes(r, types)
            C == {i \in OfTypes(s, types) : i > n}
<1>1. /\ n \in Nat /\ DOMAIN q = 1..n /\ DOMAIN s = 1..(n + Len(r)) /\ DOMAIN r = 1..Len(r)
      /\ Len(r) \in Nat
      /\ \A i \in DOMAIN q : s[i] = q[i]
      /\ \A i \in DOMAIN r : s[n + i] = r[i]
  OBVIOUS
<1>2. IsFiniteSet(A) /\ IsFiniteSet(B) /\ Cardinality(A) \in Nat /\ Cardinality(B) \in Nat
  BY OfTypesFinite
<1>. HIDE DEF n, s
<1>3. ExistsBijection(B, C)
  <2>. DEFINE f == [i \in B |-> n + i]
  <2>1. f \in [B -> C]
    BY <1>1 DEF OfTypes
  <2>2. \A i, j \in B : f[i] = f[j] => i = j
    BY <1>1 DEF OfTypes
  <2>3. \A j \in C : j - n \in B /\ f[j - n] = j
    <3>. SUFFICES ASSUME NEW j \in C PROVE j - n \in B /\ f[j - n] = j
      OBVIOUS
    <3>1. j - n \in DOMAIN r /\ n + (j - n) = j
      BY <1>1 DEF OfTypes
    <3>2. s[j] = r[j - n]
      BY <1>1, <3>1
    <3>3. j - n \in B
      BY <3>1, <3>2 DEF OfTypes
    <3>. QED
      BY <3>1, <3>3
  <2>4. f \in Bijection(B, C)
    BY <2>1, <2>2, <2>3, Fun_IsBij
  <2>. QED
    BY <2>4 DEF ExistsBijection
<1>4. IsFiniteSet(C) /\ Cardinality(C) = Cardinality(B)
  BY <1>2, <1>3, FS_Bijection
<1>5. OfTypes(s, types) = A \cup C /\ A \cap C = {}
  BY <1>1 DEF OfTypes
<1>6. Cardinality(A \cap C) = 0
  BY <1>5, FS_EmptySet
<1>. HIDE DEF A, B, C
<1>7. Cardinality(A \cup C) = Cardinality(A) + Cardinality(C) - Cardinality(A \cap C)
  BY <1>2, <1>4, FS_Union
<1>. QED
  BY <1>2, <1>4, <1>5, <1>6, <1>7 DEF A, B, s

LEMMA CountTo ==
  ASSUME NEW n \in Nat
  PROVE  IsFiniteSet(1..n) /\ Cardinality(1..n) = n
<1>1. IsFiniteSet(1..n) /\ Cardinality(1..n) = IF 1 > n THEN 0 ELSE n - 1 + 1
  BY FS_Interval
<1>2. Cardinality(1..n) = n
  BY <1>1
<1>. QED
  BY <1>1, <1>2

(* At most all of them are of some types.                                  *)
LEMMA CountsAtMost ==
  ASSUME NEW S, NEW q \in Seq(S), NEW types
  PROVE  /\ Cardinality(OfTypes(q, types)) <= Len(q)
         /\ (\A x \in S : x.type \notin types) => Cardinality(OfTypes(q, types)) = 0
<1>1. Len(q) \in Nat /\ IsFiniteSet(1..Len(q)) /\ Cardinality(1..Len(q)) = Len(q)
  <2>1. Len(q) \in Nat
    OBVIOUS
  <2>. QED
    BY <2>1, CountTo
<1>2. OfTypes(q, types) \subseteq 1..Len(q)
  BY DEF OfTypes
<1>3. Cardinality(OfTypes(q, types)) <= Cardinality(1..Len(q))
  BY <1>1, <1>2, FS_Subset, Zenon
<1>4. ASSUME \A x \in S : x.type \notin types
      PROVE  Cardinality(OfTypes(q, types)) = 0
  <2>1. OfTypes(q, types) = {}
    BY <1>4 DEF OfTypes
  <2>. QED
    BY <2>1, FS_EmptySet
<1>. QED
  BY <1>1, <1>3, <1>4

-----------------------------------------------------------------------------
(* No path has two messages in two queues                                  *)

Apart(q, r) ==
  /\ \A i, j \in DOMAIN q : q[i].path = q[j].path => i = j
  /\ \A i, j \in DOMAIN r : r[i].path = r[j].path => i = j
  /\ \A i \in DOMAIN q, j \in DOMAIN r : q[i].path # r[j].path

LEMMA ApartSwaps == \A q, r : Apart(q, r) <=> Apart(r, q)
BY DEF Apart

(* A message is taken, and it may be answered with one of its path.        *)
LEMMA TakeApart ==
  ASSUME NEW S, NEW q \in Seq(S), q # << >>, NEW T, NEW r \in Seq(T), Apart(q, r)
  PROVE  /\ Apart(Tail(q), r)
         /\ \A x \in T : x.path = Head(q).path => Apart(Tail(q), Append(r, x))
         /\ \A i \in DOMAIN Tail(q) : Tail(q)[i].path # Head(q).path
         /\ \A i \in DOMAIN r : r[i].path # Head(q).path
<1>. DEFINE t == Tail(q)
<1>1. /\ DOMAIN q = 1..Len(q) /\ Len(q) \in Nat \ {0} /\ DOMAIN t = 1..(Len(q) - 1)
      /\ Head(q) = q[1] /\ 1 \in DOMAIN q
      /\ \A i \in DOMAIN t : t[i] = q[i + 1] /\ i + 1 \in DOMAIN q /\ i \in Nat /\ i + 1 # 1
  OBVIOUS
<1>. HIDE DEF t
<1>2. /\ \A i \in DOMAIN t : t[i].path # Head(q).path
      /\ \A i \in DOMAIN r : r[i].path # Head(q).path
  BY <1>1 DEF Apart
<1>3. \A i, j \in DOMAIN t : t[i].path = t[j].path => i = j
  <2>. SUFFICES ASSUME NEW i \in DOMAIN t, NEW j \in DOMAIN t, t[i].path = t[j].path
                PROVE  i = j
    OBVIOUS
  <2>1. i + 1 = j + 1
    BY <1>1 DEF Apart
  <2>. QED
    BY <1>1, <2>1
<1>4. \A i \in DOMAIN t, j \in DOMAIN r : t[i].path # r[j].path
  BY <1>1 DEF Apart
<1>5. Apart(t, r)
  BY <1>3, <1>4 DEF Apart
<1>6. ASSUME NEW x \in T, x.path = Head(q).path
      PROVE  Apart(t, Append(r, x))
  <2>. DEFINE u == Append(r, x)
  <2>1. /\ \A i \in DOMAIN u : \/ i \in DOMAIN r /\ u[i] = r[i]
                               \/ i = Len(r) + 1 /\ u[i] = x
        /\ Len(r) + 1 \notin DOMAIN r
    OBVIOUS
  <2>. HIDE DEF u
  <2>2. \A i, j \in DOMAIN u : u[i].path = u[j].path => i = j
    BY <1>2, <1>6, <2>1 DEF Apart
  <2>3. \A i \in DOMAIN t, j \in DOMAIN u : t[i].path # u[j].path
    BY <1>2, <1>4, <1>6, <2>1
  <2>. QED
    BY <1>3, <2>2, <2>3 DEF Apart, u
<1>. QED
  BY <1>2, <1>5, <1>6 DEF t

-----------------------------------------------------------------------------
(* The synchronisation *)

Entry == [mtime : Int, hash : Int, tomb : Int]

(* A file on a device is no file, or has a content.                        *)
FileState == {NoFile} \cup [content : Int \ {Gone}, mtime : Int]

(* An upload the server has the request of has a time.                     *)
Meta == {NoMeta} \cup [mtime : Int \ {NoTime}, hash : Int]

ListRequest     == [type : {"listRequest"}]
UploadMsg       == [type : {"uploadRequest"}, path : Path, size : {0, 1},
                    mtime : Int \ {NoTime}, hash : Int]
ChunkMsg        == [type : {"chunk"}, path : Path, content : Int \ {Gone}]
DownloadMsg     == [type : {"downloadRequest"}, path : Path]
DeleteMsg       == [type : {"deleteRequest"}, path : Path, time : Int]
ServerMsg       == ListRequest \cup UploadMsg \cup ChunkMsg \cup DownloadMsg \cup DeleteMsg

ListMsg         == [type : {"list"}, entries : [Path -> Entry]]
SizeMsg         == [type : {"uploadSize"}, path : Path, chunks : {0, 1}]
AckMsg          == [type : {"uploadAck"}, path : Path]
DownloadedMsg   == [type : {"download"}, path : Path, mtime : Int, hash : Int,
                    content : Int \ {Gone}]
DeleteAnswerMsg == [type : {"deleteAnswer"}, path : Path, done : BOOLEAN]
DeviceMsg       == ListMsg \cup SizeMsg \cup AckMsg \cup DownloadedMsg \cup DeleteAnswerMsg

DevicesOK ==
  /\ now \in Int /\ edits \in Nat
  /\ fs \in [Device -> [Path -> FileState]]
  /\ db \in [Device -> [Path -> Entry]]

ServerOK ==
  /\ store \in [Path -> Int]
  /\ index \in [Path -> Entry]
  /\ uploadMeta \in [Device -> [Path -> Meta]]
  /\ stops \in [device : Nat, server : Nat]

NetOK ==
  /\ toServer \in [Device -> Seq(ServerMsg)]
  /\ toDevice \in [Device -> Seq(DeviceMsg)]

IInv == DevicesOK /\ ServerOK /\ NetOK /\ IndexMatchesStore

-----------------------------------------------------------------------------
(* The sequence of a finite set has the set's elements.                    *)
LEMMA SetToSeqRange ==
  ASSUME NEW S, IsFiniteSet(S)
  PROVE  SetToSeq(S) \in Seq(S)
<1>1. Cardinality(S) \in Nat /\ ExistsBijection(1..Cardinality(S), S)
  BY FS_CardinalityType
<1>2. PICK f \in [1..Cardinality(S) -> S] : IsInjective(f)
  BY <1>1 DEF ExistsBijection, Bijection, Injection, IsInjective
<1>3. SetToSeq(S) \in [1..Cardinality(S) -> S]
  BY <1>2 DEF SetToSeq
<1>. QED
  BY <1>1, <1>3

LEMMA InBucketPaths ==
  ASSUME NEW d, NEW entries, NEW bucket
  PROVE  InBucket(d, entries, bucket) \in Seq(Path \X {1, 2})
<1>. DEFINE S == {pk \in Path \X {1, 2} : /\ Buckets(d, entries)[pk[1]] = bucket
                                        /\ pk[2] <= Listings(d, entries[pk[1]])}
<1>1. IsFiniteSet({1, 2})
  <2>1. IsFiniteSet({1} \cup {2})
    BY FS_Singleton, FS_AddElement, Zenon
  <2>2. {1, 2} = {1} \cup {2}
    OBVIOUS
  <2>. QED
    BY <2>1, <2>2, Zenon
<1>2. IsFiniteSet(Path \X {1, 2})
  BY <1>1, PathAssumption, FS_Product
<1>3. IsFiniteSet(S)
  BY <1>2, FS_Subset
<1>4. SetToSeq(S) \in Seq(S)
  BY <1>3, SetToSeqRange
<1>5. S \subseteq Path \X {1, 2}
  OBVIOUS
<1>6. SetToSeq(S) \in Seq(Path \X {1, 2})
  BY <1>4, <1>5
<1>. QED
  BY <1>6 DEF InBucket

LEMMA RecordFileTyped ==
  ASSUME NEW e \in Entry, NEW m \in Int, NEW h \in Int
  PROVE  /\ RecordFile(e, m, h) \in Entry
         /\ RecordFile(e, m, h).mtime = m
BY DEF RecordFile, Entry

(* What a device records and sends is typed.                               *)
LEMMA ScannedEntries ==
  ASSUME DevicesOK, NEW d \in Device
  PROVE  Scanned(d) \in [Path -> Entry]
<1>1. ASSUME NEW p \in Path
      PROVE  fs[d][p] \in FileState /\ db[d][p] \in Entry
  BY DEF DevicesOK
<1>2. ASSUME NEW p \in Path, Present(fs[d][p])
      PROVE  RecordFile(db[d][p], fs[d][p].mtime, fs[d][p].content) \in Entry
  BY <1>1, <1>2, RecordFileTyped DEF FileState, Present
<1>3. ASSUME NEW p \in Path, NEW t \in Int
      PROVE  RecordDeletion(db[d][p], t) \in Entry
  BY DEF RecordDeletion, Entry, NoHash, NoTime
<1>4. ASSUME NEW p \in Path
      PROVE  (IF db[d][p].tomb # NoTime THEN db[d][p].tomb ELSE now + 1) \in Int
  BY <1>1 DEF DevicesOK, Entry
<1>. QED
  BY <1>1, <1>2, <1>3, <1>4 DEF Scanned

LEMMA UploadRequestTyped ==
  ASSUME DevicesOK, NEW d \in Device, NEW p \in Path
  PROVE  UploadRequest(d, p) \in ServerMsg
<1>1. db[d][p] \in Entry
  BY DEF DevicesOK
<1>2. UploadRequest(d, p) \in UploadMsg
  BY <1>1 DEF UploadRequest, UploadMsg, FileSize, Tracked, Entry, NoTime
<1>. QED
  BY <1>2 DEF ServerMsg

LEMMA RequestsTyped ==
  ASSUME DevicesOK, NEW d \in Device, NEW entries
  PROVE  /\ TransferRequests(d, entries) \in Seq(ServerMsg)
         /\ DeleteRequests(d, entries) \in Seq(ServerMsg)
<1>1. ASSUME NEW bucket
      PROVE  Uploads(d, entries, bucket) \in Seq(ServerMsg)
  <2>1. InBucket(d, entries, bucket) \in Seq(Path \X {1, 2})
    BY InBucketPaths
  <2>2. \A i \in 1..Len(InBucket(d, entries, bucket)) :
           UploadRequest(d, InBucket(d, entries, bucket)[i][1]) \in ServerMsg
    BY <2>1, UploadRequestTyped
  <2>. QED
    BY <2>1, <2>2 DEF Uploads
<1>2. ASSUME NEW bucket
      PROVE  Downloads(d, entries, bucket) \in Seq(ServerMsg)
  <2>1. InBucket(d, entries, bucket) \in Seq(Path \X {1, 2})
    BY InBucketPaths
  <2>2. \A i \in 1..Len(InBucket(d, entries, bucket)) :
           DownloadRequest(InBucket(d, entries, bucket)[i][1]) \in ServerMsg
    BY <2>1 DEF DownloadRequest, ServerMsg, DownloadMsg
  <2>. QED
    BY <2>1, <2>2 DEF Downloads
<1>3. TransferRequests(d, entries) \in Seq(ServerMsg)
  BY <1>1, <1>2 DEF TransferRequests
<1>4. DeleteRequests(d, entries) \in Seq(ServerMsg)
  <2>. DEFINE S == {p \in Path : Buckets(d, entries)[p] = "DeletionWinsLeft"}
  <2>1. IsFiniteSet(S)
    BY PathAssumption, FS_Subset
  <2>2. SetToSeq(S) \in Seq(S)
    BY <2>1, SetToSeqRange
  <2>3. \A i \in 1..Len(SetToSeq(S)) : DeleteRequest(d, SetToSeq(S)[i]) \in ServerMsg
    <3>1. ASSUME NEW p \in Path
          PROVE  DeleteRequest(d, p) \in DeleteMsg
      BY DEF DevicesOK, Entry, DeleteRequest, DeleteMsg
    <3>. QED
      BY <2>2, <3>1 DEF ServerMsg
  <2>. QED
    BY <2>2, <2>3 DEF DeleteRequests
<1>. QED
  BY <1>3, <1>4

(* A connection carries what is sent on it.                                *)
LEMMA Sending ==
  ASSUME NEW S, NEW link \in [Device -> Seq(S)], NEW d \in Device, NEW x \in S
  PROVE  [link EXCEPT ![d] = Append(@, x)] \in [Device -> Seq(S)]
<1>1. Append(link[d], x) \in Seq(S)
  OBVIOUS
<1>. QED
  BY <1>1

(* A message's type says which record it is.                               *)
LEMMA DeviceMsgOf ==
  ASSUME NEW m \in DeviceMsg
  PROVE  /\ m.type = "list" => m \in ListMsg
         /\ m.type = "uploadSize" => m \in SizeMsg
         /\ m.type = "uploadAck" => m \in AckMsg
         /\ m.type = "download" => m \in DownloadedMsg
         /\ m.type = "deleteAnswer" => m \in DeleteAnswerMsg
BY DEF DeviceMsg, ListMsg, SizeMsg, AckMsg, DownloadedMsg, DeleteAnswerMsg

LEMMA ServerMsgOf ==
  ASSUME NEW m \in ServerMsg
  PROVE  /\ m.type = "uploadRequest" => m \in UploadMsg
         /\ m.type = "chunk" => m \in ChunkMsg
         /\ m.type = "downloadRequest" => m \in DownloadMsg
         /\ m.type = "deleteRequest" => m \in DeleteMsg
BY DEF ServerMsg, ListRequest, UploadMsg, ChunkMsg, DownloadMsg, DeleteMsg

-----------------------------------------------------------------------------
(* Before anything happened there is nothing anywhere.                     *)
LEMMA InitIInv == Init => IInv
<1> SUFFICES ASSUME Init PROVE IInv
  OBVIOUS
<1>1. Untracked \in Entry /\ ~Tracked(Untracked)
  BY DEF Untracked, Tracked, Entry, NoTime, NoHash
<1>2. DevicesOK
  BY <1>1 DEF Init, DevicesOK, FileState
<1>3. ServerOK
  BY <1>1 DEF Init, ServerOK, Gone, Meta
<1>4. NetOK
  BY DEF Init, NetOK
<1>5. IndexMatchesStore
  BY <1>1 DEF Init, IndexMatchesStore
<1>. QED
  BY <1>2, <1>3, <1>4, <1>5 DEF IInv

(* The user changes files on the devices only.                             *)
LEMMA UserStep ==
  ASSUME IInv, NEW d \in Device, NEW p \in Path, Write(d, p) \/ Delete(d, p)
  PROVE  IInv'
<1>1. CASE Write(d, p)
  <2>1. [content |-> edits + 1, mtime |-> now + 1] \in FileState
    BY DEF IInv, DevicesOK, FileState, Gone
  <2>2. DevicesOK'
    BY <1>1, <2>1 DEF IInv, DevicesOK, Write
  <2>. QED
    BY <1>1, <2>2 DEF IInv, Write, ServerOK, NetOK, IndexMatchesStore, serverVars, netVars
<1>2. CASE Delete(d, p)
  <2>1. DevicesOK'
    BY <1>2 DEF IInv, DevicesOK, Delete, FileState
  <2>. QED
    BY <1>2, <2>1 DEF IInv, Delete, ServerOK, NetOK, IndexMatchesStore, serverVars, netVars
<1>. QED
  BY <1>1, <1>2

(* A tick records what it finds and asks for a listing.                    *)
LEMMA TickStep ==
  ASSUME IInv, NEW d \in Device, Tick(d)
  PROVE  IInv'
<1>1. Scanned(d) \in [Path -> Entry]
  BY ScannedEntries DEF IInv
<1>2. DevicesOK'
  BY <1>1 DEF IInv, DevicesOK, Tick, ScanAndApply
<1>3. [type |-> "listRequest"] \in ServerMsg
  BY DEF ServerMsg, ListRequest
<1>4. NetOK'
  BY <1>3 DEF IInv, NetOK, Tick
<1>. QED
  BY <1>2, <1>4 DEF IInv, Tick, ServerOK, IndexMatchesStore, serverVars

-----------------------------------------------------------------------------
(* The answers a device takes: the server's state is out of its reach, and *)
(* what it records and sends is typed.                                     *)
LEMMA ReceiveListStep ==
  ASSUME DevicesOK, NetOK, NEW d \in Device, NEW m \in DeviceMsg, ReceiveList(d, m)
  PROVE  DevicesOK' /\ toServer' \in [Device -> Seq(ServerMsg)]
<1>1. m.entries \in [Path -> Entry]
  BY DeviceMsgOf DEF ReceiveList, ListMsg
<1>2. DevicesOK'
  <2>. DEFINE gone == DeletedHere(d, m.entries)
  <2>1. ASSUME NEW p \in Path
        PROVE  RecordDeletion(db[d][p], m.entries[p].tomb) \in Entry
    BY <1>1 DEF RecordDeletion, Entry, NoTime, NoHash
  <2>2. [p \in Path |-> IF p \in gone THEN RecordDeletion(db[d][p], m.entries[p].tomb)
                        ELSE db[d][p]] \in [Path -> Entry]
    BY <2>1 DEF DevicesOK
  <2>3. [p \in Path |-> IF p \in gone THEN NoFile ELSE fs[d][p]] \in [Path -> FileState]
    BY DEF DevicesOK, FileState
  <2>. QED
    BY <2>2, <2>3 DEF DevicesOK, ReceiveList, userVars
<1>3. toServer' \in [Device -> Seq(ServerMsg)]
  <2>. DEFINE sent == toServer[d] \o TransferRequests(d, m.entries)
                                  \o DeleteRequests(d, m.entries)
  <2>1. sent \in Seq(ServerMsg)
    BY RequestsTyped DEF NetOK
  <2>. QED
    BY <2>1 DEF ReceiveList, NetOK
<1>. QED
  BY <1>2, <1>3

LEMMA ReceiveUploadSizeStep ==
  ASSUME DevicesOK, NetOK, NEW d \in Device, NEW m \in DeviceMsg, ReceiveUploadSize(d, m)
  PROVE  DevicesOK' /\ toServer' \in [Device -> Seq(ServerMsg)]
<1>1. m.path \in Path
  BY DeviceMsgOf DEF ReceiveUploadSize, SizeMsg
<1>. DEFINE content == IF Present(fs[d][m.path]) THEN fs[d][m.path].content ELSE Empty
<1>2. content \in Int \ {Gone}
  BY <1>1 DEF DevicesOK, FileState, Present, Empty, Gone
<1>3. [type |-> "chunk", path |-> m.path, content |-> content] \in ServerMsg
  BY <1>1, <1>2 DEF ServerMsg, ChunkMsg
<1>4. UNCHANGED <<now, edits, fs, db>>
  BY DEF ReceiveUploadSize, userVars
<1>. DEFINE chunk == [type |-> "chunk", path |-> m.path, content |-> content]
<1>5. \/ toServer' = toServer
      \/ toServer' = [toServer EXCEPT ![d] = Append(@, chunk)]
  BY DEF ReceiveUploadSize
<1>6. chunk \in ServerMsg
  BY <1>3
<1>. HIDE DEF chunk
<1>7. toServer' \in [Device -> Seq(ServerMsg)]
  <2>1. CASE toServer' = toServer
    BY <2>1 DEF NetOK
  <2>2. CASE toServer' = [toServer EXCEPT ![d] = Append(@, chunk)]
    BY <1>6, <2>2, Sending DEF NetOK
  <2>. QED
    BY <1>5, <2>1, <2>2
<1>. QED
  BY <1>4, <1>7 DEF DevicesOK

LEMMA ReceiveDownloadStep ==
  ASSUME DevicesOK, NetOK, NEW d \in Device, NEW m \in DeviceMsg, ReceiveDownload(d, m)
  PROVE  DevicesOK' /\ toServer' \in [Device -> Seq(ServerMsg)]
<1>1. m \in DownloadedMsg
  BY DeviceMsgOf DEF ReceiveDownload
<1>2. [content |-> m.content, mtime |-> now + 1] \in FileState
  BY <1>1 DEF DownloadedMsg, FileState, DevicesOK
<1>3. RecordFile(db[d][m.path], m.mtime, m.hash) \in Entry
  BY <1>1, RecordFileTyped DEF DownloadedMsg, DevicesOK
<1>4. UNCHANGED <<edits, toServer>>
  BY DEF ReceiveDownload
<1>5. \/ UNCHANGED <<now, fs, db>>
      \/ /\ now' = now + 1
         /\ fs' = [fs EXCEPT ![d][m.path] = [content |-> m.content, mtime |-> now + 1]]
         /\ db' = [db EXCEPT ![d][m.path] = RecordFile(@, m.mtime, m.hash)]
  BY DEF ReceiveDownload
<1>6. CASE UNCHANGED <<now, fs, db>>
  BY <1>4, <1>6 DEF DevicesOK, NetOK
<1>7. CASE /\ now' = now + 1
           /\ fs' = [fs EXCEPT ![d][m.path] = [content |-> m.content, mtime |-> now + 1]]
           /\ db' = [db EXCEPT ![d][m.path] = RecordFile(@, m.mtime, m.hash)]
  <2>1. now' \in Int /\ edits' \in Nat
    BY <1>4, <1>7 DEF DevicesOK
  <2>2. fs' \in [Device -> [Path -> FileState]]
    BY <1>2, <1>7 DEF DevicesOK
  <2>3. db' \in [Device -> [Path -> Entry]]
    BY <1>3, <1>7 DEF DevicesOK
  <2>. QED
    BY <1>4, <2>1, <2>2, <2>3 DEF DevicesOK, NetOK
<1>. QED
  BY <1>5, <1>6, <1>7

LEMMA ReceiveDeleteAnswerStep ==
  ASSUME DevicesOK, NetOK, NEW d \in Device, NEW m \in DeviceMsg,
         ReceiveDeleteAnswer(d, m)
  PROVE  DevicesOK' /\ toServer' \in [Device -> Seq(ServerMsg)]
<1>1. RecordDeletion(db[d][m.path], 0) \in Entry
  BY DEF RecordDeletion, Entry, NoTime, NoHash
<1>. QED
  BY <1>1 DEF ReceiveDeleteAnswer, DevicesOK, NetOK, userVars

LEMMA DeviceStep ==
  ASSUME IInv, NEW d \in Device, DeviceReceive(d)
  PROVE  IInv'
<1>. DEFINE m == Head(toDevice[d])
<1>1. m \in DeviceMsg /\ toDevice' \in [Device -> Seq(DeviceMsg)]
  BY HeadTailProperties DEF IInv, NetOK, DeviceReceive, DeviceTakes
<1>2. ReceiveUploadAck(d, m) => DevicesOK' /\ toServer' \in [Device -> Seq(ServerMsg)]
  BY DEF IInv, ReceiveUploadAck, DevicesOK, NetOK, userVars
<1>3. DevicesOK' /\ toServer' \in [Device -> Seq(ServerMsg)]
  BY <1>1, <1>2, ReceiveListStep, ReceiveUploadSizeStep, ReceiveDownloadStep,
     ReceiveDeleteAnswerStep DEF IInv, DeviceReceive
<1>. QED
  BY <1>1, <1>3 DEF IInv, DeviceReceive, serverVars, ServerOK, NetOK, IndexMatchesStore

-----------------------------------------------------------------------------
(* The requests the server takes.                                          *)
ServerKeeps == ServerOK' /\ IndexMatchesStore' /\ toDevice' \in [Device -> Seq(DeviceMsg)]

LEMMA ServeListStep ==
  ASSUME IInv, stops' = stops, NEW d \in Device, NEW m \in ServerMsg, ServeList(d, m)
  PROVE  ServerKeeps
<1>1. [type |-> "list", entries |-> index] \in DeviceMsg
  BY DEF IInv, ServerOK, DeviceMsg, ListMsg
<1>. QED
  BY <1>1 DEF ServeList, Answer, IInv, ServerOK, NetOK, IndexMatchesStore, serverVars,
              ServerKeeps

LEMMA ServeUploadRequestStep ==
  ASSUME IInv, stops' = stops, NEW d \in Device, NEW m \in ServerMsg,
         ServeUploadRequest(d, m)
  PROVE  ServerKeeps
<1>1. m \in UploadMsg
  BY ServerMsgOf DEF ServeUploadRequest
<1>2. [mtime |-> m.mtime, hash |-> m.hash] \in Meta
  BY <1>1 DEF UploadMsg, Meta
<1>3. [type |-> "uploadSize", path |-> m.path, chunks |-> m.size] \in DeviceMsg
  BY <1>1 DEF UploadMsg, DeviceMsg, SizeMsg
<1>4. ServerOK'
  BY <1>2 DEF ServeUploadRequest, IInv, ServerOK
<1>. QED
  BY <1>3, <1>4 DEF ServeUploadRequest, Answer, IInv, NetOK, IndexMatchesStore, ServerKeeps

(* A committed file is tracked because its request had a time, and is there *)
(* because the chunk had a content.                                        *)
LEMMA ServeChunkStep ==
  ASSUME IInv, stops' = stops, NEW d \in Device, NEW m \in ServerMsg, ServeChunk(d, m)
  PROVE  ServerKeeps
<1>1. m \in ChunkMsg
  BY ServerMsgOf DEF ServeChunk
<1>2. CASE uploadMeta[d][m.path] = NoMeta \/ m.path \notin saving
  BY <1>2 DEF ServeChunk, IInv, ServerOK, NetOK, IndexMatchesStore, serverVars, ServerKeeps
<1>3. CASE uploadMeta[d][m.path] # NoMeta /\ m.path \in saving
  <2>. DEFINE meta == uploadMeta[d][m.path]
             e    == RecordFile(index[m.path], meta.mtime, meta.hash)
  <2>1. meta.mtime \in Int \ {NoTime} /\ meta.hash \in Int
    BY <1>1, <1>3 DEF IInv, ServerOK, Meta, ChunkMsg
  <2>2. e \in Entry /\ e.mtime = meta.mtime
    BY <1>1, <2>1, RecordFileTyped DEF IInv, ServerOK, ChunkMsg
  <2>3. [type |-> "uploadAck", path |-> m.path] \in DeviceMsg
    BY <1>1 DEF DeviceMsg, AckMsg, ChunkMsg
  <2>4. /\ store' = [store EXCEPT ![m.path] = m.content]
        /\ index' = [index EXCEPT ![m.path] = e]
        /\ uploadMeta' = [uploadMeta EXCEPT ![d][m.path] = NoMeta]
        /\ toDevice' = [toDevice EXCEPT ![d] =
                          Append(@, [type |-> "uploadAck", path |-> m.path])]
    BY <1>3 DEF ServeChunk, Answer
  <2>5. ServerOK'
    BY <1>1, <2>2, <2>4 DEF IInv, ServerOK, ChunkMsg, Meta
  <2>6. IndexMatchesStore'
    BY <1>1, <2>1, <2>2, <2>4 DEF IInv, ServerOK, ChunkMsg, IndexMatchesStore, Tracked
  <2>. QED
    BY <2>3, <2>4, <2>5, <2>6 DEF IInv, NetOK, ServerKeeps
<1>. QED
  BY <1>2, <1>3

LEMMA ServeDownloadRequestStep ==
  ASSUME IInv, stops' = stops, NEW d \in Device, NEW m \in ServerMsg,
         ServeDownloadRequest(d, m)
  PROVE  ServerKeeps
<1>1. m.path \in Path
  BY ServerMsgOf DEF ServeDownloadRequest, DownloadMsg
<1>2. store[m.path] # Gone
        => [type |-> "download", path |-> m.path, mtime |-> index[m.path].mtime,
            hash |-> index[m.path].hash, content |-> store[m.path]] \in DeviceMsg
  BY <1>1 DEF IInv, ServerOK, Entry, DeviceMsg, DownloadedMsg
<1>3. UNCHANGED <<store, index, uploadMeta>>
  BY DEF ServeDownloadRequest, serverVars
<1>. DEFINE answer == [type |-> "download", path |-> m.path, mtime |-> index[m.path].mtime,
                       hash |-> index[m.path].hash, content |-> store[m.path]]
<1>4. \/ toDevice' = toDevice
      \/ /\ store[m.path] # Gone
         /\ toDevice' = [toDevice EXCEPT ![d] = Append(@, answer)]
  BY DEF ServeDownloadRequest, Answer
<1>. HIDE DEF answer
<1>5. toDevice' \in [Device -> Seq(DeviceMsg)]
  <2>1. store[m.path] # Gone => answer \in DeviceMsg
    BY <1>2 DEF answer
  <2>2. CASE toDevice' = toDevice
    BY <2>2 DEF IInv, NetOK
  <2>3. CASE /\ store[m.path] # Gone
             /\ toDevice' = [toDevice EXCEPT ![d] = Append(@, answer)]
    BY <2>1, <2>3, Sending DEF IInv, NetOK
  <2>. QED
    BY <1>4, <2>2, <2>3
<1>. QED
  BY <1>3, <1>5 DEF IInv, ServerOK, IndexMatchesStore, ServerKeeps

(* A removed file is no longer tracked.                                    *)
LEMMA ServeDeleteStep ==
  ASSUME IInv, stops' = stops, NEW d \in Device, NEW m \in ServerMsg, ServeDelete(d, m)
  PROVE  ServerKeeps
<1>1. m \in DeleteMsg
  BY ServerMsgOf DEF ServeDelete
<1>2. ASSUME NEW done \in BOOLEAN
      PROVE  [type |-> "deleteAnswer", path |-> m.path, done |-> done] \in DeviceMsg
  BY <1>1 DEF DeleteMsg, DeviceMsg, DeleteAnswerMsg
<1>3. toDevice' \in [Device -> Seq(DeviceMsg)]
  <2>1. PICK done \in BOOLEAN :
          toDevice' = [toDevice EXCEPT ![d] =
             Append(@, [type |-> "deleteAnswer", path |-> m.path, done |-> done])]
    BY DEF ServeDelete, Answer
  <2>. QED
    BY <1>2, <2>1 DEF IInv, NetOK
<1>4. RecordDeletion(index[m.path], m.time) \in Entry
        /\ ~Tracked(RecordDeletion(index[m.path], m.time))
  BY <1>1 DEF DeleteMsg, RecordDeletion, Entry, Tracked, NoTime, NoHash
<1>5. CASE UNCHANGED <<store, index>>
  BY <1>3, <1>5 DEF ServeDelete, IInv, ServerOK, IndexMatchesStore, ServerKeeps
<1>6. CASE RemoveFile(m.path, m.time)
  <2>1. uploadMeta' = uploadMeta
    BY DEF ServeDelete
  <2>3. ServerOK'
    <3>1. store' \in [Path -> Int]
      <4>1. store \in [Path -> Int] /\ store' = [store EXCEPT ![m.path] = Gone]
        BY <1>6, Zenon DEF RemoveFile, IInv, ServerOK
      <4>2. Gone \in Int
        BY DEF Gone
      <4>. QED
        BY <4>1, <4>2
    <3>2. index' \in [Path -> Entry]
      BY <1>4, <1>6 DEF RemoveFile, IInv, ServerOK
    <3>. QED
      BY <2>1, <3>1, <3>2 DEF IInv, ServerOK
  <2>2. IndexMatchesStore'
    BY <1>1, <1>4, <1>6 DEF RemoveFile, IInv, ServerOK, IndexMatchesStore, DeleteMsg
  <2>. QED
    BY <1>3, <2>2, <2>3 DEF ServerKeeps
<1>. QED
  BY <1>5, <1>6 DEF ServeDelete

LEMMA ServeFailedDeleteStep ==
  ASSUME IInv, stops' = stops, NEW d \in Device, NEW m \in ServerMsg,
         ServeFailedDelete(d, m)
  PROVE  ServerKeeps
<1>. DEFINE x == [type |-> "deleteAnswer", path |-> m.path, done |-> FALSE]
<1>1. m \in DeleteMsg
  BY ServerMsgOf DEF ServeFailedDelete
<1>2. x \in DeviceMsg
  BY <1>1 DEF DeleteMsg, DeviceMsg, DeleteAnswerMsg
<1>3. /\ UNCHANGED <<store, index, uploadMeta>>
      /\ toDevice' = [toDevice EXCEPT ![d] = Append(@, x)]
  BY DEF ServeFailedDelete, Answer, serverVars
<1>. HIDE DEF x
<1>4. toDevice' \in [Device -> Seq(DeviceMsg)]
  BY <1>2, <1>3, Sending DEF IInv, NetOK
<1>. QED
  BY <1>3, <1>4 DEF IInv, ServerOK, IndexMatchesStore, ServerKeeps

LEMMA ServerStep ==
  ASSUME IInv, NEW d \in Device, ServerReceive(d)
  PROVE  IInv'
<1>. DEFINE m == Head(toServer[d])
<1>1. m \in ServerMsg /\ toServer' \in [Device -> Seq(ServerMsg)]
  BY HeadTailProperties DEF IInv, NetOK, ServerReceive, ServerTakes
<1>2. stops' = stops /\ DevicesOK'
  BY DEF IInv, ServerReceive, DevicesOK, userVars
<1>3. ServerKeeps
  BY <1>1, <1>2, ServeListStep, ServeUploadRequestStep, ServeChunkStep,
     ServeDownloadRequestStep, ServeDeleteStep, ServeFailedDeleteStep DEF ServerReceive
<1>. QED
  BY <1>1, <1>2, <1>3 DEF IInv, NetOK, ServerKeeps

-----------------------------------------------------------------------------
(* What is lost when a program stops is not what the two agree on.         *)
LEMMA StopStep ==
  ASSUME IInv, NEW d \in Device, StopDevice(d)
  PROVE  IInv'
<1>1. UNCHANGED <<now, edits, fs, db, store, index, uploadMeta, toServer, toDevice>>
  BY DEF StopDevice, userVars, serverVars, netVars
<1>2. stops' = [stops EXCEPT !.device = @ + 1] /\ stops \in [device : Nat, server : Nat]
  BY DEF StopDevice, IInv, ServerOK
<1>3. stops' \in [device : Nat, server : Nat] /\ stops'.server = stops.server
  BY <1>2
<1>4. DevicesOK' /\ NetOK'
  BY <1>1 DEF IInv, DevicesOK, NetOK
<1>5. ServerOK' /\ IndexMatchesStore'
  BY <1>1, <1>3 DEF IInv, ServerOK, IndexMatchesStore
<1>. QED
  BY <1>4, <1>5 DEF IInv

LEMMA StartStep ==
  ASSUME IInv, NEW d \in Device, StartDevice(d)
  PROVE  IInv'
<1>1. Untracked \in Entry
  BY DEF Untracked, Entry, NoTime, NoHash
<1>2. DevicesOK'
  BY <1>1 DEF IInv, StartDevice, DevicesOK, userVars
<1>3. ServerOK'
  BY DEF IInv, StartDevice, ServerOK, Meta
<1>4. NetOK'
  BY DEF IInv, StartDevice, NetOK
<1>. QED
  BY <1>2, <1>3, <1>4 DEF IInv, StartDevice, IndexMatchesStore

LEMMA RestartStep ==
  ASSUME IInv, RestartServer
  PROVE  IInv'
<1>1. Untracked \in Entry /\ ~Tracked(Untracked)
  BY DEF Untracked, Tracked, Entry, NoTime, NoHash
<1>2. DevicesOK'
  BY DEF IInv, RestartServer, DevicesOK, userVars
<1>3. ServerOK' /\ stops'.server > 0
  BY <1>1 DEF IInv, RestartServer, ServerOK, Meta
<1>4. NetOK'
  BY DEF IInv, RestartServer, NetOK
<1>5. IndexMatchesStore'
  BY <1>1, <1>3 DEF RestartServer, IndexMatchesStore
<1>. QED
  BY <1>2, <1>3, <1>4, <1>5 DEF IInv

-----------------------------------------------------------------------------
(* The typed state and the agreement hold in every state, for any numbers  *)
(* of devices, paths, edits and restarts.                                  *)
THEOREM Invariance == Spec => []IInv
<1>1. IInv /\ [Next]_vars => IInv'
  <2> SUFFICES ASSUME IInv, [Next]_vars PROVE IInv'
    OBVIOUS
  <2>1. CASE Next
    BY <2>1, UserStep, TickStep, DeviceStep, ServerStep, StopStep, StartStep, RestartStep
       DEF Next
  <2>2. CASE UNCHANGED vars
    BY <2>2 DEF vars, userVars, syncVars, serverVars, netVars, IInv, DevicesOK, ServerOK,
                NetOK, IndexMatchesStore
  <2>. QED
    BY <2>1, <2>2
<1>2. QED
  BY InitIInv, <1>1, PTL DEF Spec

(* The server never lists a file it does not have, and while it has not    *)
(* been restarted lists every file it has, whatever uploads and deletes of *)
(* several devices met on the path (FileServer.cpp onTransferCompleted and *)
(* onFileDeletionRequest).                                                 *)
THEOREM IndexCorrect == Spec => []IndexMatchesStore
<1>1. IInv => IndexMatchesStore
  BY DEF IInv
<1>2. QED
  BY Invariance, <1>1, PTL

-----------------------------------------------------------------------------
(* The accounts of a device                                                *)

UploadTypes   == {"uploadRequest", "uploadSize", "chunk", "uploadAck"}
DownloadTypes == {"downloadRequest", "download"}
DeleteTypes   == {"deleteRequest", "deleteAnswer"}

(* A message of a round whose open uploads and downloads are u and w.      *)
Fits(m, u, w) ==
  /\ m.type \in UploadTypes \cup DownloadTypes \cup DeleteTypes
  /\ m.type \in UploadTypes => m.path \in u
  /\ m.type \in DownloadTypes => m.path \in w

AllFit(q, u, w) == \A i \in DOMAIN q : Fits(q[i], u, w)

(* q and r are the channels to and from the server, deletes and transfers  *)
(* the counters.                                                           *)
Round(q, r, u, w, deletes, transfers) ==
  /\ AllFit(q, u, w) /\ AllFit(r, u, w) /\ Apart(q, r)
  /\ deletes = Cardinality(OfTypes(q, DeleteTypes)) + Cardinality(OfTypes(r, DeleteTypes))
  /\ transfers = Cardinality(u) + Cardinality(w)

(* The answer to a message is of its path and its kind.                    *)
Answers(m, x) ==
  /\ x.path = m.path
  /\ \A kind \in {UploadTypes, DownloadTypes, DeleteTypes} : m.type \in kind <=> x.type \in kind

-----------------------------------------------------------------------------
(* One round, seen from either end                                         *)

LEMMA AllFitTail ==
  ASSUME NEW S, NEW q \in Seq(S), q # << >>, NEW u, NEW w, AllFit(q, u, w)
  PROVE  AllFit(Tail(q), u, w) /\ Fits(Head(q), u, w)
<1>1. /\ 1 \in DOMAIN q /\ Head(q) = q[1]
      /\ \A i \in DOMAIN Tail(q) : i + 1 \in DOMAIN q /\ Tail(q)[i] = q[i + 1]
  OBVIOUS
<1>. QED
  BY <1>1 DEF AllFit

LEMMA AllFitAppend ==
  ASSUME NEW S, NEW q \in Seq(S), NEW x \in S, NEW u, NEW w, AllFit(q, u, w), Fits(x, u, w)
  PROVE  AllFit(Append(q, x), u, w)
<1>1. \A i \in DOMAIN Append(q, x) :
        \/ i \in DOMAIN q /\ Append(q, x)[i] = q[i]
        \/ Append(q, x)[i] = x
  OBVIOUS
<1>. QED
  BY <1>1 DEF AllFit

(* The end that takes a message answers it.                                *)
LEMMA RoundAnswers ==
  ASSUME NEW S, NEW q \in Seq(S), q # << >>, NEW R, NEW r \in Seq(R),
         NEW x, Answers(Head(q), x),
         NEW u, NEW w, NEW deletes, NEW transfers, Round(q, r, u, w, deletes, transfers)
  PROVE  Round(Tail(q), Append(r, x), u, w, deletes, transfers)
<1>. DEFINE T == R \cup {x}
<1>1. r \in Seq(T) /\ x \in T
  OBVIOUS
<1>. HIDE DEF T
<1>2. Apart(Tail(q), Append(r, x))
  BY <1>1, TakeApart DEF Round, Answers
<1>3. AllFit(Tail(q), u, w) /\ Fits(Head(q), u, w)
  BY AllFitTail DEF Round
<1>4. Fits(x, u, w)
  BY <1>3 DEF Fits, Answers
<1>5. AllFit(Append(r, x), u, w)
  BY <1>1, <1>4, AllFitAppend DEF Round
<1>6. /\ Cardinality(OfTypes(q, DeleteTypes))
           = Cardinality(OfTypes(Tail(q), DeleteTypes))
               + (IF Head(q).type \in DeleteTypes THEN 1 ELSE 0)
      /\ Cardinality(OfTypes(Append(r, x), DeleteTypes))
           = Cardinality(OfTypes(r, DeleteTypes)) + (IF x.type \in DeleteTypes THEN 1 ELSE 0)
  BY <1>1, TakeCounts, SendCounts
<1>7. Tail(q) \in Seq(S)
  OBVIOUS
<1>8. /\ Cardinality(OfTypes(Tail(q), DeleteTypes)) \in Nat
      /\ Cardinality(OfTypes(r, DeleteTypes)) \in Nat
  BY <1>7, OfTypesFinite
<1>9. Head(q).type \in DeleteTypes <=> x.type \in DeleteTypes
  BY DEF Answers
<1>10. Cardinality(OfTypes(q, DeleteTypes)) + Cardinality(OfTypes(r, DeleteTypes))
        = Cardinality(OfTypes(Tail(q), DeleteTypes))
            + Cardinality(OfTypes(Append(r, x), DeleteTypes))
  BY <1>6, <1>8, <1>9
<1>. QED
  BY <1>2, <1>3, <1>5, <1>10 DEF Round

(* The end that takes a message that is no delete does not answer it.      *)
LEMMA RoundDrops ==
  ASSUME NEW S, NEW q \in Seq(S), q # << >>, NEW T, NEW r \in Seq(T),
         Head(q).type \notin DeleteTypes,
         NEW u, NEW w, NEW deletes, NEW transfers, Round(q, r, u, w, deletes, transfers)
  PROVE  Round(Tail(q), r, u, w, deletes, transfers)
<1>1. Apart(Tail(q), r)
  BY TakeApart DEF Round
<1>2. AllFit(Tail(q), u, w)
  BY AllFitTail DEF Round
<1>3. Cardinality(OfTypes(q, DeleteTypes)) = Cardinality(OfTypes(Tail(q), DeleteTypes)) + 0
  BY TakeCounts
<1>4. Tail(q) \in Seq(S)
  OBVIOUS
<1>5. Cardinality(OfTypes(Tail(q), DeleteTypes)) \in Nat
  BY <1>4, OfTypesFinite
<1>6. Cardinality(OfTypes(q, DeleteTypes)) = Cardinality(OfTypes(Tail(q), DeleteTypes))
  BY <1>3, <1>5
<1>. QED
  BY <1>1, <1>2, <1>6 DEF Round

(* A round is the same round seen from the other end.                      *)
LEMMA RoundTurns ==
  ASSUME NEW S, NEW q \in Seq(S), NEW T, NEW r \in Seq(T),
         NEW u, NEW w, NEW deletes, NEW transfers
  PROVE  Round(q, r, u, w, deletes, transfers) <=> Round(r, q, u, w, deletes, transfers)
<1>1. /\ Cardinality(OfTypes(q, DeleteTypes)) \in Nat
      /\ Cardinality(OfTypes(r, DeleteTypes)) \in Nat
  BY OfTypesFinite
<1>2. Cardinality(OfTypes(q, DeleteTypes)) + Cardinality(OfTypes(r, DeleteTypes))
        = Cardinality(OfTypes(r, DeleteTypes)) + Cardinality(OfTypes(q, DeleteTypes))
  BY <1>1
<1>. QED
  BY <1>2, ApartSwaps DEF Round

(* An answer to a delete request is one request less to wait for.          *)
LEMMA RoundCounts ==
  ASSUME NEW S, NEW q \in Seq(S), q # << >>, NEW T, NEW r \in Seq(T),
         Head(q).type \in DeleteTypes,
         NEW u, NEW w, NEW deletes, NEW transfers, Round(q, r, u, w, deletes, transfers)
  PROVE  Round(Tail(q), r, u, w, deletes - 1, transfers)
<1>1. Apart(Tail(q), r)
  BY TakeApart DEF Round
<1>2. AllFit(Tail(q), u, w)
  BY AllFitTail DEF Round
<1>3. Cardinality(OfTypes(q, DeleteTypes)) = Cardinality(OfTypes(Tail(q), DeleteTypes)) + 1
  BY TakeCounts
<1>4. Tail(q) \in Seq(S)
  OBVIOUS
<1>5. /\ Cardinality(OfTypes(Tail(q), DeleteTypes)) \in Nat
      /\ Cardinality(OfTypes(r, DeleteTypes)) \in Nat
  BY <1>4, OfTypesFinite
<1>6. deletes - 1 = Cardinality(OfTypes(Tail(q), DeleteTypes))
                      + Cardinality(OfTypes(r, DeleteTypes))
  <2>1. deletes = Cardinality(OfTypes(q, DeleteTypes)) + Cardinality(OfTypes(r, DeleteTypes))
    BY DEF Round
  <2>. QED
    BY <1>3, <1>5, <2>1
<1>. QED
  BY <1>1, <1>2, <1>6 DEF Round

(* The last message of a transfer closes it.                               *)
LEMMA RoundCloses ==
  ASSUME NEW S, NEW q \in Seq(S), q # << >>, NEW T, NEW r \in Seq(T),
         NEW u, NEW w, IsFiniteSet(u), IsFiniteSet(w),
         NEW deletes, NEW transfers, Round(q, r, u, w, deletes, transfers)
  PROVE  /\ Head(q).type \in UploadTypes
              => Round(Tail(q), r, u \ {Head(q).path}, w, deletes, transfers - 1)
         /\ Head(q).type \in DownloadTypes
              => Round(Tail(q), r, u, w \ {Head(q).path}, deletes, transfers - 1)
<1>. DEFINE p == Head(q).path
            t == Tail(q)
<1>1. /\ \A i \in DOMAIN t : t[i].path # p
      /\ \A i \in DOMAIN r : r[i].path # p
  BY TakeApart DEF Round
<1>2. AllFit(t, u, w) /\ AllFit(r, u, w) /\ Fits(Head(q), u, w)
  BY AllFitTail DEF Round
<1>3. Cardinality(u) \in Nat /\ Cardinality(w) \in Nat
  BY FS_CardinalityType
<1>4. /\ p \in u => Cardinality(u \ {p}) = Cardinality(u) - 1
      /\ p \in w => Cardinality(w \ {p}) = Cardinality(w) - 1
  BY FS_RemoveElement, Zenon
<1>5. transfers = Cardinality(u) + Cardinality(w)
  BY DEF Round
<1>6. ASSUME Head(q).type \notin DeleteTypes
      PROVE  Round(t, r, u, w, deletes, transfers)
  BY <1>6, RoundDrops
<1>. HIDE DEF p, t
<1>7. CASE Head(q).type \in UploadTypes
  <2>1. p \in u /\ Head(q).type \notin DeleteTypes /\ Head(q).type \notin DownloadTypes
    BY <1>2, <1>7 DEF Fits, p, UploadTypes, DeleteTypes, DownloadTypes
  <2>2. AllFit(t, u \ {p}, w) /\ AllFit(r, u \ {p}, w)
    BY <1>1, <1>2 DEF AllFit, Fits
  <2>3. transfers - 1 = Cardinality(u \ {p}) + Cardinality(w)
    BY <1>3, <1>4, <1>5, <2>1
  <2>4. Round(t, r, u \ {p}, w, deletes, transfers - 1)
    BY <1>6, <2>1, <2>2, <2>3 DEF Round
  <2>. QED
    BY <2>1, <2>4 DEF p, t
<1>8. CASE Head(q).type \in DownloadTypes
  <2>1. p \in w /\ Head(q).type \notin DeleteTypes /\ Head(q).type \notin UploadTypes
    BY <1>2, <1>8 DEF Fits, p, UploadTypes, DeleteTypes, DownloadTypes
  <2>2. AllFit(t, u, w \ {p}) /\ AllFit(r, u, w \ {p})
    BY <1>1, <1>2 DEF AllFit, Fits
  <2>3. transfers - 1 = Cardinality(u) + Cardinality(w \ {p})
    BY <1>3, <1>4, <1>5, <2>1
  <2>4. Round(t, r, u, w \ {p}, deletes, transfers - 1)
    BY <1>6, <2>1, <2>2, <2>3 DEF Round
  <2>. QED
    BY <2>1, <2>4 DEF p, t
<1>. QED
  BY <1>7, <1>8

(* Nothing is left to count: nothing is open and nothing is under way.     *)
LEMMA RoundEnds ==
  ASSUME NEW S, NEW q \in Seq(S), NEW T, NEW r \in Seq(T),
         NEW u, NEW w, IsFiniteSet(u), IsFiniteSet(w), Round(q, r, u, w, 0, 0)
  PROVE  q = << >> /\ r = << >> /\ u = {} /\ w = {}
<1>1. /\ Cardinality(u) \in Nat /\ Cardinality(w) \in Nat
      /\ IsFiniteSet(OfTypes(q, DeleteTypes)) /\ IsFiniteSet(OfTypes(r, DeleteTypes))
      /\ Cardinality(OfTypes(q, DeleteTypes)) \in Nat
      /\ Cardinality(OfTypes(r, DeleteTypes)) \in Nat
  BY FS_CardinalityType, OfTypesFinite
<1>2. /\ 0 = Cardinality(OfTypes(q, DeleteTypes)) + Cardinality(OfTypes(r, DeleteTypes))
      /\ 0 = Cardinality(u) + Cardinality(w)
  BY DEF Round
<1>3. /\ Cardinality(u) = 0 /\ Cardinality(w) = 0
      /\ Cardinality(OfTypes(q, DeleteTypes)) = 0 /\ Cardinality(OfTypes(r, DeleteTypes)) = 0
  BY <1>1, <1>2
<1>4. u = {} /\ w = {} /\ OfTypes(q, DeleteTypes) = {} /\ OfTypes(r, DeleteTypes) = {}
  BY <1>1, <1>3, FS_EmptySet, Zenon
<1>5. ASSUME NEW R, NEW s \in Seq(R), AllFit(s, u, w), OfTypes(s, DeleteTypes) = {}
      PROVE  s = << >>
  <2>1. 1 \notin DOMAIN s
    BY <1>4, <1>5 DEF AllFit, Fits, OfTypes
  <2>2. DOMAIN s = 1..Len(s) /\ Len(s) \in Nat
    OBVIOUS
  <2>3. Len(s) = 0
    BY <2>1, <2>2
  <2>. QED
    BY <2>3
<1>. QED
  BY <1>4, <1>5 DEF Round

-----------------------------------------------------------------------------
(* What a negotiation starts                                               *)

(* Requests of certain types, at most one for each of certain paths.       *)
Batch(s, paths, types) ==
  /\ \A i \in DOMAIN s : s[i].type \in types /\ s[i].path \in paths
  /\ \A i, j \in DOMAIN s : s[i].path = s[j].path => i = j

InBucketOf(d, entries, bucket) == {p \in Path : Buckets(d, entries)[p] = bucket}

LEMMA SetToSeqOnce ==
  ASSUME NEW S, IsFiniteSet(S)
  PROVE  \A i, j \in DOMAIN SetToSeq(S) : SetToSeq(S)[i] = SetToSeq(S)[j] => i = j
<1>1. Cardinality(S) \in Nat /\ ExistsBijection(1..Cardinality(S), S)
  BY FS_CardinalityType
<1>2. PICK f \in [1..Cardinality(S) -> S] : IsInjective(f)
  BY <1>1 DEF ExistsBijection, Bijection, Injection, IsInjective
<1>3. IsInjective(SetToSeq(S))
  BY <1>2 DEF SetToSeq
<1>. QED
  BY <1>3 DEF IsInjective

(* The device classifies every path of the listing once, as a Merkle       *)
(* device always does.                                                     *)
Once(d, entries) == \A p \in Path : Listings(d, entries[p]) = 1

LEMMA MerkleOnce ==
  ASSUME NEW d \in Device \ NaiveDevice, NEW entries
  PROVE  Once(d, entries)
BY DEF Once, Listings

LEMMA InBucketOnce ==
  ASSUME NEW d \in Device, NEW entries, NEW bucket, Once(d, entries)
  PROVE  LET s == InBucket(d, entries, bucket)
         IN /\ s \in Seq(Path \X {1, 2})
            /\ \A i \in DOMAIN s : Buckets(d, entries)[s[i][1]] = bucket
            /\ \A i, j \in DOMAIN s : s[i][1] = s[j][1] => i = j
<1>. DEFINE S == {pk \in Path \X {1, 2} : /\ Buckets(d, entries)[pk[1]] = bucket
                                        /\ pk[2] <= Listings(d, entries[pk[1]])}
            s == SetToSeq(S)
<1>1. InBucket(d, entries, bucket) = s
  BY DEF InBucket
<1>2. IsFiniteSet(S)
  <2>1. IsFiniteSet({1, 2})
    <3>1. IsFiniteSet({1} \cup {2}) /\ {1, 2} = {1} \cup {2}
      BY FS_Singleton, FS_AddElement, Zenon
    <3>. QED
      BY <3>1, Zenon
  <2>2. IsFiniteSet(Path \X {1, 2})
    BY <2>1, PathAssumption, FS_Product
  <2>. QED
    BY <2>2, FS_Subset
<1>3. s \in Seq(S) /\ \A i, j \in DOMAIN s : s[i] = s[j] => i = j
  BY <1>2, SetToSeqRange, SetToSeqOnce
<1>4. \A pk \in S : pk[2] = 1 /\ pk = <<pk[1], pk[2]>>
  BY DEF Once
<1>5. S \subseteq Path \X {1, 2} /\ \A pk \in S : Buckets(d, entries)[pk[1]] = bucket
  OBVIOUS
<1>. HIDE DEF S, s
<1>6. s \in Seq(Path \X {1, 2}) /\ \A i \in DOMAIN s : s[i] \in S
  BY <1>3, <1>5
<1>7. ASSUME NEW i \in DOMAIN s, NEW j \in DOMAIN s, s[i][1] = s[j][1]
      PROVE  i = j
  <2>1. s[i] = <<s[i][1], 1>> /\ s[j] = <<s[j][1], 1>>
    BY <1>4, <1>6
  <2>. QED
    BY <1>3, <1>7, <2>1
<1>. QED
  BY <1>1, <1>5, <1>6, <1>7

LEMMA BatchJoins ==
  ASSUME NEW S, NEW s \in Seq(S), NEW t \in Seq(S), NEW P, NEW Q, NEW A, NEW B,
         Batch(s, P, A), Batch(t, Q, B), P \cap Q = {}
  PROVE  s \o t \in Seq(S) /\ Batch(s \o t, P \cup Q, A \cup B)
<1>. DEFINE r == s \o t
<1>1. /\ r \in Seq(S) /\ Len(s) \in Nat
      /\ \A i \in DOMAIN r : \/ i \in DOMAIN s /\ r[i] = s[i]
                             \/ i - Len(s) \in DOMAIN t /\ r[i] = t[i - Len(s)] /\ i \in Int
  OBVIOUS
<1>. HIDE DEF r
<1>2. \A i \in DOMAIN r : r[i].type \in A \cup B /\ r[i].path \in P \cup Q
  BY <1>1 DEF Batch
<1>3. ASSUME NEW i \in DOMAIN r, NEW j \in DOMAIN r, r[i].path = r[j].path
      PROVE  i = j
  <2>1. CASE i \in DOMAIN s /\ r[i] = s[i]
    <3>1. r[j].path \in P /\ r[j].path \notin Q
      BY <1>3, <2>1 DEF Batch
    <3>2. j \in DOMAIN s /\ r[j] = s[j]
      BY <1>1, <3>1 DEF Batch
    <3>. QED
      BY <1>3, <2>1, <3>2 DEF Batch
  <2>2. CASE i - Len(s) \in DOMAIN t /\ r[i] = t[i - Len(s)] /\ i \in Int
    <3>1. r[j].path \in Q /\ r[j].path \notin P
      BY <1>3, <2>2 DEF Batch
    <3>2. j - Len(s) \in DOMAIN t /\ r[j] = t[j - Len(s)] /\ j \in Int
      BY <1>1, <3>1 DEF Batch
    <3>3. i - Len(s) = j - Len(s)
      BY <1>3, <2>2, <3>2 DEF Batch
    <3>. QED
      BY <1>1, <2>2, <3>2, <3>3
  <2>. QED
    BY <1>1, <2>1, <2>2
<1>. QED
  BY <1>1, <1>2, <1>3 DEF Batch, r

LEMMA BatchOfUploads ==
  ASSUME DevicesOK, NEW d \in Device, NEW entries, NEW bucket, Once(d, entries)
  PROVE  /\ Uploads(d, entries, bucket) \in Seq(ServerMsg)
         /\ Batch(Uploads(d, entries, bucket), InBucketOf(d, entries, bucket),
                  {"uploadRequest"})
<1>. DEFINE ps == InBucket(d, entries, bucket)
            s  == Uploads(d, entries, bucket)
<1>1. /\ ps \in Seq(Path \X {1, 2})
      /\ \A i \in DOMAIN ps : Buckets(d, entries)[ps[i][1]] = bucket
      /\ \A i, j \in DOMAIN ps : ps[i][1] = ps[j][1] => i = j
  BY InBucketOnce
<1>2. s = [i \in 1..Len(ps) |-> UploadRequest(d, ps[i][1])]
  BY DEF Uploads
<1>. HIDE DEF ps
<1>3. DOMAIN s = DOMAIN ps /\ \A i \in DOMAIN s : s[i] = UploadRequest(d, ps[i][1])
  BY <1>1, <1>2
<1>4. \A i \in DOMAIN ps : ps[i][1] \in Path
  BY <1>1
<1>5. \A i \in DOMAIN ps : UploadRequest(d, ps[i][1]) \in ServerMsg
  BY <1>4, UploadRequestTyped
<1>6. s \in Seq(ServerMsg)
  BY <1>1, <1>2, <1>5
<1>. HIDE DEF s
<1>7. \A i \in DOMAIN s : s[i].type = "uploadRequest" /\ s[i].path = ps[i][1]
  BY <1>3 DEF UploadRequest
<1>8. \A i \in DOMAIN s : s[i].path \in InBucketOf(d, entries, bucket)
  BY <1>1, <1>3, <1>4, <1>7 DEF InBucketOf
<1>9. \A i, j \in DOMAIN s : s[i].path = s[j].path => i = j
  BY <1>1, <1>3, <1>7
<1>. QED
  BY <1>6, <1>7, <1>8, <1>9 DEF Batch, s

LEMMA BatchOfDownloads ==
  ASSUME NEW d \in Device, NEW entries, NEW bucket, Once(d, entries)
  PROVE  /\ Downloads(d, entries, bucket) \in Seq(ServerMsg)
         /\ Batch(Downloads(d, entries, bucket), InBucketOf(d, entries, bucket),
                  {"downloadRequest"})
<1>. DEFINE ps == InBucket(d, entries, bucket)
            s  == Downloads(d, entries, bucket)
<1>1. /\ ps \in Seq(Path \X {1, 2})
      /\ \A i \in DOMAIN ps : Buckets(d, entries)[ps[i][1]] = bucket
      /\ \A i, j \in DOMAIN ps : ps[i][1] = ps[j][1] => i = j
  BY InBucketOnce
<1>2. s = [i \in 1..Len(ps) |-> DownloadRequest(ps[i][1])]
  BY DEF Downloads
<1>. HIDE DEF ps
<1>3. DOMAIN s = DOMAIN ps /\ \A i \in DOMAIN s : s[i] = DownloadRequest(ps[i][1])
  BY <1>1, <1>2
<1>4. \A i \in DOMAIN ps : ps[i][1] \in Path
  BY <1>1
<1>5. \A i \in DOMAIN ps : DownloadRequest(ps[i][1]) \in ServerMsg
  BY <1>4 DEF DownloadRequest, ServerMsg, DownloadMsg
<1>6. s \in Seq(ServerMsg)
  BY <1>1, <1>2, <1>5
<1>. HIDE DEF s
<1>7. \A i \in DOMAIN s : s[i].type = "downloadRequest" /\ s[i].path = ps[i][1]
  BY <1>3 DEF DownloadRequest
<1>8. \A i \in DOMAIN s : s[i].path \in InBucketOf(d, entries, bucket)
  BY <1>1, <1>3, <1>4, <1>7 DEF InBucketOf
<1>9. \A i, j \in DOMAIN s : s[i].path = s[j].path => i = j
  BY <1>1, <1>3, <1>7
<1>. QED
  BY <1>6, <1>7, <1>8, <1>9 DEF Batch, s

LEMMA BatchOfDeletes ==
  ASSUME DevicesOK, NEW d \in Device, NEW entries
  PROVE  /\ DeleteRequests(d, entries) \in Seq(ServerMsg)
         /\ Batch(DeleteRequests(d, entries), InBucketOf(d, entries, "DeletionWinsLeft"),
                  {"deleteRequest"})
<1>. DEFINE S  == InBucketOf(d, entries, "DeletionWinsLeft")
            ps == SetToSeq(S)
            s  == DeleteRequests(d, entries)
<1>1. IsFiniteSet(S)
  BY PathAssumption, FS_Subset DEF InBucketOf
<1>2. ps \in Seq(S) /\ \A i, j \in DOMAIN ps : ps[i] = ps[j] => i = j
  BY <1>1, SetToSeqRange, SetToSeqOnce
<1>3. /\ DOMAIN s = DOMAIN ps
      /\ \A i \in DOMAIN s : s[i] = DeleteRequest(d, ps[i])
  BY <1>2 DEF DeleteRequests, InBucketOf
<1>4. s \in Seq(ServerMsg)
  BY RequestsTyped
<1>. HIDE DEF ps, s, S
<1>5. \A i \in DOMAIN s : s[i].type = "deleteRequest" /\ s[i].path = ps[i]
  BY <1>3 DEF DeleteRequest
<1>6. \A i \in DOMAIN ps : ps[i] \in S
  BY <1>2
<1>. QED
  BY <1>2, <1>3, <1>4, <1>5, <1>6 DEF Batch, S, s

(* The transfers a negotiation starts are of different paths.              *)
LEMMA BatchOfTransfers ==
  ASSUME DevicesOK, NEW d \in Device, NEW entries, Once(d, entries)
  PROVE  /\ TransferRequests(d, entries) \in Seq(ServerMsg)
         /\ Batch(TransferRequests(d, entries),
                  Path \ InBucketOf(d, entries, "DeletionWinsLeft"),
                  {"uploadRequest", "downloadRequest"})
<1>. DEFINE P(bucket) == InBucketOf(d, entries, bucket)
            a == Uploads(d, entries, "OnlyInLeft")
            b == Downloads(d, entries, "OnlyInRight")
            c == Uploads(d, entries, "ModifiedWinsLeft")
            e == Downloads(d, entries, "ModifiedWinsRight")
<1>1. /\ a \in Seq(ServerMsg) /\ Batch(a, P("OnlyInLeft"), {"uploadRequest"})
      /\ b \in Seq(ServerMsg) /\ Batch(b, P("OnlyInRight"), {"downloadRequest"})
      /\ c \in Seq(ServerMsg) /\ Batch(c, P("ModifiedWinsLeft"), {"uploadRequest"})
      /\ e \in Seq(ServerMsg) /\ Batch(e, P("ModifiedWinsRight"), {"downloadRequest"})
  BY BatchOfUploads, BatchOfDownloads
<1>. HIDE DEF a, b, c, e
<1>2. /\ P("OnlyInLeft") \cap P("OnlyInRight") = {}
      /\ (P("OnlyInLeft") \cup P("OnlyInRight")) \cap P("ModifiedWinsLeft") = {}
      /\ (P("OnlyInLeft") \cup P("OnlyInRight") \cup P("ModifiedWinsLeft"))
           \cap P("ModifiedWinsRight") = {}
      /\ P("OnlyInLeft") \cup P("OnlyInRight") \cup P("ModifiedWinsLeft")
           \cup P("ModifiedWinsRight") \subseteq Path \ P("DeletionWinsLeft")
  BY DEF InBucketOf
<1>. HIDE DEF P
<1>3. a \o b \in Seq(ServerMsg)
        /\ Batch(a \o b, P("OnlyInLeft") \cup P("OnlyInRight"),
                 {"uploadRequest"} \cup {"downloadRequest"})
  BY <1>1, <1>2, BatchJoins
<1>4. a \o b \o c \in Seq(ServerMsg)
        /\ Batch(a \o b \o c, P("OnlyInLeft") \cup P("OnlyInRight") \cup P("ModifiedWinsLeft"),
                 {"uploadRequest"} \cup {"downloadRequest"} \cup {"uploadRequest"})
  BY <1>1, <1>2, <1>3, BatchJoins
<1>5. a \o b \o c \o e \in Seq(ServerMsg)
        /\ Batch(a \o b \o c \o e,
                 P("OnlyInLeft") \cup P("OnlyInRight") \cup P("ModifiedWinsLeft")
                   \cup P("ModifiedWinsRight"),
                 {"uploadRequest"} \cup {"downloadRequest"} \cup {"uploadRequest"}
                   \cup {"downloadRequest"})
  BY <1>1, <1>2, <1>4, BatchJoins
<1>6. TransferRequests(d, entries) = a \o b \o c \o e
  BY DEF TransferRequests, a, b, c, e
<1>7. Batch(TransferRequests(d, entries), Path \ P("DeletionWinsLeft"),
            {"uploadRequest", "downloadRequest"})
  BY <1>2, <1>5, <1>6 DEF Batch
<1>. QED
  BY <1>5, <1>6, <1>7 DEF P

(* The transfers that are opened are as many as the requests.              *)
LEMMA TransfersCounted ==
  ASSUME NEW requests \in Seq(ServerMsg), NEW P,
         Batch(requests, P, {"uploadRequest", "downloadRequest"})
  PROVE  Len(requests) = Cardinality(PathsOf(requests, "uploadRequest"))
                           + Cardinality(PathsOf(requests, "downloadRequest"))
<1>. DEFINE U == PathsOf(requests, "uploadRequest")
            W == PathsOf(requests, "downloadRequest")
            f == [i \in 1..Len(requests) |-> requests[i].path]
<1>1. DOMAIN requests = 1..Len(requests) /\ Len(requests) \in Nat
  OBVIOUS
<1>2. /\ U = {requests[i].path : i \in {j \in DOMAIN requests : requests[j].type = "uploadRequest"}}
      /\ W = {requests[i].path : i \in {j \in DOMAIN requests : requests[j].type = "downloadRequest"}}
  BY <1>1 DEF PathsOf, ToSet
<1>. HIDE DEF U, W
<1>3. f \in Bijection(1..Len(requests), U \cup W)
  <2>1. f \in [1..Len(requests) -> U \cup W]
    BY <1>1, <1>2 DEF Batch
  <2>2. \A i, j \in 1..Len(requests) : f[i] = f[j] => i = j
    BY <1>1 DEF Batch
  <2>3. \A p \in U \cup W : \E i \in 1..Len(requests) : f[i] = p
    BY <1>1, <1>2
  <2>. QED
    BY <2>1, <2>2, <2>3, Fun_IsBij
<1>4. IsFiniteSet(U \cup W) /\ Cardinality(U \cup W) = Len(requests)
  <2>1. IsFiniteSet(1..Len(requests)) /\ Cardinality(1..Len(requests)) = Len(requests)
    BY <1>1, CountTo
  <2>2. ExistsBijection(1..Len(requests), U \cup W)
    BY <1>3 DEF ExistsBijection
  <2>. QED
    BY <2>1, <2>2, FS_Bijection
<1>5. IsFiniteSet(U) /\ IsFiniteSet(W)
  BY <1>4, FS_Subset
<1>6. U \cap W = {}
  BY <1>1, <1>2 DEF Batch
<1>7. Cardinality(U) \in Nat /\ Cardinality(W) \in Nat /\ Cardinality({}) = 0
  BY <1>5, FS_CardinalityType, FS_EmptySet
<1>8. Cardinality(U \cup W) = Cardinality(U) + Cardinality(W) - Cardinality(U \cap W)
  BY <1>5, FS_Union
<1>9. Cardinality(U \cap W) = 0
  BY <1>6, <1>7
<1>. QED
  BY <1>4, <1>7, <1>8, <1>9 DEF U, W

(* The requests a list makes a device send are a round.                    *)
LEMMA RoundStarts ==
  ASSUME DevicesOK, NEW d \in Device, NEW entries, Once(d, entries)
  PROVE  LET requests == TransferRequests(d, entries)
             deletes  == DeleteRequests(d, entries)
         IN /\ Round(<< >> \o requests \o deletes, << >>,
                     PathsOf(requests, "uploadRequest"), PathsOf(requests, "downloadRequest"),
                     Len(deletes), Len(requests))
            /\ Len(deletes) \in Nat /\ Len(requests) \in Nat
            /\ PathsOf(requests, "uploadRequest") \subseteq Path
            /\ PathsOf(requests, "downloadRequest") \subseteq Path
<1>. DEFINE requests == TransferRequests(d, entries)
            deletes  == DeleteRequests(d, entries)
            P == Path \ InBucketOf(d, entries, "DeletionWinsLeft")
            Q == InBucketOf(d, entries, "DeletionWinsLeft")
            U == PathsOf(requests, "uploadRequest")
            W == PathsOf(requests, "downloadRequest")
            q == requests \o deletes
<1>1. /\ requests \in Seq(ServerMsg) /\ deletes \in Seq(ServerMsg)
      /\ Batch(requests, P, {"uploadRequest", "downloadRequest"})
      /\ Batch(deletes, Q, {"deleteRequest"})
  BY BatchOfTransfers, BatchOfDeletes
<1>. HIDE DEF requests, deletes
<1>2. << >> \o requests \o deletes = q
  BY <1>1
<1>3. /\ q \in Seq(ServerMsg)
      /\ Batch(q, P \cup Q, {"uploadRequest", "downloadRequest"} \cup {"deleteRequest"})
  BY <1>1, BatchJoins
<1>4. /\ Len(requests) \in Nat /\ Len(deletes) \in Nat
      /\ DOMAIN q = 1..(Len(requests) + Len(deletes))
      /\ \A i \in DOMAIN requests : i \in DOMAIN q /\ q[i] = requests[i]
      /\ \A i \in DOMAIN q : \/ i \in DOMAIN requests /\ q[i] = requests[i]
                             \/ /\ i \in (Len(requests) + 1)..(Len(requests) + Len(deletes))
                                /\ i - Len(requests) \in DOMAIN deletes
                                /\ q[i] = deletes[i - Len(requests)]
      /\ \A i \in (Len(requests) + 1)..(Len(requests) + Len(deletes)) :
            /\ i \in DOMAIN q /\ i - Len(requests) \in DOMAIN deletes
            /\ q[i] = deletes[i - Len(requests)]
  BY <1>1
<1>5. /\ U = {requests[i].path : i \in {j \in DOMAIN requests : requests[j].type = "uploadRequest"}}
      /\ W = {requests[i].path : i \in {j \in DOMAIN requests : requests[j].type = "downloadRequest"}}
  BY <1>1 DEF PathsOf, ToSet
<1>. HIDE DEF q, U, W
<1>6. AllFit(q, U, W)
  <2>. SUFFICES ASSUME NEW i \in DOMAIN q PROVE Fits(q[i], U, W)
    BY DEF AllFit
  <2>1. CASE i \in DOMAIN requests /\ q[i] = requests[i]
    BY <1>1, <1>5, <2>1 DEF Batch, Fits, UploadTypes, DownloadTypes
  <2>2. CASE i - Len(requests) \in DOMAIN deletes /\ q[i] = deletes[i - Len(requests)]
    <3>1. q[i].type = "deleteRequest"
      BY <1>1, <2>2 DEF Batch
    <3>. QED
      BY <3>1 DEF Fits, UploadTypes, DownloadTypes, DeleteTypes
  <2>. QED
    BY <1>4, <2>1, <2>2
<1>7. Apart(q, << >>) /\ AllFit(<< >>, U, W) /\ OfTypes(<< >>, DeleteTypes) = {}
  BY <1>3 DEF Batch, Apart, AllFit, OfTypes
<1>8. Cardinality(OfTypes(q, DeleteTypes)) = Len(deletes)
  <2>. DEFINE I == (Len(requests) + 1)..(Len(requests) + Len(deletes))
  <2>1. \A i \in DOMAIN requests : q[i].type \notin DeleteTypes
    BY <1>1, <1>4 DEF Batch, DeleteTypes
  <2>2. \A i \in I : i \in DOMAIN q /\ q[i].type \in DeleteTypes
    BY <1>1, <1>4 DEF Batch, DeleteTypes
  <2>3. OfTypes(q, DeleteTypes) = I
    BY <1>4, <2>1, <2>2 DEF OfTypes
  <2>4. Len(requests) + 1 \in Int /\ Len(requests) + Len(deletes) \in Int
    BY <1>4
  <2>5. Cardinality(I) = IF Len(requests) + 1 > Len(requests) + Len(deletes) THEN 0
                         ELSE (Len(requests) + Len(deletes)) - (Len(requests) + 1) + 1
    BY <2>4, FS_Interval, Zenon
  <2>. HIDE DEF I
  <2>6. Cardinality(I) = Len(deletes)
    BY <1>4, <2>5
  <2>. QED
    BY <2>3, <2>6
<1>9. Len(deletes) = Cardinality(OfTypes(q, DeleteTypes))
                       + Cardinality(OfTypes(<< >>, DeleteTypes))
  <2>1. Cardinality(OfTypes(<< >>, DeleteTypes)) = 0
    BY <1>7, FS_EmptySet, Zenon
  <2>. QED
    BY <1>4, <1>8, <2>1
<1>10. Len(requests) = Cardinality(U) + Cardinality(W)
  BY <1>1, TransfersCounted DEF U, W
<1>11. Round(q, << >>, U, W, Len(deletes), Len(requests))
  BY <1>6, <1>7, <1>9, <1>10 DEF Round
<1>12. U \subseteq Path /\ W \subseteq Path
  BY <1>1, <1>5 DEF Batch
<1>. QED
  BY <1>2, <1>4, <1>11, <1>12 DEF U, W, requests, deletes

-----------------------------------------------------------------------------
(* The devices                                                             *)

SyncOK ==
  /\ busy \in [Device -> BOOLEAN]
  /\ pendingMessages \in [Device -> Int] /\ outstandingTransfers \in [Device -> Int]
  /\ uploading \in [Device -> SUBSET Path] /\ downloading \in [Device -> SUBSET Path]
  /\ DOMAIN failure = Device \cup {Server}

(* The list is asked for or on its way, and nothing else has begun.        *)
Listing(d) ==
  /\ busy[d] /\ pendingMessages[d] = 0 /\ outstandingTransfers[d] = 0
  /\ uploading[d] = {} /\ downloading[d] = {}
  /\ \/ toServer[d] = <<[type |-> "listRequest"]>> /\ toDevice[d] = << >>
     \/ toServer[d] = << >> /\ Len(toDevice[d]) = 1 /\ toDevice[d][1].type = "list"

Working(d) ==
  /\ Round(toServer[d], toDevice[d], uploading[d], downloading[d],
           pendingMessages[d], outstandingTransfers[d])
  /\ busy[d] \/ (pendingMessages[d] = 0 /\ outstandingTransfers[d] = 0)

Drained(d) ==
  toServer[d] = << >> /\ toDevice[d] = << >> /\ uploading[d] = {} /\ downloading[d] = {}

(* A device that does not run keeps what it had: only a new one is idle.   *)
Accounted(d) ==
  /\ Running(d) => Listing(d) \/ Working(d)
  /\ busy[d] \/ Drained(d)

AInv == SyncOK /\ \A d \in Device \ NaiveDevice : Accounted(d)

(* A step that does not concern a device.                                  *)
Same(d) ==
  /\ busy'[d] = busy[d]
  /\ pendingMessages'[d] = pendingMessages[d]
  /\ outstandingTransfers'[d] = outstandingTransfers[d]
  /\ uploading'[d] = uploading[d] /\ downloading'[d] = downloading[d]
  /\ toServer'[d] = toServer[d] /\ toDevice'[d] = toDevice[d]
  /\ failure'[d] = failure[d]

LEMMA SameAccounts ==
  ASSUME NEW d \in Device, Accounted(d), Same(d)
  PROVE  Accounted(d)'
<1>1. Listing(d) => Listing(d)'
  BY DEF Listing, Same
<1>2. Working(d) => Working(d)'
  BY DEF Working, Same
<1>3. Drained(d) => Drained(d)'
  BY DEF Drained, Same
<1>4. (Running(d)' <=> Running(d)) /\ busy'[d] = busy[d]
  BY DEF Running, Same
<1>. QED
  BY <1>1, <1>2, <1>3, <1>4 DEF Accounted

LEMMA PathsFinite ==
  ASSUME NEW u \in SUBSET Path
  PROVE  IsFiniteSet(u) /\ Cardinality(u) \in Nat
BY PathAssumption, FS_Subset, FS_CardinalityType

(* A device whose counters are zero has nothing under way.                 *)
LEMMA ZeroMeansDrained ==
  ASSUME SyncOK, NetOK, NEW d \in Device, Working(d),
         pendingMessages[d] = 0, outstandingTransfers[d] = 0
  PROVE  Drained(d)
<1>1. /\ toServer[d] \in Seq(ServerMsg) /\ toDevice[d] \in Seq(DeviceMsg)
      /\ uploading[d] \in SUBSET Path /\ downloading[d] \in SUBSET Path
  BY DEF SyncOK, NetOK
<1>2. IsFiniteSet(uploading[d]) /\ IsFiniteSet(downloading[d])
  BY <1>1, PathsFinite
<1>3. Round(toServer[d], toDevice[d], uploading[d], downloading[d], 0, 0)
  BY DEF Working
<1>. QED
  BY <1>1, <1>2, <1>3, RoundEnds DEF Drained

(* A device at work after a step is accounted for.                         *)
LEMMA WorkingAccounts ==
  ASSUME SyncOK', NetOK', NEW d \in Device, Working(d)'
  PROVE  Accounted(d)'
<1>1. \/ busy'[d]
      \/ pendingMessages'[d] = 0 /\ outstandingTransfers'[d] = 0
  BY DEF Working
<1>2. /\ toServer'[d] \in Seq(ServerMsg) /\ toDevice'[d] \in Seq(DeviceMsg)
      /\ uploading'[d] \in SUBSET Path /\ downloading'[d] \in SUBSET Path
  BY DEF SyncOK, NetOK
<1>3. IsFiniteSet(uploading'[d]) /\ IsFiniteSet(downloading'[d])
  BY <1>2, PathsFinite
<1>4. CASE pendingMessages'[d] = 0 /\ outstandingTransfers'[d] = 0
  <2>1. Round(toServer'[d], toDevice'[d], uploading'[d], downloading'[d], 0, 0)
    BY <1>4 DEF Working
  <2>2. Drained(d)'
    BY <1>2, <1>3, <2>1, RoundEnds DEF Drained
  <2>. QED
    BY <2>2 DEF Accounted
<1>. QED
  BY <1>1, <1>4 DEF Accounted

(* A device with something on its connection is at it.                     *)
LEMMA BusyWithMessages ==
  ASSUME NEW d \in Device, Accounted(d), toServer[d] # << >> \/ toDevice[d] # << >>
  PROVE  busy[d]
BY DEF Accounted, Drained

OnlyConcerns(d) == \A e \in Device \ {d} : Same(e)

-----------------------------------------------------------------------------
(* The tick and the server                                                 *)

LEMMA TickConcerns ==
  ASSUME SyncOK, NetOK, NEW d \in Device, Tick(d)
  PROVE  SyncOK' /\ OnlyConcerns(d)
<1>1. SyncOK'
  BY DEF SyncOK, Tick, TickStarts
<1>2. OnlyConcerns(d)
  BY DEF SyncOK, NetOK, Tick, TickStarts, OnlyConcerns, Same
<1>. QED
  BY <1>1, <1>2

(* A tick starts on a device that has finished.                            *)
LEMMA TickAccounts ==
  ASSUME SyncOK, NetOK, NEW d \in Device, Accounted(d), Tick(d)
  PROVE  Accounted(d)'
<1>1. Working(d) /\ Drained(d) /\ ~busy[d]
  BY DEF Tick, TickStarts, Accounted, Listing
<1>2. pendingMessages[d] = 0 /\ outstandingTransfers[d] = 0
  BY <1>1 DEF Working
<1>3. /\ toServer'[d] = <<[type |-> "listRequest"]>> /\ toDevice'[d] = << >>
      /\ busy'[d] /\ pendingMessages'[d] = 0 /\ outstandingTransfers'[d] = 0
      /\ uploading'[d] = {} /\ downloading'[d] = {}
  BY <1>1, <1>2 DEF Tick, TickStarts, SyncOK, NetOK, Drained
<1>4. Listing(d)'
  BY <1>3 DEF Listing
<1>. QED
  BY <1>3, <1>4 DEF Accounted

LEMMA ServerConcerns ==
  ASSUME SyncOK, NetOK, NEW d \in Device, ServerReceive(d)
  PROVE  SyncOK' /\ OnlyConcerns(d) /\ failure'[d] = failure[d]
<1>1. /\ UNCHANGED <<busy, pendingMessages, outstandingTransfers, uploading, downloading>>
      /\ toServer' = [toServer EXCEPT ![d] = Tail(@)]
  BY DEF ServerReceive, ServerTakes, syncVars
<1>2. \/ failure' = failure
      \/ \E what : failure' = [failure EXCEPT ![Server] = what]
  <2>. DEFINE m == Head(toServer[d])
  <2>1. \A what : Fail(Server, what) => failure' = [failure EXCEPT ![Server] = what]
    BY DEF Fail
  <2>2. \/ failure' = failure
        \/ Fail(Server, "no upload state") \/ Fail(Server, "no active transfer")
        \/ Fail(Server, "no file size") \/ Fail(Server, "no mtime or hash")
    <3>1. \/ ServeList(d, m) \/ ServeUploadRequest(d, m) \/ ServeChunk(d, m)
          \/ ServeDownloadRequest(d, m) \/ failure' = failure
      BY DEF ServerReceive, ServeFailedDelete
    <3>. HIDE DEF m
    <3>. QED
      BY <3>1 DEF ServeList, ServeUploadRequest, ServeChunk, ServeDownloadRequest
  <2>. QED
    BY <2>1, <2>2
<1>3. \/ toDevice' = toDevice
      \/ \E x : toDevice' = [toDevice EXCEPT ![d] = Append(@, x)]
  BY DEF ServerReceive, ServeList, ServeUploadRequest, ServeChunk, ServeDownloadRequest,
         ServeDelete, ServeFailedDelete, Answer
<1>4. DOMAIN failure' = Device \cup {Server}
        /\ \A e \in Device : failure'[e] = failure[e]
  BY <1>2, ServerAssumption DEF SyncOK
<1>5. \A e \in Device \ {d} : toServer'[e] = toServer[e] /\ toDevice'[e] = toDevice[e]
  BY <1>1, <1>3 DEF NetOK
<1>. QED
  BY <1>1, <1>4, <1>5 DEF SyncOK, OnlyConcerns, Same

(* The server answers what it takes with a message of its path and kind,   *)
(* or stops on a message that is no delete.                                *)
LEMMA ServerAnswers ==
  ASSUME NetOK, NEW d \in Device, ServerReceive(d),
         Head(toServer[d]).type # "listRequest"
  PROVE  \/ /\ Head(toServer[d]).type \notin DeleteTypes
            /\ toDevice'[d] = toDevice[d]
         \/ \E x : Answers(Head(toServer[d]), x) /\ toDevice'[d] = Append(toDevice[d], x)
<1>. DEFINE m == Head(toServer[d])
<1>1. \A x : Answer(d, x) => toDevice'[d] = Append(toDevice[d], x)
  BY DEF Answer, NetOK
<1>2. \/ ServeList(d, m) \/ ServeUploadRequest(d, m) \/ ServeChunk(d, m)
      \/ ServeDownloadRequest(d, m) \/ ServeDelete(d, m) \/ ServeFailedDelete(d, m)
  BY DEF ServerReceive
<1>. HIDE DEF m
<1>3. CASE ServeUploadRequest(d, m)
  <2>. DEFINE x == [type |-> "uploadSize", path |-> m.path, chunks |-> m.size]
  <2>1. Answers(m, x)
    BY <1>3 DEF ServeUploadRequest, Answers, UploadTypes, DownloadTypes, DeleteTypes
  <2>2. Answer(d, x)
    BY <1>3 DEF ServeUploadRequest
  <2>. QED
    BY <1>1, <2>1, <2>2 DEF m
<1>4. CASE ServeChunk(d, m)
  <2>. DEFINE x == [type |-> "uploadAck", path |-> m.path]
  <2>1. Answers(m, x) /\ m.type \notin DeleteTypes
    BY <1>4 DEF ServeChunk, Answers, UploadTypes, DownloadTypes, DeleteTypes
  <2>2. Answer(d, x) \/ toDevice' = toDevice
    BY <1>4 DEF ServeChunk
  <2>. QED
    BY <1>1, <2>1, <2>2 DEF m
<1>5. CASE ServeDownloadRequest(d, m)
  <2>. DEFINE x == [type |-> "download", path |-> m.path, mtime |-> index[m.path].mtime,
                    hash |-> index[m.path].hash, content |-> store[m.path]]
  <2>1. Answers(m, x) /\ m.type \notin DeleteTypes
    BY <1>5 DEF ServeDownloadRequest, Answers, UploadTypes, DownloadTypes, DeleteTypes
  <2>2. Answer(d, x) \/ toDevice' = toDevice
    BY <1>5 DEF ServeDownloadRequest
  <2>. QED
    BY <1>1, <2>1, <2>2 DEF m
<1>6. CASE ServeDelete(d, m)
  <2>1. PICK done : Answer(d, [type |-> "deleteAnswer", path |-> m.path, done |-> done])
    BY <1>6 DEF ServeDelete
  <2>. DEFINE x == [type |-> "deleteAnswer", path |-> m.path, done |-> done]
  <2>2. Answers(m, x)
    BY <1>6 DEF ServeDelete, Answers, UploadTypes, DownloadTypes, DeleteTypes
  <2>. QED
    BY <1>1, <2>1, <2>2 DEF m
<1>7. CASE ServeFailedDelete(d, m)
  <2>. DEFINE x == [type |-> "deleteAnswer", path |-> m.path, done |-> FALSE]
  <2>1. Answers(m, x)
    BY <1>7 DEF ServeFailedDelete, Answers, UploadTypes, DownloadTypes, DeleteTypes
  <2>2. Answer(d, x)
    BY <1>7 DEF ServeFailedDelete
  <2>. QED
    BY <1>1, <2>1, <2>2 DEF m
<1>8. ~ServeList(d, m)
  BY DEF ServeList, m
<1>. QED
  BY <1>2, <1>3, <1>4, <1>5, <1>6, <1>7, <1>8

LEMMA ServerAccounts ==
  ASSUME SyncOK, NetOK, SyncOK', NetOK', NEW d \in Device, Accounted(d),
         ServerReceive(d), failure'[d] = failure[d]
  PROVE  Accounted(d)'
<1>1. /\ UNCHANGED <<busy, pendingMessages, outstandingTransfers, uploading, downloading>>
      /\ toServer'[d] = Tail(toServer[d]) /\ toServer[d] # << >>
  BY DEF ServerReceive, ServerTakes, syncVars, NetOK
<1>2. busy[d] /\ busy'[d]
  BY <1>1, BusyWithMessages
<1>3. CASE ~Running(d)
  BY <1>2, <1>3 DEF Accounted, Running
<1>4. CASE Listing(d)
  <2>1. toServer[d] = <<[type |-> "listRequest"]>> /\ toDevice[d] = << >>
    BY <1>1, <1>4 DEF Listing
  <2>2. Head(toServer[d]).type = "listRequest"
    BY <2>1
  <2>3. ServeList(d, Head(toServer[d]))
    BY <2>2 DEF ServerReceive, ServeUploadRequest, ServeChunk, ServeDownloadRequest,
                ServeDelete, ServeFailedDelete
  <2>4. toDevice'[d] = <<[type |-> "list", entries |-> index]>> /\ toServer'[d] = << >>
    BY <1>1, <2>1, <2>3 DEF ServeList, Answer, NetOK
  <2>5. Len(toDevice'[d]) = 1 /\ toDevice'[d][1].type = "list"
    BY <2>4
  <2>6. Listing(d)'
    BY <1>1, <1>2, <1>4, <2>4, <2>5 DEF Listing
  <2>. QED
    BY <1>2, <2>6 DEF Accounted
<1>5. CASE Working(d)
  <2>1. /\ toServer[d] \in Seq(ServerMsg) /\ toDevice[d] \in Seq(DeviceMsg)
        /\ Round(toServer[d], toDevice[d], uploading[d], downloading[d],
                 pendingMessages[d], outstandingTransfers[d])
    BY <1>5 DEF NetOK, Working
  <2>2. Head(toServer[d]).type # "listRequest"
    <3>1. AllFit(toServer[d], uploading[d], downloading[d])
      BY <2>1 DEF Round
    <3>2. Fits(Head(toServer[d]), uploading[d], downloading[d])
      BY <1>1, <2>1, <3>1, AllFitTail
    <3>. QED
      BY <3>2 DEF Fits, UploadTypes, DownloadTypes, DeleteTypes
  <2>3. Round(toServer'[d], toDevice'[d], uploading[d], downloading[d],
              pendingMessages[d], outstandingTransfers[d])
    <3>1. CASE Head(toServer[d]).type \notin DeleteTypes /\ toDevice'[d] = toDevice[d]
      BY <1>1, <2>1, <3>1, RoundDrops
    <3>2. CASE \E x : /\ Answers(Head(toServer[d]), x)
                      /\ toDevice'[d] = Append(toDevice[d], x)
      BY <1>1, <2>1, <3>2, RoundAnswers
    <3>. QED
      BY <2>2, <3>1, <3>2, ServerAnswers
  <2>4. Working(d)'
    BY <1>1, <1>2, <2>3 DEF Working
  <2>. QED
    BY <2>4, WorkingAccounts
<1>. QED
  BY <1>3, <1>4, <1>5 DEF Accounted

-----------------------------------------------------------------------------
(* The answers a device takes                                              *)

LEMMA RequestsCounted ==
  ASSUME DevicesOK, NEW d \in Device, NEW entries
  PROVE  LET requests == TransferRequests(d, entries)
         IN /\ Len(requests) \in Nat /\ Len(DeleteRequests(d, entries)) \in Nat
            /\ PathsOf(requests, "uploadRequest") \subseteq Path
            /\ PathsOf(requests, "downloadRequest") \subseteq Path
<1>. DEFINE requests == TransferRequests(d, entries)
<1>1. requests \in Seq(ServerMsg) /\ DeleteRequests(d, entries) \in Seq(ServerMsg)
  BY RequestsTyped
<1>. HIDE DEF requests
<1>2. \A r \in ToSet(requests) : r \in ServerMsg
  BY <1>1 DEF ToSet
<1>3. \A m \in ServerMsg : m.type \in {"uploadRequest", "downloadRequest"} => m.path \in Path
  BY ServerMsgOf DEF UploadMsg, DownloadMsg
<1>4. /\ PathsOf(requests, "uploadRequest") \subseteq Path
      /\ PathsOf(requests, "downloadRequest") \subseteq Path
  BY <1>2, <1>3 DEF PathsOf
<1>. QED
  BY <1>1, <1>4 DEF requests

LEMMA ListConcerns ==
  ASSUME DevicesOK, SyncOK, NetOK, NEW d \in Device, NEW m, ReceiveList(d, m),
         toDevice' = [toDevice EXCEPT ![d] = Tail(@)]
  PROVE  SyncOK' /\ OnlyConcerns(d)
<1>. DEFINE requests == TransferRequests(d, m.entries)
            U == PathsOf(requests, "uploadRequest")
            W == PathsOf(requests, "downloadRequest")
            t == outstandingTransfers[d] + Len(requests)
            n == pendingMessages[d] + Len(DeleteRequests(d, m.entries))
            sent == toServer[d] \o requests \o DeleteRequests(d, m.entries)
            b == busy[d] /\ ~(n = 0 /\ t = 0)
<1>1. t \in Int /\ n \in Int /\ U \subseteq Path /\ W \subseteq Path /\ b \in BOOLEAN
  BY RequestsCounted DEF SyncOK
<1>2. /\ outstandingTransfers' = [outstandingTransfers EXCEPT ![d] = t]
      /\ pendingMessages' = [pendingMessages EXCEPT ![d] = n]
      /\ uploading' = [uploading EXCEPT ![d] = @ \cup U]
      /\ downloading' = [downloading EXCEPT ![d] = @ \cup W]
      /\ toServer' = [toServer EXCEPT ![d] = sent]
      /\ busy' = [busy EXCEPT ![d] = b]
      /\ failure' = failure
  BY DEF ReceiveList, CountedTransfers, Unlock
<1>. HIDE DEF requests, U, W, t, n, b, sent
<1>3. SyncOK'
  BY <1>1, <1>2 DEF SyncOK
<1>4. OnlyConcerns(d)
  BY <1>2 DEF SyncOK, NetOK, OnlyConcerns, Same
<1>. QED
  BY <1>3, <1>4

LEMMA UploadSizeConcerns ==
  ASSUME SyncOK, NetOK, NEW d \in Device, NEW m, ReceiveUploadSize(d, m),
         toDevice' = [toDevice EXCEPT ![d] = Tail(@)]
  PROVE  SyncOK' /\ OnlyConcerns(d)
<1>1. UNCHANGED <<busy, pendingMessages, outstandingTransfers, uploading, downloading>>
  BY DEF ReceiveUploadSize, syncVars
<1>2. \/ failure' = failure
      \/ \E what : failure' = [failure EXCEPT ![d] = what]
  BY DEF ReceiveUploadSize, Fail
<1>3. \/ toServer' = toServer
      \/ \E x : toServer' = [toServer EXCEPT ![d] = Append(@, x)]
  BY DEF ReceiveUploadSize
<1>4. /\ DOMAIN failure' = Device \cup {Server}
      /\ \A e \in Device \ {d} : failure'[e] = failure[e]
  BY <1>2 DEF SyncOK
<1>5. \A e \in Device \ {d} : toServer'[e] = toServer[e] /\ toDevice'[e] = toDevice[e]
  BY <1>3 DEF NetOK
<1>. QED
  BY <1>1, <1>4, <1>5 DEF SyncOK, OnlyConcerns, Same

(* A transfer that is done leaves the device's own counters and lock.      *)
LEMMA DoneConcerns ==
  ASSUME SyncOK, NEW d \in Device, TransferDone(d)
  PROVE  /\ busy' \in [Device -> BOOLEAN] /\ outstandingTransfers' \in [Device -> Int]
         /\ pendingMessages' = pendingMessages
         /\ outstandingTransfers'[d] = outstandingTransfers[d] - 1
         /\ busy'[d] = (busy[d] /\ ~(pendingMessages[d] = 0 /\ outstandingTransfers[d] - 1 = 0))
         /\ \A e \in Device \ {d} :
              busy'[e] = busy[e] /\ outstandingTransfers'[e] = outstandingTransfers[e]
BY DEF SyncOK, TransferDone, Unlock

LEMMA UploadAckConcerns ==
  ASSUME SyncOK, NetOK, NEW d \in Device, NEW m, ReceiveUploadAck(d, m),
         toDevice' = [toDevice EXCEPT ![d] = Tail(@)]
  PROVE  SyncOK' /\ OnlyConcerns(d)
<1>1. toServer' = toServer
  BY DEF ReceiveUploadAck
<1>2. \A e \in Device \ {d} : toDevice'[e] = toDevice[e]
  BY DEF NetOK
<1>3. CASE m.path \notin uploading[d]
  <2>1. UNCHANGED syncVars /\ failure' = [failure EXCEPT ![d] = "no upload state"]
    BY <1>3 DEF ReceiveUploadAck, Fail
  <2>. QED
    BY <1>1, <1>2, <2>1 DEF SyncOK, OnlyConcerns, Same, syncVars
<1>4. CASE m.path \in uploading[d]
  <2>1. /\ uploading' = [uploading EXCEPT ![d] = @ \ {m.path}] /\ TransferDone(d)
        /\ UNCHANGED <<downloading, failure>>
    BY <1>4 DEF ReceiveUploadAck
  <2>. QED
    BY <1>1, <1>2, <2>1, DoneConcerns DEF SyncOK, OnlyConcerns, Same
<1>. QED
  BY <1>3, <1>4

LEMMA DownloadConcerns ==
  ASSUME SyncOK, NetOK, NEW d \in Device, NEW m, ReceiveDownload(d, m),
         toDevice' = [toDevice EXCEPT ![d] = Tail(@)]
  PROVE  SyncOK' /\ OnlyConcerns(d)
<1>1. toServer' = toServer
  BY DEF ReceiveDownload
<1>2. \A e \in Device \ {d} : toDevice'[e] = toDevice[e]
  BY DEF NetOK
<1>3. CASE m.path \notin downloading[d]
  <2>1. UNCHANGED syncVars /\ failure' = [failure EXCEPT ![d] = "no download state"]
    BY <1>3 DEF ReceiveDownload, Fail
  <2>. QED
    BY <1>1, <1>2, <2>1 DEF SyncOK, OnlyConcerns, Same, syncVars
<1>4. CASE m.path \in downloading[d] /\ m.content = Empty
  <2>1. UNCHANGED syncVars /\ failure' = failure
    BY <1>4 DEF ReceiveDownload
  <2>. QED
    BY <1>1, <1>2, <2>1 DEF SyncOK, OnlyConcerns, Same, syncVars
<1>5. CASE m.path \in downloading[d] /\ m.content # Empty
  <2>1. /\ downloading' = [downloading EXCEPT ![d] = @ \ {m.path}] /\ TransferDone(d)
        /\ UNCHANGED <<uploading, failure>>
    BY <1>5 DEF ReceiveDownload
  <2>. QED
    BY <1>1, <1>2, <2>1, DoneConcerns DEF SyncOK, OnlyConcerns, Same
<1>. QED
  BY <1>3, <1>4, <1>5

LEMMA DeleteAnswerConcerns ==
  ASSUME SyncOK, NetOK, NEW d \in Device, NEW m, ReceiveDeleteAnswer(d, m),
         failure' = failure, toDevice' = [toDevice EXCEPT ![d] = Tail(@)]
  PROVE  SyncOK' /\ OnlyConcerns(d)
<1>1. /\ UNCHANGED <<toServer, outstandingTransfers, uploading, downloading, failure>>
      /\ pendingMessages' = [pendingMessages EXCEPT ![d] = @ - 1]
      /\ busy' = [busy EXCEPT ![d] = @ /\ ~(pendingMessages[d] - 1 = 0
                                            /\ outstandingTransfers[d] = 0)]
  BY DEF ReceiveDeleteAnswer, Unlock
<1>. QED
  BY <1>1 DEF SyncOK, NetOK, OnlyConcerns, Same

LEMMA DeviceConcerns ==
  ASSUME DevicesOK, SyncOK, NetOK, NEW d \in Device, DeviceReceive(d)
  PROVE  SyncOK' /\ OnlyConcerns(d)
<1>1. toDevice' = [toDevice EXCEPT ![d] = Tail(@)]
  BY DEF DeviceReceive, DeviceTakes
<1>2. PICK m : \/ ReceiveList(d, m) \/ ReceiveUploadSize(d, m) \/ ReceiveUploadAck(d, m)
               \/ ReceiveDownload(d, m)
               \/ ReceiveDeleteAnswer(d, m) /\ failure' = failure
  BY DEF DeviceReceive
<1>. QED
  BY <1>1, <1>2, ListConcerns, UploadSizeConcerns, UploadAckConcerns, DownloadConcerns,
     DeleteAnswerConcerns

(* A running device takes a message: it is at it, and in a round unless    *)
(* the message is the list.                                                *)
LEMMA TakesInRound ==
  ASSUME SyncOK, NetOK, NEW d \in Device, Accounted(d), Running(d),
         toDevice[d] # << >>, Head(toDevice[d]).type # "list"
  PROVE  /\ busy[d]
         /\ toServer[d] \in Seq(ServerMsg) /\ toDevice[d] \in Seq(DeviceMsg)
         /\ Round(toDevice[d], toServer[d], uploading[d], downloading[d],
                  pendingMessages[d], outstandingTransfers[d])
         /\ Fits(Head(toDevice[d]), uploading[d], downloading[d])
         /\ IsFiniteSet(uploading[d]) /\ IsFiniteSet(downloading[d])
<1>1. /\ toServer[d] \in Seq(ServerMsg) /\ toDevice[d] \in Seq(DeviceMsg)
      /\ uploading[d] \in SUBSET Path /\ downloading[d] \in SUBSET Path
  BY DEF NetOK, SyncOK
<1>2. ~Listing(d)
  <2>. SUFFICES ASSUME Listing(d) PROVE FALSE
    OBVIOUS
  <2>1. toDevice[d][1].type = "list"
    BY DEF Listing
  <2>. QED
    BY <1>1, <2>1
<1>3. Round(toServer[d], toDevice[d], uploading[d], downloading[d],
            pendingMessages[d], outstandingTransfers[d])
  BY <1>2 DEF Accounted, Working
<1>4. Round(toDevice[d], toServer[d], uploading[d], downloading[d],
            pendingMessages[d], outstandingTransfers[d])
  BY <1>1, <1>3, RoundTurns
<1>5. AllFit(toDevice[d], uploading[d], downloading[d])
  BY <1>3 DEF Round
<1>. QED
  BY <1>1, <1>4, <1>5, AllFitTail, BusyWithMessages, PathsFinite

(* What remains of a round is one, and the device unlocks itself if it     *)
(* counts nothing more.                                                    *)
LEMMA RoundRemains ==
  ASSUME SyncOK', NetOK', NEW d \in Device,
         Round(toDevice'[d], toServer'[d], uploading'[d], downloading'[d],
               pendingMessages'[d], outstandingTransfers'[d]),
         busy'[d] \/ (pendingMessages'[d] = 0 /\ outstandingTransfers'[d] = 0)
  PROVE  Accounted(d)'
<1>1. /\ toServer'[d] \in Seq(ServerMsg) /\ toDevice'[d] \in Seq(DeviceMsg)
  BY DEF NetOK
<1>2. Round(toServer'[d], toDevice'[d], uploading'[d], downloading'[d],
            pendingMessages'[d], outstandingTransfers'[d])
  BY <1>1, RoundTurns
<1>3. Working(d)'
  BY <1>2 DEF Working
<1>. QED
  BY <1>3, WorkingAccounts

(* The list opens the round.                                               *)
LEMMA ListAccounts ==
  ASSUME DevicesOK, SyncOK, NetOK, SyncOK', NetOK', NEW d \in Device,
         Accounted(d), Running(d), toDevice[d] # << >>,
         toDevice' = [toDevice EXCEPT ![d] = Tail(@)],
         NEW m, m = Head(toDevice[d]), ReceiveList(d, m), Once(d, m.entries)
  PROVE  Accounted(d)'
<1>. DEFINE requests == TransferRequests(d, m.entries)
            deletes  == DeleteRequests(d, m.entries)
            U == PathsOf(requests, "uploadRequest")
            W == PathsOf(requests, "downloadRequest")
<1>1. toDevice[d] \in Seq(DeviceMsg) /\ toServer[d] \in Seq(ServerMsg)
  BY DEF NetOK
<1>2. Listing(d)
  <2>. SUFFICES ASSUME Working(d) PROVE FALSE
    BY DEF Accounted
  <2>1. AllFit(toDevice[d], uploading[d], downloading[d])
    BY DEF Working, Round
  <2>2. Fits(m, uploading[d], downloading[d])
    BY <1>1, <2>1, AllFitTail
  <2>. QED
    BY <2>2 DEF ReceiveList, Fits, UploadTypes, DownloadTypes, DeleteTypes
<1>3. toServer[d] = << >> /\ Len(toDevice[d]) = 1
  BY <1>2 DEF Listing
<1>4. Tail(toDevice[d]) = << >>
  <2>1. Tail(toDevice[d]) \in Seq(DeviceMsg) /\ Len(Tail(toDevice[d])) = 0
    BY <1>1, <1>3
  <2>. QED
    BY <2>1, EmptySeq
<1>5. /\ Round(<< >> \o requests \o deletes, << >>, U, W, Len(deletes), Len(requests))
      /\ Len(deletes) \in Nat /\ Len(requests) \in Nat
  BY RoundStarts
<1>. HIDE DEF requests, deletes, U, W
<1>6. /\ outstandingTransfers'[d] = 0 + Len(requests)
      /\ pendingMessages'[d] = 0 + Len(deletes)
      /\ uploading'[d] = {} \cup U /\ downloading'[d] = {} \cup W
      /\ toServer'[d] = << >> \o requests \o deletes
      /\ toDevice'[d] = << >>
      /\ busy'[d] = (busy[d] /\ ~(pendingMessages'[d] = 0 /\ outstandingTransfers'[d] = 0))
      /\ busy[d]
  <2>1. /\ outstandingTransfers' = [outstandingTransfers EXCEPT
                                    ![d] = outstandingTransfers[d] + Len(requests)]
        /\ pendingMessages' = [pendingMessages EXCEPT ![d] = pendingMessages[d] + Len(deletes)]
        /\ uploading' = [uploading EXCEPT ![d] = @ \cup U]
        /\ downloading' = [downloading EXCEPT ![d] = @ \cup W]
        /\ toServer' = [toServer EXCEPT ![d] = @ \o requests \o deletes]
        /\ busy' = [busy EXCEPT ![d] = @ /\ ~(/\ pendingMessages[d] + Len(deletes) = 0
                                            /\ outstandingTransfers[d] + Len(requests) = 0)]
    BY DEF ReceiveList, CountedTransfers, Unlock, requests, deletes, U, W
  <2>2. /\ outstandingTransfers'[d] = 0 + Len(requests)
        /\ pendingMessages'[d] = 0 + Len(deletes)
        /\ uploading'[d] = {} \cup U /\ downloading'[d] = {} \cup W
    BY <1>2, <2>1 DEF Listing, SyncOK
  <2>3. toServer'[d] = << >> \o requests \o deletes /\ toDevice'[d] = << >>
    BY <1>3, <1>4, <2>1 DEF NetOK
  <2>4. /\ busy[d]
        /\ busy'[d] = (busy[d] /\ ~(pendingMessages'[d] = 0 /\ outstandingTransfers'[d] = 0))
    BY <1>2, <2>1 DEF Listing, SyncOK
  <2>. QED
    BY <2>2, <2>3, <2>4
<1>7. /\ outstandingTransfers'[d] = Len(requests) /\ pendingMessages'[d] = Len(deletes)
      /\ uploading'[d] = U /\ downloading'[d] = W
  BY <1>5, <1>6
<1>8. Working(d)'
  BY <1>5, <1>6, <1>7 DEF Working
<1>. QED
  BY <1>8, WorkingAccounts

(* The device sends the chunk, or stops on a file of no chunks.            *)
LEMMA UploadSizeAccounts ==
  ASSUME SyncOK, NetOK, SyncOK', NetOK', NEW d \in Device,
         Accounted(d), Running(d), toDevice[d] # << >>,
         toDevice' = [toDevice EXCEPT ![d] = Tail(@)],
         NEW m, m = Head(toDevice[d]), ReceiveUploadSize(d, m)
  PROVE  Accounted(d)'
<1>1. m.type = "uploadSize"
  BY DEF ReceiveUploadSize
<1>2. /\ busy[d]
      /\ toServer[d] \in Seq(ServerMsg) /\ toDevice[d] \in Seq(DeviceMsg)
      /\ Round(toDevice[d], toServer[d], uploading[d], downloading[d],
               pendingMessages[d], outstandingTransfers[d])
  BY <1>1, TakesInRound
<1>3. /\ busy'[d] /\ uploading'[d] = uploading[d] /\ downloading'[d] = downloading[d]
      /\ pendingMessages'[d] = pendingMessages[d]
      /\ outstandingTransfers'[d] = outstandingTransfers[d]
      /\ toDevice'[d] = Tail(toDevice[d])
  BY <1>2 DEF ReceiveUploadSize, syncVars, NetOK
<1>. DEFINE x == [type |-> "chunk", path |-> m.path,
                  content |-> IF Present(fs[d][m.path]) THEN fs[d][m.path].content
                              ELSE Empty]
<1>4. \/ \E what \in {"no upload state", "total chunks is zero"} :
           failure' = [failure EXCEPT ![d] = what]
      \/ toServer' = [toServer EXCEPT ![d] = Append(@, x)]
  BY DEF ReceiveUploadSize, Fail
<1>5. Answers(m, x)
  BY <1>1 DEF Answers, UploadTypes, DownloadTypes, DeleteTypes
<1>. HIDE DEF x
<1>6. CASE \E what \in {"no upload state", "total chunks is zero"} :
             failure' = [failure EXCEPT ![d] = what]
  <2>1. ~Running(d)'
    BY <1>6 DEF SyncOK, Running
  <2>. QED
    BY <1>3, <2>1 DEF Accounted
<1>7. CASE toServer' = [toServer EXCEPT ![d] = Append(@, x)]
  <2>1. toServer'[d] = Append(toServer[d], x)
    BY <1>7 DEF NetOK
  <2>2. Round(Tail(toDevice[d]), Append(toServer[d], x), uploading[d], downloading[d],
              pendingMessages[d], outstandingTransfers[d])
    BY <1>2, <1>5, RoundAnswers
  <2>. QED
    BY <1>3, <2>1, <2>2, RoundRemains
<1>. QED
  BY <1>4, <1>6, <1>7

LEMMA UploadAckAccounts ==
  ASSUME SyncOK, NetOK, SyncOK', NetOK', NEW d \in Device,
         Accounted(d), Running(d), toDevice[d] # << >>,
         toDevice' = [toDevice EXCEPT ![d] = Tail(@)],
         NEW m, m = Head(toDevice[d]), ReceiveUploadAck(d, m)
  PROVE  Accounted(d)'
<1>1. m.type = "uploadAck"
  BY DEF ReceiveUploadAck
<1>2. /\ busy[d]
      /\ toServer[d] \in Seq(ServerMsg) /\ toDevice[d] \in Seq(DeviceMsg)
      /\ Round(toDevice[d], toServer[d], uploading[d], downloading[d],
               pendingMessages[d], outstandingTransfers[d])
      /\ Fits(m, uploading[d], downloading[d])
      /\ IsFiniteSet(uploading[d]) /\ IsFiniteSet(downloading[d])
  BY <1>1, TakesInRound
<1>3. m.path \in uploading[d]
  BY <1>1, <1>2 DEF Fits, UploadTypes
<1>4. /\ uploading' = [uploading EXCEPT ![d] = @ \ {m.path}] /\ TransferDone(d)
      /\ UNCHANGED <<downloading, toServer>>
  BY <1>3 DEF ReceiveUploadAck
<1>5. /\ uploading'[d] = uploading[d] \ {m.path} /\ downloading'[d] = downloading[d]
      /\ toServer'[d] = toServer[d] /\ toDevice'[d] = Tail(toDevice[d])
  BY <1>4 DEF SyncOK, NetOK
<1>6. Round(Tail(toDevice[d]), toServer[d], uploading[d] \ {m.path}, downloading[d],
            pendingMessages[d], outstandingTransfers[d] - 1)
  BY <1>1, <1>2, RoundCloses DEF UploadTypes
<1>7. /\ pendingMessages' = pendingMessages
      /\ outstandingTransfers'[d] = outstandingTransfers[d] - 1
      /\ busy'[d] = (busy[d] /\ ~(pendingMessages[d] = 0 /\ outstandingTransfers[d] - 1 = 0))
  BY <1>4, DoneConcerns
<1>. QED
  BY <1>2, <1>5, <1>6, <1>7, RoundRemains

(* A file of no chunks leaves its transfer open.                           *)
LEMMA DownloadAccounts ==
  ASSUME SyncOK, NetOK, SyncOK', NetOK', NEW d \in Device,
         Accounted(d), Running(d), toDevice[d] # << >>,
         toDevice' = [toDevice EXCEPT ![d] = Tail(@)],
         NEW m, m = Head(toDevice[d]), ReceiveDownload(d, m)
  PROVE  Accounted(d)'
<1>1. m.type = "download" /\ m.type \notin DeleteTypes
  BY DEF ReceiveDownload, DeleteTypes
<1>2. /\ busy[d]
      /\ toServer[d] \in Seq(ServerMsg) /\ toDevice[d] \in Seq(DeviceMsg)
      /\ Round(toDevice[d], toServer[d], uploading[d], downloading[d],
               pendingMessages[d], outstandingTransfers[d])
      /\ Fits(m, uploading[d], downloading[d])
      /\ IsFiniteSet(uploading[d]) /\ IsFiniteSet(downloading[d])
  BY <1>1, TakesInRound
<1>3. m.path \in downloading[d]
  BY <1>1, <1>2 DEF Fits, DownloadTypes
<1>4. toServer'[d] = toServer[d] /\ toDevice'[d] = Tail(toDevice[d])
  BY DEF ReceiveDownload, NetOK
<1>5. CASE m.content = Empty
  <2>1. UNCHANGED syncVars
    BY <1>3, <1>5 DEF ReceiveDownload
  <2>2. Round(Tail(toDevice[d]), toServer[d], uploading[d], downloading[d],
              pendingMessages[d], outstandingTransfers[d])
    BY <1>1, <1>2, RoundDrops
  <2>. QED
    BY <1>2, <1>4, <2>1, <2>2, RoundRemains DEF syncVars
<1>6. CASE m.content # Empty
  <2>1. /\ downloading' = [downloading EXCEPT ![d] = @ \ {m.path}] /\ TransferDone(d)
        /\ uploading' = uploading
    BY <1>3, <1>6 DEF ReceiveDownload
  <2>2. downloading'[d] = downloading[d] \ {m.path} /\ uploading'[d] = uploading[d]
    BY <2>1 DEF SyncOK
  <2>3. Round(Tail(toDevice[d]), toServer[d], uploading[d], downloading[d] \ {m.path},
              pendingMessages[d], outstandingTransfers[d] - 1)
    BY <1>1, <1>2, RoundCloses DEF DownloadTypes
  <2>4. /\ pendingMessages' = pendingMessages
        /\ outstandingTransfers'[d] = outstandingTransfers[d] - 1
        /\ busy'[d] = (busy[d] /\ ~(pendingMessages[d] = 0
                                    /\ outstandingTransfers[d] - 1 = 0))
    BY <2>1, DoneConcerns
  <2>. QED
    BY <1>2, <1>4, <2>2, <2>3, <2>4, RoundRemains
<1>. QED
  BY <1>5, <1>6

LEMMA DeleteAnswerAccounts ==
  ASSUME SyncOK, NetOK, SyncOK', NetOK', NEW d \in Device,
         Accounted(d), Running(d), toDevice[d] # << >>,
         toDevice' = [toDevice EXCEPT ![d] = Tail(@)],
         NEW m, m = Head(toDevice[d]), ReceiveDeleteAnswer(d, m)
  PROVE  Accounted(d)'
<1>1. m.type = "deleteAnswer" /\ m.type \in DeleteTypes
  BY DEF ReceiveDeleteAnswer, DeleteTypes
<1>2. /\ busy[d]
      /\ toServer[d] \in Seq(ServerMsg) /\ toDevice[d] \in Seq(DeviceMsg)
      /\ Round(toDevice[d], toServer[d], uploading[d], downloading[d],
               pendingMessages[d], outstandingTransfers[d])
  BY <1>1, TakesInRound
<1>3. /\ UNCHANGED <<toServer, outstandingTransfers, uploading, downloading>>
      /\ pendingMessages' = [pendingMessages EXCEPT ![d] = @ - 1]
      /\ busy' = [busy EXCEPT ![d] = @ /\ ~(pendingMessages[d] - 1 = 0
                                            /\ outstandingTransfers[d] = 0)]
  BY DEF ReceiveDeleteAnswer, Unlock
<1>4. /\ toDevice'[d] = Tail(toDevice[d]) /\ pendingMessages'[d] = pendingMessages[d] - 1
      /\ busy'[d] = (busy[d] /\ ~(pendingMessages[d] - 1 = 0 /\ outstandingTransfers[d] = 0))
  BY <1>3 DEF SyncOK, NetOK
<1>5. Round(Tail(toDevice[d]), toServer[d], uploading[d], downloading[d],
            pendingMessages[d] - 1, outstandingTransfers[d])
  BY <1>1, <1>2, RoundCounts
<1>. QED
  BY <1>2, <1>3, <1>4, <1>5, RoundRemains

LEMMA DeviceAccounts ==
  ASSUME DevicesOK, SyncOK, NetOK, SyncOK', NetOK', NEW d \in Device,
         Accounted(d), DeviceReceive(d),
         Head(toDevice[d]).type = "list" => Once(d, Head(toDevice[d]).entries)
  PROVE  Accounted(d)'
<1>1. Running(d) /\ toDevice[d] # << >> /\ toDevice' = [toDevice EXCEPT ![d] = Tail(@)]
  BY DEF DeviceReceive, DeviceTakes
<1>2. PICK m : /\ m = Head(toDevice[d])
               /\ \/ ReceiveList(d, m) \/ ReceiveUploadSize(d, m) \/ ReceiveUploadAck(d, m)
                  \/ ReceiveDownload(d, m) \/ ReceiveDeleteAnswer(d, m)
  BY DEF DeviceReceive
<1>3. ReceiveList(d, m) => Once(d, m.entries)
  BY <1>2 DEF ReceiveList
<1>. QED
  BY <1>1, <1>2, <1>3, ListAccounts, UploadSizeAccounts, UploadAckAccounts, DownloadAccounts,
     DeleteAnswerAccounts

-----------------------------------------------------------------------------
(* Programs that stop and start                                            *)

LEMMA StopAccounts ==
  ASSUME AInv, NEW d \in Device, StopDevice(d)
  PROVE  AInv'
<1>1. /\ UNCHANGED <<busy, pendingMessages, outstandingTransfers, uploading, downloading,
                     toServer, toDevice>>
      /\ failure' = [failure EXCEPT ![d] = "stopped"]
  BY DEF StopDevice, Fail, syncVars, netVars
<1>2. SyncOK' /\ \A e \in Device \ {d} : Same(e)
  BY <1>1 DEF AInv, SyncOK, Same
<1>3. Accounted(d) => Accounted(d)'
  <2>1. ~Running(d)'
    BY <1>1 DEF AInv, SyncOK, Running
  <2>2. (busy[d] \/ Drained(d)) => (busy[d] \/ Drained(d))'
    BY <1>1 DEF Drained
  <2>. QED
    BY <2>1, <2>2 DEF Accounted
<1>4. \A e \in Device \ NaiveDevice : Accounted(e)'
  <2>. SUFFICES ASSUME NEW e \in Device \ NaiveDevice PROVE Accounted(e)'
    OBVIOUS
  <2>1. CASE e = d
    BY <1>3, <2>1 DEF AInv
  <2>2. CASE e # d
    BY <1>2, <2>2, SameAccounts DEF AInv
  <2>. QED
    BY <2>1, <2>2
<1>. QED
  BY <1>2, <1>4 DEF AInv

LEMMA RoundOfNothing == Round(<< >>, << >>, {}, {}, 0, 0)
<1>1. OfTypes(<< >>, DeleteTypes) = {} /\ Apart(<< >>, << >>) /\ AllFit(<< >>, {}, {})
  BY DEF OfTypes, Apart, AllFit
<1>2. Cardinality(OfTypes(<< >>, DeleteTypes)) = 0 /\ Cardinality({}) = 0
  BY <1>1, FS_EmptySet, Zenon
<1>. QED
  BY <1>1, <1>2 DEF Round

LEMMA StartAccounts ==
  ASSUME AInv, NetOK, NEW d \in Device, StartDevice(d)
  PROVE  AInv'
<1>1. /\ busy' = [busy EXCEPT ![d] = FALSE]
      /\ pendingMessages' = [pendingMessages EXCEPT ![d] = 0]
      /\ outstandingTransfers' = [outstandingTransfers EXCEPT ![d] = 0]
      /\ uploading' = [uploading EXCEPT ![d] = {}]
      /\ downloading' = [downloading EXCEPT ![d] = {}]
      /\ toServer' = [toServer EXCEPT ![d] = << >>]
      /\ toDevice' = [toDevice EXCEPT ![d] = << >>]
      /\ failure' = [failure EXCEPT ![d] = "none"]
  BY DEF StartDevice, Fail
<1>2. SyncOK' /\ \A e \in Device \ {d} : Same(e)
  BY <1>1 DEF AInv, SyncOK, NetOK, Same
<1>3. Accounted(d)'
  <2>1. /\ toServer'[d] = << >> /\ toDevice'[d] = << >>
        /\ uploading'[d] = {} /\ downloading'[d] = {}
        /\ pendingMessages'[d] = 0 /\ outstandingTransfers'[d] = 0
    BY <1>1 DEF AInv, SyncOK, NetOK
  <2>. QED
    BY <2>1, RoundOfNothing DEF Accounted, Working, Drained
<1>4. \A e \in Device \ NaiveDevice : Accounted(e)'
  <2>. SUFFICES ASSUME NEW e \in Device \ NaiveDevice, e # d PROVE Accounted(e)'
    BY <1>3
  <2>. QED
    BY <1>2, SameAccounts DEF AInv
<1>. QED
  BY <1>2, <1>4 DEF AInv

(* Nobody is connected to a server that was started again.                 *)
LEMMA RestartAccounts ==
  ASSUME AInv, RestartServer
  PROVE  AInv'
<1>1. /\ UNCHANGED <<busy, pendingMessages, outstandingTransfers, uploading, downloading>>
      /\ toServer' = [d \in Device |-> << >>] /\ toDevice' = [d \in Device |-> << >>]
      /\ failure' = [n \in DOMAIN failure |->
                       IF n # Server /\ Running(n) THEN "disconnected" ELSE failure[n]]
  BY DEF RestartServer, syncVars
<1>2. SyncOK'
  BY <1>1 DEF AInv, SyncOK
<1>3. ASSUME NEW d \in Device \ NaiveDevice
      PROVE  Accounted(d)'
  <2>1. ~Running(d)'
    BY <1>1, ServerAssumption DEF AInv, SyncOK, Running
  <2>2. busy[d] \/ Drained(d)
    BY DEF AInv, Accounted
  <2>3. (busy[d] \/ Drained(d))'
    BY <1>1, <2>2 DEF Drained
  <2>. QED
    BY <2>1, <2>3 DEF Accounted
<1>. QED
  BY <1>2, <1>3 DEF AInv

-----------------------------------------------------------------------------
LEMMA InitAccounts == Init => AInv
<1> SUFFICES ASSUME Init PROVE AInv
  OBVIOUS
<1>1. SyncOK
  BY DEF Init, SyncOK
<1>2. ASSUME NEW d \in Device
      PROVE  Accounted(d)
  <2>1. /\ toServer[d] = << >> /\ toDevice[d] = << >>
        /\ uploading[d] = {} /\ downloading[d] = {}
        /\ pendingMessages[d] = 0 /\ outstandingTransfers[d] = 0
    BY DEF Init
  <2>. QED
    BY <2>1, RoundOfNothing DEF Accounted, Working, Drained
<1>. QED
  BY <1>1, <1>2 DEF AInv

LEMMA IdleAccounts ==
  ASSUME AInv, UNCHANGED <<syncVars, netVars, failure>>
  PROVE  AInv'
<1>1. \A d \in Device : Same(d)
  BY DEF Same, syncVars, netVars
<1>2. SyncOK'
  BY DEF AInv, SyncOK, syncVars
<1>. QED
  BY <1>1, <1>2, SameAccounts DEF AInv

(* A step of one device, or of the server for it.                          *)
LEMMA OneDeviceAccounts ==
  ASSUME AInv, NEW d \in Device, SyncOK', OnlyConcerns(d),
         d \notin NaiveDevice => Accounted(d)'
  PROVE  AInv'
<1>1. ASSUME NEW e \in Device \ NaiveDevice
      PROVE  Accounted(e)'
  <2>1. CASE e = d
    BY <2>1
  <2>2. CASE e # d
    BY <2>2, SameAccounts DEF AInv, OnlyConcerns
  <2>. QED
    BY <2>1, <2>2
<1>. QED
  BY <1>1 DEF AInv

LEMMA NextAccounts ==
  ASSUME IInv, IInv', AInv, Next
  PROVE  AInv'
<1>1. DevicesOK /\ NetOK /\ NetOK' /\ SyncOK
  BY DEF IInv, AInv
<1>2. CASE \E d \in Device, p \in Path : Write(d, p) \/ Delete(d, p)
  BY <1>2, IdleAccounts DEF Write, Delete
<1>3. CASE \E d \in Device : Tick(d)
  BY <1>1, <1>3, TickConcerns, TickAccounts, OneDeviceAccounts DEF AInv
<1>4. CASE \E d \in Device : DeviceReceive(d)
  BY <1>1, <1>4, DeviceConcerns, DeviceAccounts, MerkleOnce, OneDeviceAccounts DEF AInv
<1>5. CASE \E d \in Device : ServerReceive(d)
  BY <1>1, <1>5, ServerConcerns, ServerAccounts, OneDeviceAccounts DEF AInv
<1>6. CASE \E d \in Device : StopDevice(d) \/ StartDevice(d)
  BY <1>1, <1>6, StopAccounts, StartAccounts
<1>7. CASE RestartServer
  BY <1>7, RestartAccounts
<1>. QED
  BY <1>2, <1>3, <1>4, <1>5, <1>6, <1>7 DEF Next

(* Every Merkle device is accounted for in every state.                    *)
THEOREM Accounts == Spec => []AInv
<1>1. IInv /\ IInv' /\ AInv /\ [Next]_vars => AInv'
  <2> SUFFICES ASSUME IInv, IInv', AInv, [Next]_vars PROVE AInv'
    OBVIOUS
  <2>1. CASE Next
    BY <2>1, NextAccounts
  <2>2. CASE UNCHANGED vars
    BY <2>2, IdleAccounts DEF vars
  <2>. QED
    BY <2>1, <2>2
<1>2. QED
  BY InitAccounts, Invariance, <1>1, PTL DEF Spec

(* AccountsMatch for one device, whether or not the server still runs.     *)
AccountsOf(d) ==
  Running(d) =>
    /\ pendingMessages[d] = InFlight(d, {"deleteRequest", "deleteAnswer"})
    /\ outstandingTransfers[d] = Cardinality(uploading[d]) + Cardinality(downloading[d])

LEMMA AccountedMatches ==
  ASSUME NetOK, NEW d \in Device, Accounted(d)
  PROVE  AccountsOf(d)
<1>. SUFFICES ASSUME Running(d)
              PROVE  /\ pendingMessages[d] = InFlight(d, {"deleteRequest", "deleteAnswer"})
                     /\ outstandingTransfers[d]
                          = Cardinality(uploading[d]) + Cardinality(downloading[d])
  BY DEF AccountsOf
<1>1. InFlight(d, {"deleteRequest", "deleteAnswer"})
        = Cardinality(OfTypes(toServer[d], DeleteTypes))
            + Cardinality(OfTypes(toDevice[d], DeleteTypes))
  BY DEF InFlight, NumberOf, OfTypes, DeleteTypes
<1>2. CASE Working(d)
  BY <1>1, <1>2 DEF Working, Round
<1>3. CASE Listing(d)
  <2>1. /\ \A i \in DOMAIN toServer[d] : toServer[d][i].type \notin DeleteTypes
        /\ \A i \in DOMAIN toDevice[d] : toDevice[d][i].type \notin DeleteTypes
    <3>1. toServer[d] \in Seq(ServerMsg) /\ toDevice[d] \in Seq(DeviceMsg)
      BY DEF NetOK
    <3>. QED
      BY <1>3, <3>1 DEF Listing, DeleteTypes
  <2>2. OfTypes(toServer[d], DeleteTypes) = {} /\ OfTypes(toDevice[d], DeleteTypes) = {}
    BY <2>1 DEF OfTypes
  <2>3. /\ Cardinality(OfTypes(toServer[d], DeleteTypes)) = 0
        /\ Cardinality(OfTypes(toDevice[d], DeleteTypes)) = 0
        /\ Cardinality(uploading[d]) = 0 /\ Cardinality(downloading[d]) = 0
    BY <1>3, <2>2, FS_EmptySet, Zenon DEF Listing
  <2>. QED
    BY <1>1, <1>3, <2>3 DEF Listing
<1>. QED
  BY <1>2, <1>3 DEF Accounted

(* What a running Merkle device waits for is what is under way: its count  *)
(* of delete requests is the number of them and of their answers on its    *)
(* connection, and its count of transfers the number its chunking client   *)
(* has open, even after an assertion stopped the server (FileClient.cpp    *)
(* handleNegotiationCompleted, checkSyncCompletionAndUnlock).              *)
THEOREM MerkleAccounts == Spec => [](\A d \in Device \ NaiveDevice : AccountsOf(d))
<1>1. IInv /\ AInv => \A d \in Device \ NaiveDevice : AccountsOf(d)
  BY AccountedMatches DEF IInv, AInv
<1>2. QED
  BY Invariance, Accounts, <1>1, PTL

(* The same as the runs check it, of devices that are all Merkle devices.  *)
THEOREM AccountsCorrect ==
  ASSUME NaiveDevice = {}
  PROVE  Spec => []AccountsMatch
<1>1. IInv /\ AInv => AccountsMatch
  BY AccountedMatches DEF IInv, AInv, AccountsMatch, AccountsOf
<1>2. QED
  BY Invariance, Accounts, <1>1, PTL

(* A device that has unlocked itself, running or not, has nothing on its   *)
(* connection and no transfer open: its next tick meets no answer of an    *)
(* earlier one (FileClient.cpp clientTick).                                *)
THEOREM IdleDevices ==
  ASSUME NaiveDevice = {}
  PROVE  Spec => []IdleMeansDrained
<1>1. AInv => IdleMeansDrained
  BY DEF AInv, Accounted, Drained, IdleMeansDrained
<1>2. QED
  BY Accounts, <1>1, PTL

-----------------------------------------------------------------------------
(* Types                                                                   *)
(*                                                                         *)
(* No time is later than the clock and no hash is of a version nobody has  *)
(* written: what holds of the state at a time t follows every time and     *)
(* hash through the messages.  A device never has an empty file, which it  *)
(* could send or delete, but it reads a vanished one as empty.             *)

FileAt(t)     == {NoFile} \cup [content : Version, mtime : -1..t]
EntryAt(t)    == [mtime : -1..t, hash : -1..MaxEdits, tomb : -1..t]
MetaAt(t)     == [mtime : -1..t, hash : -1..MaxEdits]

UploadAt(t)   == [type : {"uploadRequest"}, path : Path, size : {0, 1},
                  mtime : -1..t, hash : -1..MaxEdits]
TransferAt(t) == UploadAt(t) \cup DownloadMsg
DeleteAt(t)   == [type : {"deleteRequest"}, path : Path, time : -1..t]
ContentChunk  == [type : {"chunk"}, path : Path, content : Content]
ServerMsgAt(t) == ListRequest \cup TransferAt(t) \cup ContentChunk \cup DeleteAt(t)

ListAt(t)     == [type : {"list"}, entries : [Path -> EntryAt(t)]]
DownloadAt(t) == [type : {"download"}, path : Path, mtime : -1..t, hash : -1..MaxEdits,
                  content : Content]
DeviceMsgAt(t) == ListAt(t) \cup SizeMsg \cup AckMsg \cup DownloadAt(t) \cup DeleteAnswerMsg

DevicesAt(t) ==
  /\ edits \in 0..MaxEdits /\ deleted \subseteq Version
  /\ fs \in [Device -> [Path -> FileAt(t)]]
  /\ db \in [Device -> [Path -> EntryAt(t)]]

ServerAt(t) ==
  /\ store \in [Path -> Content \cup {Gone}]
  /\ index \in [Path -> EntryAt(t)]
  /\ saving \subseteq Path
  /\ uploadMeta \in [Device -> [Path -> MetaAt(t)]]

NetAt(t) ==
  /\ toServer \in [Device -> Seq(ServerMsgAt(t))]
  /\ toDevice \in [Device -> Seq(DeviceMsgAt(t))]

StateAt(t) == DevicesAt(t) /\ ServerAt(t) /\ NetAt(t)

BInv == now \in Nat /\ StateAt(now)

-----------------------------------------------------------------------------
(* What holds at a time holds later.                                       *)
LEMMA DataLater ==
  ASSUME NEW t \in Nat, NEW u \in Nat, t <= u
  PROVE  /\ FileAt(t) \subseteq FileAt(u) /\ EntryAt(t) \subseteq EntryAt(u)
         /\ MetaAt(t) \subseteq MetaAt(u)
         /\ ServerMsgAt(t) \subseteq ServerMsgAt(u)
         /\ DeviceMsgAt(t) \subseteq DeviceMsgAt(u)
<1>1. -1..t \subseteq -1..u
  OBVIOUS
<1>2. FileAt(t) \subseteq FileAt(u) /\ MetaAt(t) \subseteq MetaAt(u)
  BY <1>1 DEF FileAt, MetaAt
<1>3. EntryAt(t) \subseteq EntryAt(u)
  BY <1>1 DEF EntryAt
<1>4. UploadAt(t) \subseteq UploadAt(u) /\ DeleteAt(t) \subseteq DeleteAt(u)
  BY <1>1 DEF UploadAt, DeleteAt
<1>5. ServerMsgAt(t) \subseteq ServerMsgAt(u)
  BY <1>4 DEF ServerMsgAt, TransferAt
<1>6. ListAt(t) \subseteq ListAt(u)
  BY <1>3 DEF ListAt
<1>7. DownloadAt(t) \subseteq DownloadAt(u)
  BY <1>1 DEF DownloadAt
<1>8. DeviceMsgAt(t) \subseteq DeviceMsgAt(u)
  BY <1>6, <1>7 DEF DeviceMsgAt
<1>. QED
  BY <1>2, <1>3, <1>5, <1>8

LEMMA StateLater ==
  ASSUME NEW t \in Nat, NEW u \in Nat, t <= u, StateAt(t)
  PROVE  StateAt(u)
<1>1. DevicesAt(u)
  BY DataLater DEF StateAt, DevicesAt
<1>2. ServerAt(u)
  BY DataLater DEF StateAt, ServerAt
<1>3. NetAt(u)
  <2>1. Seq(ServerMsgAt(t)) \subseteq Seq(ServerMsgAt(u))
    BY DataLater
  <2>2. Seq(DeviceMsgAt(t)) \subseteq Seq(DeviceMsgAt(u))
    BY DataLater
  <2>. QED
    BY <2>1, <2>2 DEF StateAt, NetAt
<1>. QED
  BY <1>1, <1>2, <1>3 DEF StateAt

(* A message's type says which record it is.                               *)
LEMMA DeviceMsgAtOf ==
  ASSUME NEW t, NEW m \in DeviceMsgAt(t)
  PROVE  /\ m.type = "list" => m \in ListAt(t)
         /\ m.type = "uploadSize" => m \in SizeMsg
         /\ m.type = "uploadAck" => m \in AckMsg
         /\ m.type = "download" => m \in DownloadAt(t)
         /\ m.type = "deleteAnswer" => m \in DeleteAnswerMsg
         /\ m.type \in ToDeviceType
BY DEF DeviceMsgAt, ListAt, SizeMsg, AckMsg, DownloadAt, DeleteAnswerMsg, ToDeviceType

LEMMA ServerMsgAtOf ==
  ASSUME NEW t, NEW m \in ServerMsgAt(t)
  PROVE  /\ m.type = "uploadRequest" => m \in UploadAt(t)
         /\ m.type = "chunk" => m \in ContentChunk
         /\ m.type = "downloadRequest" => m \in DownloadMsg
         /\ m.type = "deleteRequest" => m \in DeleteAt(t)
         /\ m.type \in ToServerType
BY DEF ServerMsgAt, TransferAt, ListRequest, UploadAt, ContentChunk, DownloadMsg, DeleteAt,
       ToServerType

-----------------------------------------------------------------------------
(* The requests of a round carry what the database has.                    *)
LEMMA RequestsAt ==
  ASSUME NEW t \in Nat, DevicesAt(t), NEW d \in Device, NEW entries
  PROVE  /\ TransferRequests(d, entries) \in Seq(TransferAt(t))
         /\ DeleteRequests(d, entries) \in Seq(DeleteAt(t))
<1>1. ASSUME NEW p \in Path
      PROVE  UploadRequest(d, p) \in TransferAt(t)
  <2>1. db[d][p] \in EntryAt(t)
    BY DEF DevicesAt
  <2>. QED
    BY <2>1 DEF UploadRequest, TransferAt, UploadAt, FileSize, EntryAt
<1>2. ASSUME NEW bucket
      PROVE  Uploads(d, entries, bucket) \in Seq(TransferAt(t))
  <2>1. InBucket(d, entries, bucket) \in Seq(Path \X {1, 2})
    BY InBucketPaths
  <2>2. \A i \in 1..Len(InBucket(d, entries, bucket)) :
           UploadRequest(d, InBucket(d, entries, bucket)[i][1]) \in TransferAt(t)
    BY <1>1, <2>1
  <2>. QED
    BY <2>1, <2>2 DEF Uploads
<1>3. ASSUME NEW bucket
      PROVE  Downloads(d, entries, bucket) \in Seq(TransferAt(t))
  <2>1. InBucket(d, entries, bucket) \in Seq(Path \X {1, 2})
    BY InBucketPaths
  <2>2. \A i \in 1..Len(InBucket(d, entries, bucket)) :
           DownloadRequest(InBucket(d, entries, bucket)[i][1]) \in TransferAt(t)
    BY <2>1 DEF DownloadRequest, TransferAt, DownloadMsg
  <2>. QED
    BY <2>1, <2>2 DEF Downloads
<1>4. TransferRequests(d, entries) \in Seq(TransferAt(t))
  BY <1>2, <1>3 DEF TransferRequests
<1>5. DeleteRequests(d, entries) \in Seq(DeleteAt(t))
  <2>. DEFINE S == {p \in Path : Buckets(d, entries)[p] = "DeletionWinsLeft"}
  <2>1. IsFiniteSet(S)
    BY PathAssumption, FS_Subset
  <2>2. SetToSeq(S) \in Seq(S)
    BY <2>1, SetToSeqRange
  <2>3. \A i \in 1..Len(SetToSeq(S)) : DeleteRequest(d, SetToSeq(S)[i]) \in DeleteAt(t)
    <3>1. ASSUME NEW p \in Path
          PROVE  DeleteRequest(d, p) \in DeleteAt(t)
      BY DEF DevicesAt, EntryAt, DeleteRequest, DeleteAt
    <3>. QED
      BY <2>2, <3>1
  <2>. QED
    BY <2>2, <2>3 DEF DeleteRequests
<1>. QED
  BY <1>4, <1>5

-----------------------------------------------------------------------------
(* A version that is written is a new one; one that is deleted was one.    *)
LEMMA WriteAt ==
  ASSUME NEW t \in Nat, now \in Nat, now' = t, StateAt(t),
         NEW d \in Device, NEW p \in Path, Write(d, p)
  PROVE  StateAt(t)'
<1>1. /\ fs' = [fs EXCEPT ![d][p] = [content |-> edits + 1, mtime |-> now + 1]]
      /\ edits' = edits + 1 /\ edits < MaxEdits /\ t = now + 1
      /\ UNCHANGED <<deleted, db, store, index, saving, uploadMeta, toServer, toDevice>>
  BY DEF Write, MayEdit, serverVars, netVars
<1>2. edits \in 0..MaxEdits
  BY DEF StateAt, DevicesAt
<1>3. edits' \in 0..MaxEdits /\ edits + 1 \in Version /\ now + 1 \in -1..t
  BY <1>1, <1>2, BoundsAssumption DEF Version
<1>4. [content |-> edits + 1, mtime |-> now + 1] \in FileAt(t)
  BY <1>3 DEF FileAt
<1>5. DevicesAt(t)'
  BY <1>1, <1>3, <1>4 DEF StateAt, DevicesAt
<1>. QED
  BY <1>1, <1>5 DEF StateAt, ServerAt, NetAt

LEMMA DeletionAt ==
  ASSUME NEW t \in Nat, now \in Nat, now' = t, StateAt(t),
         NEW d \in Device, NEW p \in Path, Delete(d, p)
  PROVE  StateAt(t)'
<1>1. /\ fs' = [fs EXCEPT ![d][p] = NoFile] /\ fs[d][p] # NoFile
      /\ deleted' = deleted \cup {fs[d][p].content}
      /\ edits' = edits + 1 /\ edits < MaxEdits
      /\ UNCHANGED <<db, store, index, saving, uploadMeta, toServer, toDevice>>
  BY DEF Delete, MayEdit, serverVars, netVars
<1>2. edits' \in 0..MaxEdits
  BY <1>1, BoundsAssumption DEF StateAt, DevicesAt
<1>3. fs[d][p].content \in Version
  BY <1>1 DEF StateAt, DevicesAt, FileAt
<1>4. deleted' \subseteq Version
  BY <1>1, <1>3 DEF StateAt, DevicesAt
<1>5. fs' \in [Device -> [Path -> FileAt(t)]]
  BY <1>1 DEF StateAt, DevicesAt, FileAt
<1>6. DevicesAt(t)'
  BY <1>1, <1>2, <1>4, <1>5 DEF StateAt, DevicesAt
<1>. QED
  BY <1>1, <1>6 DEF StateAt, ServerAt, NetAt

(* The scan records times of files, old tombstones, and the present.       *)
LEMMA ScannedEntriesAt ==
  ASSUME NEW t \in Nat, now \in Nat, now' = t, DevicesAt(t), NEW d \in Device,
         ScanAndApply(d)
  PROVE  Scanned(d) \in [Path -> EntryAt(t)]
<1>1. ASSUME NEW p \in Path
      PROVE  fs[d][p] \in FileAt(t) /\ db[d][p] \in EntryAt(t)
  BY DEF DevicesAt
<1>2. ASSUME NEW p \in Path, Present(fs[d][p])
      PROVE  RecordFile(db[d][p], fs[d][p].mtime, fs[d][p].content) \in EntryAt(t)
  <2>1. fs[d][p].mtime \in -1..t /\ fs[d][p].content \in 1..MaxEdits
    BY <1>1, <1>2 DEF FileAt, Present, Version
  <2>2. fs[d][p].content \in -1..MaxEdits
    BY <2>1, BoundsAssumption
  <2>. QED
    BY <1>1, <2>1, <2>2 DEF RecordFile, EntryAt
<1>3. ASSUME NEW p \in Path, NEW x \in -1..t
      PROVE  RecordDeletion(db[d][p], x) \in EntryAt(t)
  BY <1>3, BoundsAssumption DEF RecordDeletion, EntryAt, NoHash, NoTime
<1>4. ASSUME NEW p \in Path, p \in MissingOnDisk(d)
      PROVE  (IF db[d][p].tomb # NoTime THEN db[d][p].tomb ELSE now + 1) \in -1..t
  <2>1. CASE db[d][p].tomb # NoTime
    BY <1>1, <2>1 DEF EntryAt
  <2>2. CASE db[d][p].tomb = NoTime
    <3>1. t = now + 1
      BY <1>4, <2>2 DEF ScanAndApply
    <3>. QED
      BY <2>2, <3>1
  <2>. QED
    BY <2>1, <2>2
<1>5. ASSUME NEW p \in Path, p \in MissingOnDisk(d)
      PROVE  RecordDeletion(db[d][p], IF db[d][p].tomb # NoTime THEN db[d][p].tomb
                                      ELSE now + 1) \in EntryAt(t)
  BY <1>3, <1>4, <1>5
<1>. QED
  BY <1>1, <1>2, <1>5 DEF Scanned

LEMMA TickAt ==
  ASSUME NEW t \in Nat, now \in Nat, now' = t, StateAt(t), NEW d \in Device, Tick(d)
  PROVE  StateAt(t)'
<1>1. /\ db' = [db EXCEPT ![d] = Scanned(d)]
      /\ toServer' = [toServer EXCEPT ![d] = Append(@, [type |-> "listRequest"])]
      /\ UNCHANGED <<edits, deleted, fs, store, index, saving, uploadMeta, toDevice>>
  BY DEF Tick, ScanAndApply, serverVars
<1>2. Scanned(d) \in [Path -> EntryAt(t)]
  BY ScannedEntriesAt DEF StateAt, Tick
<1>3. [type |-> "listRequest"] \in ServerMsgAt(t)
  BY DEF ServerMsgAt, ListRequest
<1>4. DevicesAt(t)'
  BY <1>1, <1>2 DEF StateAt, DevicesAt
<1>5. NetAt(t)'
  BY <1>1, <1>3, Sending DEF StateAt, NetAt
<1>. QED
  BY <1>1, <1>4, <1>5 DEF StateAt, ServerAt

-----------------------------------------------------------------------------
(* The answers a device takes.                                             *)
DeviceKeepsAt(t) == DevicesAt(t)' /\ toServer' \in [Device -> Seq(ServerMsgAt(t))]

LEMMA ReceiveListAt ==
  ASSUME NEW t \in Nat, StateAt(t), NEW d \in Device, NEW m \in DeviceMsgAt(t),
         ReceiveList(d, m)
  PROVE  DeviceKeepsAt(t)
<1>1. m.entries \in [Path -> EntryAt(t)]
  BY DeviceMsgAtOf DEF ReceiveList, ListAt
<1>2. DevicesAt(t)'
  <2>. DEFINE gone == DeletedHere(d, m.entries)
  <2>1. ASSUME NEW p \in Path
        PROVE  RecordDeletion(db[d][p], m.entries[p].tomb) \in EntryAt(t)
    BY <1>1, BoundsAssumption DEF RecordDeletion, EntryAt, NoTime, NoHash
  <2>2. [p \in Path |-> IF p \in gone THEN RecordDeletion(db[d][p], m.entries[p].tomb)
                        ELSE db[d][p]] \in [Path -> EntryAt(t)]
    BY <2>1 DEF StateAt, DevicesAt
  <2>3. [p \in Path |-> IF p \in gone THEN NoFile ELSE fs[d][p]] \in [Path -> FileAt(t)]
    BY DEF StateAt, DevicesAt, FileAt
  <2>. QED
    BY <2>2, <2>3 DEF StateAt, DevicesAt, ReceiveList, userVars
<1>3. toServer' \in [Device -> Seq(ServerMsgAt(t))]
  <2>. DEFINE a == TransferRequests(d, m.entries)
              b == DeleteRequests(d, m.entries)
              sent == toServer[d] \o a \o b
  <2>1. a \in Seq(ServerMsgAt(t)) /\ b \in Seq(ServerMsgAt(t))
    <3>1. a \in Seq(TransferAt(t)) /\ b \in Seq(DeleteAt(t))
      BY RequestsAt DEF StateAt
    <3>2. TransferAt(t) \subseteq ServerMsgAt(t) /\ DeleteAt(t) \subseteq ServerMsgAt(t)
      BY DEF ServerMsgAt
    <3>. HIDE DEF a, b
    <3>. QED
      BY <3>1, <3>2
  <2>2. toServer' = [toServer EXCEPT ![d] = sent]
    BY DEF ReceiveList
  <2>. HIDE DEF a, b
  <2>3. sent \in Seq(ServerMsgAt(t))
    BY <2>1 DEF StateAt, NetAt
  <2>. QED
    BY <2>2, <2>3 DEF StateAt, NetAt
<1>. QED
  BY <1>2, <1>3 DEF DeviceKeepsAt

LEMMA ReceiveUploadSizeAt ==
  ASSUME NEW t \in Nat, StateAt(t), NEW d \in Device, NEW m \in DeviceMsgAt(t),
         ReceiveUploadSize(d, m)
  PROVE  DeviceKeepsAt(t)
<1>. DEFINE content == IF Present(fs[d][m.path]) THEN fs[d][m.path].content ELSE Empty
            chunk == [type |-> "chunk", path |-> m.path, content |-> content]
<1>1. m.path \in Path
  <2>1. m \in SizeMsg
    BY DeviceMsgAtOf DEF ReceiveUploadSize
  <2>. QED
    BY <2>1 DEF SizeMsg
<1>2. content \in Content
  BY <1>1 DEF StateAt, DevicesAt, FileAt, Present, Content
<1>. HIDE DEF content
<1>3. chunk \in ServerMsgAt(t)
  BY <1>1, <1>2 DEF ServerMsgAt, ContentChunk
<1>4. /\ UNCHANGED <<edits, deleted, fs, db>>
      /\ \/ toServer' = toServer
         \/ toServer' = [toServer EXCEPT ![d] = Append(@, chunk)]
  BY DEF ReceiveUploadSize, userVars, content
<1>. HIDE DEF chunk
<1>5. toServer' \in [Device -> Seq(ServerMsgAt(t))]
  <2>1. toServer \in [Device -> Seq(ServerMsgAt(t))]
    BY DEF StateAt, NetAt
  <2>2. [toServer EXCEPT ![d] = Append(@, chunk)] \in [Device -> Seq(ServerMsgAt(t))]
    BY <1>3, <2>1, Sending
  <2>. QED
    BY <1>4, <2>1, <2>2
<1>. QED
  BY <1>4, <1>5 DEF StateAt, DevicesAt, DeviceKeepsAt

(* A file that is committed has a version, for an empty one never is.      *)
LEMMA ReceiveDownloadAt ==
  ASSUME NEW t \in Nat, now \in Nat, now' = t, StateAt(t), NEW d \in Device,
         NEW m \in DeviceMsgAt(t), ReceiveDownload(d, m)
  PROVE  DeviceKeepsAt(t)
<1>1. m \in DownloadAt(t)
  BY DeviceMsgAtOf DEF ReceiveDownload
<1>2. UNCHANGED <<edits, deleted, toServer>>
  BY DEF ReceiveDownload
<1>3. CASE UNCHANGED <<fs, db>>
  BY <1>2, <1>3 DEF StateAt, DevicesAt, NetAt, DeviceKeepsAt
<1>4. CASE /\ now' = now + 1 /\ m.content # Empty
           /\ fs' = [fs EXCEPT ![d][m.path] = [content |-> m.content, mtime |-> now + 1]]
           /\ db' = [db EXCEPT ![d][m.path] = RecordFile(@, m.mtime, m.hash)]
  <2>1. m.path \in Path /\ m.content \in Version /\ now + 1 \in -1..t
    BY <1>1, <1>4 DEF DownloadAt, Content
  <2>2. [content |-> m.content, mtime |-> now + 1] \in FileAt(t)
    BY <2>1 DEF FileAt
  <2>3. RecordFile(db[d][m.path], m.mtime, m.hash) \in EntryAt(t)
    <3>1. db[d][m.path] \in EntryAt(t)
      BY <2>1 DEF StateAt, DevicesAt
    <3>. QED
      BY <1>1, <3>1 DEF EntryAt, DownloadAt, RecordFile
  <2>4. fs' \in [Device -> [Path -> FileAt(t)]]
    BY <1>4, <2>1, <2>2 DEF StateAt, DevicesAt
  <2>5. db' \in [Device -> [Path -> EntryAt(t)]]
    BY <1>4, <2>1, <2>3 DEF StateAt, DevicesAt
  <2>. QED
    BY <1>2, <2>4, <2>5 DEF StateAt, DevicesAt, NetAt, DeviceKeepsAt
<1>. QED
  BY <1>3, <1>4 DEF ReceiveDownload

LEMMA ReceiveDeleteAnswerAt ==
  ASSUME NEW t \in Nat, StateAt(t), NEW d \in Device, NEW m \in DeviceMsgAt(t),
         ReceiveDeleteAnswer(d, m)
  PROVE  DeviceKeepsAt(t)
<1>1. RecordDeletion(db[d][m.path], 0) \in EntryAt(t)
  BY BoundsAssumption DEF RecordDeletion, EntryAt, NoTime, NoHash
<1>2. /\ UNCHANGED <<edits, deleted, fs, toServer>>
      /\ \/ db' = db
         \/ db' = [db EXCEPT ![d][m.path] = RecordDeletion(@, 0)]
  BY DEF ReceiveDeleteAnswer, userVars
<1>3. db' \in [Device -> [Path -> EntryAt(t)]]
  <2>1. PICK e \in EntryAt(t), p \in {m.path} : db' = db \/ db' = [db EXCEPT ![d][p] = e]
    BY <1>1, <1>2
  <2>2. db \in [Device -> [Path -> EntryAt(t)]]
    BY DEF StateAt, DevicesAt
  <2>. QED
    BY <2>1, <2>2
<1>. QED
  BY <1>2, <1>3 DEF StateAt, DevicesAt, NetAt, DeviceKeepsAt

LEMMA DeviceAt ==
  ASSUME NEW t \in Nat, now \in Nat, now' = t, StateAt(t), NEW d \in Device,
         DeviceReceive(d)
  PROVE  StateAt(t)'
<1>. DEFINE m == Head(toDevice[d])
<1>1. /\ m \in DeviceMsgAt(t) /\ toDevice' \in [Device -> Seq(DeviceMsgAt(t))]
  BY HeadTailProperties DEF StateAt, NetAt, DeviceReceive, DeviceTakes
<1>2. ReceiveUploadAck(d, m) => DeviceKeepsAt(t)
  BY DEF StateAt, ReceiveUploadAck, DevicesAt, NetAt, userVars, DeviceKeepsAt
<1>3. DeviceKeepsAt(t)
  BY <1>1, <1>2, ReceiveListAt, ReceiveUploadSizeAt, ReceiveDownloadAt,
     ReceiveDeleteAnswerAt DEF DeviceReceive
<1>4. ServerAt(t)'
  BY DEF StateAt, ServerAt, DeviceReceive, serverVars
<1>. QED
  BY <1>1, <1>3, <1>4 DEF StateAt, NetAt, DeviceKeepsAt

-----------------------------------------------------------------------------
(* The requests the server takes.                                          *)
ServerKeepsAt(t) == ServerAt(t)' /\ toDevice' \in [Device -> Seq(DeviceMsgAt(t))]

LEMMA AnswerAt ==
  ASSUME NEW t \in Nat, StateAt(t), NEW d \in Device, NEW x \in DeviceMsgAt(t), Answer(d, x)
  PROVE  toDevice' \in [Device -> Seq(DeviceMsgAt(t))]
BY Sending DEF StateAt, NetAt, Answer

LEMMA ServeListAt ==
  ASSUME NEW t \in Nat, StateAt(t), NEW d \in Device, NEW m \in ServerMsgAt(t),
         ServeList(d, m)
  PROVE  ServerKeepsAt(t)
<1>1. [type |-> "list", entries |-> index] \in DeviceMsgAt(t)
  BY DEF StateAt, ServerAt, DeviceMsgAt, ListAt
<1>2. Answer(d, [type |-> "list", entries |-> index])
      /\ UNCHANGED <<store, index, saving, uploadMeta>>
  BY DEF ServeList, serverVars
<1>. QED
  BY <1>1, <1>2, AnswerAt DEF StateAt, ServerAt, ServerKeepsAt

LEMMA ServeUploadRequestAt ==
  ASSUME NEW t \in Nat, StateAt(t), NEW d \in Device, NEW m \in ServerMsgAt(t),
         ServeUploadRequest(d, m)
  PROVE  ServerKeepsAt(t)
<1>1. m \in UploadAt(t)
  BY ServerMsgAtOf DEF ServeUploadRequest
<1>2. [mtime |-> m.mtime, hash |-> m.hash] \in MetaAt(t) /\ m.path \in Path
  BY <1>1 DEF UploadAt, MetaAt
<1>3. [type |-> "uploadSize", path |-> m.path, chunks |-> m.size] \in DeviceMsgAt(t)
  BY <1>1 DEF UploadAt, DeviceMsgAt, SizeMsg
<1>4. toDevice' \in [Device -> Seq(DeviceMsgAt(t))]
  BY <1>3, AnswerAt DEF ServeUploadRequest
<1>5. ServerAt(t)'
  BY <1>2 DEF ServeUploadRequest, StateAt, ServerAt
<1>. QED
  BY <1>4, <1>5 DEF ServerKeepsAt

LEMMA ServeChunkAt ==
  ASSUME NEW t \in Nat, StateAt(t), NEW d \in Device, NEW m \in ServerMsgAt(t),
         ServeChunk(d, m)
  PROVE  ServerKeepsAt(t)
<1>1. m \in ContentChunk
  BY ServerMsgAtOf DEF ServeChunk
<1>2. m.path \in Path /\ m.content \in Content
  BY <1>1 DEF ContentChunk
<1>3. CASE uploadMeta[d][m.path] = NoMeta \/ m.path \notin saving
  BY <1>3 DEF ServeChunk, StateAt, ServerAt, NetAt, serverVars, ServerKeepsAt
<1>4. CASE uploadMeta[d][m.path] # NoMeta /\ m.path \in saving
  <2>. DEFINE meta == uploadMeta[d][m.path]
              e    == RecordFile(index[m.path], meta.mtime, meta.hash)
  <2>1. /\ store' = [store EXCEPT ![m.path] = m.content]
        /\ index' = [index EXCEPT ![m.path] = e]
        /\ saving' = saving \ {m.path}
        /\ uploadMeta' = [uploadMeta EXCEPT ![d][m.path] = NoMeta]
        /\ Answer(d, [type |-> "uploadAck", path |-> m.path])
    BY <1>4 DEF ServeChunk
  <2>2. e \in EntryAt(t)
    <3>1. meta \in MetaAt(t) /\ index[m.path] \in EntryAt(t)
      BY <1>2 DEF StateAt, ServerAt
    <3>. HIDE DEF meta
    <3>. QED
      BY <3>1 DEF MetaAt, EntryAt, RecordFile
  <2>3. NoMeta \in MetaAt(t)
    BY BoundsAssumption DEF NoMeta, MetaAt, NoTime, NoHash
  <2>. HIDE DEF e
  <2>4. store' \in [Path -> Content \cup {Gone}] /\ index' \in [Path -> EntryAt(t)]
    BY <1>2, <2>1, <2>2 DEF StateAt, ServerAt
  <2>5. saving' \subseteq Path /\ uploadMeta' \in [Device -> [Path -> MetaAt(t)]]
    BY <2>1, <2>3 DEF StateAt, ServerAt
  <2>6. [type |-> "uploadAck", path |-> m.path] \in DeviceMsgAt(t)
    BY <1>2 DEF DeviceMsgAt, AckMsg
  <2>7. toDevice' \in [Device -> Seq(DeviceMsgAt(t))]
    BY <2>1, <2>6, AnswerAt
  <2>. QED
    BY <2>4, <2>5, <2>7 DEF ServerAt, ServerKeepsAt
<1>. QED
  BY <1>3, <1>4

LEMMA ServeDownloadRequestAt ==
  ASSUME NEW t \in Nat, StateAt(t), NEW d \in Device, NEW m \in ServerMsgAt(t),
         ServeDownloadRequest(d, m)
  PROVE  ServerKeepsAt(t)
<1>. DEFINE answer == [type |-> "download", path |-> m.path, mtime |-> index[m.path].mtime,
                       hash |-> index[m.path].hash, content |-> store[m.path]]
<1>1. m \in DownloadMsg
  BY ServerMsgAtOf DEF ServeDownloadRequest
<1>2. m.path \in Path /\ index[m.path] \in EntryAt(t)
      /\ store[m.path] \in Content \cup {Gone}
  BY <1>1 DEF DownloadMsg, StateAt, ServerAt
<1>3. ASSUME store[m.path] # Gone
      PROVE  answer \in DeviceMsgAt(t)
  BY <1>2, <1>3 DEF EntryAt, DeviceMsgAt, DownloadAt
<1>4. /\ UNCHANGED <<store, index, saving, uploadMeta>>
      /\ \/ toDevice' = toDevice
         \/ store[m.path] # Gone /\ Answer(d, answer)
  BY DEF ServeDownloadRequest, serverVars
<1>. HIDE DEF answer
<1>5. toDevice' \in [Device -> Seq(DeviceMsgAt(t))]
  BY <1>3, <1>4, AnswerAt DEF StateAt, NetAt
<1>. QED
  BY <1>4, <1>5 DEF StateAt, ServerAt, ServerKeepsAt

LEMMA ServeDeleteAt ==
  ASSUME NEW t \in Nat, StateAt(t), NEW d \in Device, NEW m \in ServerMsgAt(t),
         ServeDelete(d, m)
  PROVE  ServerKeepsAt(t)
<1>1. m \in DeleteAt(t)
  BY ServerMsgAtOf DEF ServeDelete
<1>2. PICK done \in BOOLEAN :
        Answer(d, [type |-> "deleteAnswer", path |-> m.path, done |-> done])
  BY DEF ServeDelete
<1>3. [type |-> "deleteAnswer", path |-> m.path, done |-> done] \in DeviceMsgAt(t)
  BY <1>1 DEF DeleteAt, DeviceMsgAt, DeleteAnswerMsg
<1>4. toDevice' \in [Device -> Seq(DeviceMsgAt(t))]
  BY <1>2, <1>3, AnswerAt
<1>5. RecordDeletion(index[m.path], m.time) \in EntryAt(t)
  BY <1>1, BoundsAssumption DEF DeleteAt, RecordDeletion, EntryAt, NoTime, NoHash
<1>6. UNCHANGED <<saving, uploadMeta>>
      /\ (UNCHANGED <<store, index>> \/ RemoveFile(m.path, m.time))
  BY DEF ServeDelete
<1>7. store' \in [Path -> Content \cup {Gone}] /\ index' \in [Path -> EntryAt(t)]
  <2>1. CASE UNCHANGED <<store, index>>
    BY <2>1 DEF StateAt, ServerAt
  <2>2. CASE RemoveFile(m.path, m.time)
    <3>1. /\ store' = [store EXCEPT ![m.path] = Gone]
          /\ index' = [index EXCEPT ![m.path] = RecordDeletion(index[m.path], m.time)]
      BY <2>2 DEF RemoveFile
    <3>. QED
      BY <1>5, <3>1 DEF StateAt, ServerAt
  <2>. QED
    BY <1>6, <2>1, <2>2
<1>. QED
  BY <1>4, <1>6, <1>7 DEF StateAt, ServerAt, ServerKeepsAt

LEMMA ServeFailedDeleteAt ==
  ASSUME NEW t \in Nat, StateAt(t), NEW d \in Device, NEW m \in ServerMsgAt(t),
         ServeFailedDelete(d, m)
  PROVE  ServerKeepsAt(t)
<1>. DEFINE x == [type |-> "deleteAnswer", path |-> m.path, done |-> FALSE]
<1>1. m \in DeleteAt(t)
  BY ServerMsgAtOf DEF ServeFailedDelete
<1>2. x \in DeviceMsgAt(t)
  BY <1>1 DEF DeleteAt, DeviceMsgAt, DeleteAnswerMsg
<1>3. UNCHANGED <<store, index, saving, uploadMeta>> /\ Answer(d, x)
  BY DEF ServeFailedDelete, serverVars
<1>. HIDE DEF x
<1>4. toDevice' \in [Device -> Seq(DeviceMsgAt(t))]
  BY <1>2, <1>3, AnswerAt
<1>. QED
  BY <1>3, <1>4 DEF StateAt, ServerAt, ServerKeepsAt

LEMMA ServerReceivesAt ==
  ASSUME NEW t \in Nat, StateAt(t), NEW d \in Device, ServerReceive(d)
  PROVE  StateAt(t)'
<1>. DEFINE m == Head(toServer[d])
<1>1. m \in ServerMsgAt(t) /\ toServer' \in [Device -> Seq(ServerMsgAt(t))]
  BY HeadTailProperties DEF StateAt, NetAt, ServerReceive, ServerTakes
<1>2. DevicesAt(t)'
  BY DEF StateAt, DevicesAt, ServerReceive, userVars
<1>3. ServerKeepsAt(t)
  BY <1>1, ServeListAt, ServeUploadRequestAt, ServeChunkAt, ServeDownloadRequestAt,
     ServeDeleteAt, ServeFailedDeleteAt DEF ServerReceive
<1>. QED
  BY <1>1, <1>2, <1>3 DEF StateAt, NetAt, ServerKeepsAt

-----------------------------------------------------------------------------
(* Programs that stop and start; the state at a time is lost or kept.      *)
LEMMA NothingAt ==
  ASSUME NEW t \in Nat
  PROVE  /\ NoFile \in FileAt(t) /\ Untracked \in EntryAt(t) /\ NoMeta \in MetaAt(t)
         /\ << >> \in Seq(ServerMsgAt(t)) /\ << >> \in Seq(DeviceMsgAt(t))
BY BoundsAssumption DEF FileAt, Untracked, EntryAt, NoMeta, MetaAt, NoTime, NoHash

LEMMA StopsAndStartsAt ==
  ASSUME NEW t \in Nat, StateAt(t), NEW d \in Device,
         StopDevice(d) \/ StartDevice(d)
  PROVE  StateAt(t)'
<1>1. CASE StopDevice(d)
  BY <1>1 DEF StopDevice, StateAt, DevicesAt, ServerAt, NetAt, userVars, serverVars, netVars
<1>2. CASE StartDevice(d)
  <2>1. DevicesAt(t)'
    BY <1>2, NothingAt DEF StartDevice, StateAt, DevicesAt, userVars
  <2>2. ServerAt(t)'
    BY <1>2, NothingAt DEF StartDevice, StateAt, ServerAt
  <2>3. NetAt(t)'
    BY <1>2 DEF StartDevice, StateAt, NetAt
  <2>. QED
    BY <2>1, <2>2, <2>3 DEF StateAt
<1>. QED
  BY <1>1, <1>2

LEMMA RestartAt ==
  ASSUME NEW t \in Nat, StateAt(t), RestartServer
  PROVE  StateAt(t)'
<1>1. DevicesAt(t)'
  BY DEF RestartServer, StateAt, DevicesAt, userVars
<1>2. ServerAt(t)'
  BY NothingAt DEF RestartServer, StateAt, ServerAt
<1>3. NetAt(t)'
  BY DEF RestartServer, StateAt, NetAt
<1>. QED
  BY <1>1, <1>2, <1>3 DEF StateAt

(* The clock only moves forward.                                           *)
LEMMA ClockAdvances ==
  ASSUME now \in Nat, [Next]_vars
  PROVE  now' \in Nat /\ now <= now'
<1>1. now' = now \/ now' = now + 1
  <2>1. CASE UNCHANGED vars
    BY <2>1 DEF vars, userVars
  <2>2. CASE \E d \in Device, p \in Path : Write(d, p) \/ Delete(d, p)
    BY <2>2 DEF Write, Delete
  <2>3. CASE \E d \in Device : Tick(d)
    BY <2>3 DEF Tick, ScanAndApply
  <2>4. CASE \E d \in Device : DeviceReceive(d)
    <3>1. PICK d, m : \/ ReceiveList(d, m) \/ ReceiveUploadSize(d, m)
                      \/ ReceiveUploadAck(d, m) \/ ReceiveDownload(d, m)
                      \/ ReceiveDeleteAnswer(d, m)
      BY <2>4 DEF DeviceReceive
    <3>. QED
      BY <3>1 DEF ReceiveList, ReceiveUploadSize, ReceiveUploadAck, ReceiveDownload,
                  ReceiveDeleteAnswer, userVars
  <2>5. CASE \E d \in Device : ServerReceive(d) \/ StopDevice(d) \/ StartDevice(d)
    BY <2>5 DEF ServerReceive, StopDevice, StartDevice, userVars
  <2>6. CASE RestartServer
    BY <2>6 DEF RestartServer, userVars
  <2>. QED
    BY <2>1, <2>2, <2>3, <2>4, <2>5, <2>6 DEF Next
<1>. QED
  BY <1>1

LEMMA NextBounds ==
  ASSUME BInv, [Next]_vars
  PROVE  BInv'
<1>1. now \in Nat /\ now' \in Nat /\ now <= now'
  BY ClockAdvances DEF BInv
<1>2. PICK t \in Nat : now' = t
  BY <1>1
<1>3. StateAt(t)
  BY <1>1, <1>2, StateLater DEF BInv
<1>4. StateAt(t)'
  <2>1. CASE UNCHANGED vars
    BY <1>3, <2>1 DEF vars, userVars, serverVars, netVars, StateAt, DevicesAt, ServerAt, NetAt
  <2>2. CASE \E d \in Device, p \in Path : Write(d, p) \/ Delete(d, p)
    BY <1>1, <1>2, <1>3, <2>2, WriteAt, DeletionAt
  <2>3. CASE \E d \in Device : Tick(d)
    BY <1>1, <1>2, <1>3, <2>3, TickAt
  <2>4. CASE \E d \in Device : DeviceReceive(d)
    BY <1>1, <1>2, <1>3, <2>4, DeviceAt
  <2>5. CASE \E d \in Device : ServerReceive(d)
    BY <1>3, <2>5, ServerReceivesAt
  <2>6. CASE \E d \in Device : StopDevice(d) \/ StartDevice(d)
    BY <1>3, <2>6, StopsAndStartsAt
  <2>7. CASE RestartServer
    BY <1>3, <2>7, RestartAt
  <2>. QED
    BY <2>1, <2>2, <2>3, <2>4, <2>5, <2>6, <2>7 DEF Next
<1>5. now' = t
  BY <1>2
<1>. QED
  BY <1>1, <1>4, <1>5 DEF BInv, StateAt, DevicesAt, ServerAt, NetAt

LEMMA InitBounds == Init => BInv
<1>. SUFFICES ASSUME Init PROVE BInv
  OBVIOUS
<1>1. now = 0 /\ 0 \in Nat
  BY DEF Init
<1>2. DevicesAt(0)
  BY NothingAt, BoundsAssumption DEF Init, DevicesAt
<1>3. ServerAt(0)
  BY NothingAt DEF Init, ServerAt
<1>4. NetAt(0)
  BY NothingAt DEF Init, NetAt
<1>. QED
  BY <1>1, <1>2, <1>3, <1>4 DEF BInv, StateAt

(* Every time and every hash, in a variable or in a message, is one there  *)
(* has been.                                                               *)
THEOREM Bounds == Spec => []BInv
<1>1. BInv /\ [Next]_vars => BInv'
  BY NextBounds
<1>2. QED
  BY InitBounds, <1>1, PTL DEF Spec

-----------------------------------------------------------------------------
(* The counters                                                            *)
(*                                                                         *)
(* Of a naive device the accounts do not match, and of one that does not   *)
(* run any more nothing was said.  But no counter of any device is ever    *)
(* less than the number of messages on its connection that can still       *)
(* decrease it, so that none becomes negative: a counter would be decreased *)
(* once too often only by an answer nobody has counted the request of.     *)

TransferTypes == UploadTypes \cup DownloadTypes

Under(q, r, types) ==
  Cardinality(OfTypes(q, types)) + Cardinality(OfTypes(r, types))

Covers(q, r, deletes, transfers) ==
  /\ deletes >= Under(q, r, DeleteTypes)
  /\ transfers >= Under(q, r, TransferTypes)

Covered(d) == Covers(toServer[d], toDevice[d], pendingMessages[d], outstandingTransfers[d])

CInv == \A d \in Device : Covered(d)

One(m, types) == IF m.type \in types THEN 1 ELSE 0

LEMMA UnderSwaps ==
  ASSUME NEW S, NEW q \in Seq(S), NEW T, NEW r \in Seq(T), NEW types
  PROVE  Under(q, r, types) \in Nat /\ Under(q, r, types) = Under(r, q, types)
BY OfTypesFinite DEF Under

(* A message that is taken is one less under way.                          *)
LEMMA UnderTake ==
  ASSUME NEW S, NEW q \in Seq(S), q # << >>, NEW T, NEW r \in Seq(T), NEW types
  PROVE  /\ Tail(q) \in Seq(S)
         /\ Under(q, r, types) = Under(Tail(q), r, types) + One(Head(q), types)
<1>1. Tail(q) \in Seq(S)
  OBVIOUS
<1>2. /\ Cardinality(OfTypes(q, types)) \in Nat /\ Cardinality(OfTypes(r, types)) \in Nat
      /\ Cardinality(OfTypes(Tail(q), types)) \in Nat
  BY <1>1, OfTypesFinite
<1>3. Cardinality(OfTypes(q, types))
        = Cardinality(OfTypes(Tail(q), types)) + One(Head(q), types)
  BY TakeCounts DEF One
<1>. QED
  BY <1>1, <1>2, <1>3 DEF Under, One

LEMMA UnderSend ==
  ASSUME NEW S, NEW q \in Seq(S), NEW T, NEW r \in Seq(T), NEW x \in T, NEW types
  PROVE  Under(q, Append(r, x), types) = Under(q, r, types) + One(x, types)
<1>1. /\ Cardinality(OfTypes(q, types)) \in Nat /\ Cardinality(OfTypes(r, types)) \in Nat
  BY OfTypesFinite
<1>2. Cardinality(OfTypes(Append(r, x), types)) = Cardinality(OfTypes(r, types)) + One(x, types)
  BY SendCounts DEF One
<1>. QED
  BY <1>1, <1>2 DEF Under, One

(* A message is taken and, unless the taker stops on it, answered by one   *)
(* of its kind, or with what a counter is decreased for.                   *)
LEMMA CoversTake ==
  ASSUME NEW S, NEW q \in Seq(S), q # << >>, NEW T, NEW r \in Seq(T),
         NEW deletes \in Int, NEW transfers \in Int, Covers(q, r, deletes, transfers)
  PROVE  /\ Covers(Tail(q), r, deletes, transfers)
         /\ Covers(Tail(q), r, deletes - One(Head(q), DeleteTypes),
                   transfers - One(Head(q), TransferTypes))
         /\ \A x \in T : /\ x.type \in DeleteTypes => Head(q).type \in DeleteTypes
                         /\ x.type \in TransferTypes => Head(q).type \in TransferTypes
              => Covers(Tail(q), Append(r, x), deletes, transfers)
<1>1. ASSUME NEW types
      PROVE  /\ Under(q, r, types) \in Nat /\ Under(Tail(q), r, types) \in Nat
             /\ Under(q, r, types) = Under(Tail(q), r, types) + One(Head(q), types)
             /\ One(Head(q), types) \in {0, 1}
             /\ \A x \in T :
                  /\ One(x, types) \in {0, 1}
                  /\ Under(Tail(q), Append(r, x), types)
                       = Under(Tail(q), r, types) + One(x, types)
                  /\ (x.type \in types => Head(q).type \in types)
                       => One(x, types) <= One(Head(q), types)
  <2>1. /\ Under(q, r, types) \in Nat /\ Tail(q) \in Seq(S)
        /\ Under(q, r, types) = Under(Tail(q), r, types) + One(Head(q), types)
    BY UnderTake, UnderSwaps
  <2>2. Under(Tail(q), r, types) \in Nat
    BY <2>1, UnderSwaps
  <2>3. \A m : One(m, types) \in {0, 1} /\ One(m, types) = IF m.type \in types THEN 1 ELSE 0
    BY DEF One
  <2>4. \A x \in T : Under(Tail(q), Append(r, x), types)
                       = Under(Tail(q), r, types) + One(x, types)
    <3>1. PICK u \in Seq(S) : u = Tail(q)
      BY <2>1
    <3>2. \A x \in T : Under(u, Append(r, x), types) = Under(u, r, types) + One(x, types)
      BY UnderSend
    <3>. QED
      BY <3>1, <3>2, Zenon
  <2>5. \A x \in T : (x.type \in types => Head(q).type \in types)
                       => One(x, types) <= One(Head(q), types)
    BY <2>3
  <2>. QED
    BY <2>1, <2>2, <2>3, <2>4, <2>5
<1>2. Covers(Tail(q), r, deletes, transfers)
  BY <1>1 DEF Covers
<1>3. Covers(Tail(q), r, deletes - One(Head(q), DeleteTypes),
             transfers - One(Head(q), TransferTypes))
  BY <1>1 DEF Covers
<1>4. ASSUME NEW x \in T, x.type \in DeleteTypes => Head(q).type \in DeleteTypes,
             x.type \in TransferTypes => Head(q).type \in TransferTypes
      PROVE  Covers(Tail(q), Append(r, x), deletes, transfers)
  BY <1>1, <1>4 DEF Covers
<1>. QED
  BY <1>2, <1>3, <1>4

LEMMA CoversSwaps ==
  ASSUME NEW S, NEW q \in Seq(S), NEW T, NEW r \in Seq(T), NEW deletes, NEW transfers
  PROVE  Covers(q, r, deletes, transfers) <=> Covers(r, q, deletes, transfers)
BY UnderSwaps DEF Covers

(* A round's requests are counted as they are sent.                        *)
LEMMA CoversList ==
  ASSUME NEW S, NEW q \in Seq(S), NEW T, NEW r \in Seq(T),
         NEW deletes \in Int, NEW transfers \in Int, Covers(q, r, deletes, transfers),
         NEW A \in SUBSET S, NEW a \in Seq(A), NEW B \in SUBSET S, NEW b \in Seq(B),
         \A x \in A : x.type \notin DeleteTypes, \A x \in B : x.type \notin TransferTypes
  PROVE  Covers(q \o a \o b, r, deletes + Len(b), transfers + Len(a))
<1>1. a \in Seq(S) /\ b \in Seq(S) /\ q \o a \in Seq(S) /\ Len(a) \in Nat /\ Len(b) \in Nat
  OBVIOUS
<1>2. ASSUME NEW types
      PROVE  /\ Under(q \o a \o b, r, types)
                  = Under(q, r, types) + Cardinality(OfTypes(a, types))
                      + Cardinality(OfTypes(b, types))
             /\ Under(q, r, types) \in Nat
             /\ Cardinality(OfTypes(a, types)) \in Nat /\ Cardinality(OfTypes(b, types)) \in Nat
  <2>1. Cardinality(OfTypes(q \o a, types))
          = Cardinality(OfTypes(q, types)) + Cardinality(OfTypes(a, types))
    BY <1>1, JoinCounts
  <2>2. Cardinality(OfTypes((q \o a) \o b, types))
          = Cardinality(OfTypes(q \o a, types)) + Cardinality(OfTypes(b, types))
    BY <1>1, JoinCounts
  <2>3. /\ Cardinality(OfTypes(q, types)) \in Nat /\ Cardinality(OfTypes(r, types)) \in Nat
        /\ Cardinality(OfTypes(a, types)) \in Nat /\ Cardinality(OfTypes(b, types)) \in Nat
    BY <1>1, OfTypesFinite
  <2>4. /\ Under(q, r, types) = Cardinality(OfTypes(q, types)) + Cardinality(OfTypes(r, types))
        /\ Under(q \o a \o b, r, types)
             = Cardinality(OfTypes((q \o a) \o b, types)) + Cardinality(OfTypes(r, types))
    BY Zenon DEF Under
  <2>. QED
    BY <2>1, <2>2, <2>3, <2>4
<1>3. Cardinality(OfTypes(a, DeleteTypes)) = 0 /\ Cardinality(OfTypes(b, DeleteTypes)) <= Len(b)
  BY CountsAtMost
<1>4. /\ Cardinality(OfTypes(b, TransferTypes)) = 0
      /\ Cardinality(OfTypes(a, TransferTypes)) <= Len(a)
  BY CountsAtMost
<1>. DEFINE s == q \o a \o b
<1>5. PICK u \in Nat, x \in Nat, y \in Nat, n \in Nat :
        /\ u = Under(q, r, DeleteTypes) /\ x = Cardinality(OfTypes(a, DeleteTypes))
        /\ y = Cardinality(OfTypes(b, DeleteTypes)) /\ n = Len(b)
  BY <1>1, <1>2, Zenon
<1>6. Under(s, r, DeleteTypes) = u + x + y /\ x = 0 /\ y <= n /\ deletes >= u
  BY <1>2, <1>3, <1>5, Zenon DEF Covers
<1>7. PICK v \in Nat, f \in Nat, g \in Nat, k \in Nat :
        /\ v = Under(q, r, TransferTypes) /\ f = Cardinality(OfTypes(a, TransferTypes))
        /\ g = Cardinality(OfTypes(b, TransferTypes)) /\ k = Len(a)
  BY <1>1, <1>2, Zenon
<1>8. Under(s, r, TransferTypes) = v + f + g /\ g = 0 /\ f <= k /\ transfers >= v
  BY <1>2, <1>4, <1>7, Zenon DEF Covers
<1>. HIDE DEF s
<1>9. deletes + n >= Under(s, r, DeleteTypes) /\ transfers + k >= Under(s, r, TransferTypes)
  BY <1>6, <1>8
<1>. QED
  BY <1>5, <1>7, <1>9, Zenon DEF Covers, s

-----------------------------------------------------------------------------
(* The steps of the counters                                               *)

LEMMA SameCovered ==
  ASSUME NEW d \in Device, Covered(d), Same(d)
  PROVE  Covered(d)'
BY DEF Covered, Same

LEMMA TickCovers ==
  ASSUME SyncOK, NetOK, NEW d \in Device, Covered(d), Tick(d)
  PROVE  Covered(d)'
<1>. DEFINE x == [type |-> "listRequest"]
<1>1. /\ toServer'[d] = Append(toServer[d], x) /\ toDevice'[d] = toDevice[d]
      /\ pendingMessages'[d] = pendingMessages[d]
      /\ outstandingTransfers'[d] = outstandingTransfers[d]
  BY DEF SyncOK, NetOK, Tick
<1>2. /\ toServer[d] \in Seq(ServerMsg) /\ toDevice[d] \in Seq(DeviceMsg) /\ x \in ServerMsg
  BY DEF NetOK, ServerMsg, ListRequest
<1>3. One(x, DeleteTypes) = 0 /\ One(x, TransferTypes) = 0
  BY DEF One, DeleteTypes, TransferTypes, UploadTypes, DownloadTypes
<1>. HIDE DEF x
<1>4. Append(toServer[d], x) \in Seq(ServerMsg)
  BY <1>2
<1>5. ASSUME NEW types, One(x, types) = 0
      PROVE  Under(Append(toServer[d], x), toDevice[d], types)
               = Under(toServer[d], toDevice[d], types)
  <2>1. Under(toDevice[d], Append(toServer[d], x), types)
          = Under(toDevice[d], toServer[d], types) + 0
    BY <1>2, <1>5, UnderSend
  <2>2. /\ Under(toDevice[d], toServer[d], types) \in Nat
        /\ Under(toServer[d], toDevice[d], types) = Under(toDevice[d], toServer[d], types)
    BY <1>2, UnderSwaps
  <2>3. PICK r \in Seq(ServerMsg) : r = Append(toServer[d], x)
    BY <1>4
  <2>4. Under(r, toDevice[d], types) = Under(toDevice[d], r, types)
    BY <1>2, UnderSwaps
  <2>. QED
    BY <2>1, <2>2, <2>3, <2>4
<1>. QED
  BY <1>1, <1>3, <1>5 DEF Covered, Covers

(* What the server answers with is of the kind of what it takes.           *)
LEMMA ServerAnswersInKind ==
  ASSUME NetOK, NetOK', NEW d \in Device, ServerReceive(d)
  PROVE  \/ toDevice'[d] = toDevice[d]
         \/ \E x \in DeviceMsg :
              /\ toDevice'[d] = Append(toDevice[d], x)
              /\ \A types \in {DeleteTypes, TransferTypes} :
                   x.type \in types => Head(toServer[d]).type \in types
<1>1. ASSUME NEW x, toDevice'[d] = Append(toDevice[d], x)
      PROVE  x \in DeviceMsg
  <2>1. toDevice[d] \in Seq(DeviceMsg) /\ toDevice'[d] \in Seq(DeviceMsg)
    BY DEF NetOK
  <2>2. toDevice'[d][Len(toDevice[d]) + 1] = x /\ Len(toDevice[d]) + 1 \in DOMAIN toDevice'[d]
    BY <1>1, <2>1
  <2>. QED
    BY <2>1, <2>2
<1>2. CASE Head(toServer[d]).type = "listRequest"
  <2>. DEFINE x == [type |-> "list", entries |-> index]
  <2>1. ServeList(d, Head(toServer[d]))
    BY <1>2 DEF ServerReceive, ServeUploadRequest, ServeChunk, ServeDownloadRequest, ServeDelete,
                ServeFailedDelete
  <2>2. toDevice'[d] = Append(toDevice[d], x)
    BY <2>1 DEF ServeList, Answer, NetOK
  <2>3. x.type \notin DeleteTypes /\ x.type \notin TransferTypes
    BY DEF DeleteTypes, TransferTypes, UploadTypes, DownloadTypes
  <2>. HIDE DEF x
  <2>. QED
    BY <1>1, <2>2, <2>3
<1>3. CASE Head(toServer[d]).type # "listRequest"
  <2>1. \/ toDevice'[d] = toDevice[d]
        \/ \E x : Answers(Head(toServer[d]), x) /\ toDevice'[d] = Append(toDevice[d], x)
    BY <1>3, ServerAnswers
  <2>2. ASSUME NEW x, Answers(Head(toServer[d]), x)
        PROVE  \A types \in {DeleteTypes, TransferTypes} :
                 x.type \in types => Head(toServer[d]).type \in types
    BY <2>2 DEF Answers, TransferTypes
  <2>. QED
    BY <1>1, <2>1, <2>2
<1>. QED
  BY <1>2, <1>3

LEMMA ServerCovers ==
  ASSUME SyncOK, NetOK, NetOK', NEW d \in Device, Covered(d), ServerReceive(d)
  PROVE  Covered(d)'
<1>1. /\ toServer[d] # << >> /\ toServer'[d] = Tail(toServer[d])
      /\ pendingMessages'[d] = pendingMessages[d]
      /\ outstandingTransfers'[d] = outstandingTransfers[d]
  BY DEF NetOK, ServerReceive, ServerTakes, syncVars
<1>2. PICK q \in Seq(ServerMsg), r \in Seq(DeviceMsg), n \in Int, k \in Int :
        /\ q = toServer[d] /\ r = toDevice[d]
        /\ n = pendingMessages[d] /\ k = outstandingTransfers[d]
  BY DEF NetOK, SyncOK
<1>3. q # << >> /\ Covers(q, r, n, k)
  BY <1>1, <1>2 DEF Covered
<1>4. \/ toDevice'[d] = r
      \/ \E x \in DeviceMsg : /\ toDevice'[d] = Append(r, x)
                              /\ x.type \in DeleteTypes => Head(q).type \in DeleteTypes
                              /\ x.type \in TransferTypes => Head(q).type \in TransferTypes
  BY <1>2, ServerAnswersInKind
<1>5. Covers(Tail(q), toDevice'[d], n, k)
  BY <1>3, <1>4, CoversTake
<1>. QED
  BY <1>1, <1>2, <1>5 DEF Covered

(* A device takes a message, which it may answer, or stop on, or decrease  *)
(* a counter for.                                                          *)
LEMMA TakingCovers ==
  ASSUME SyncOK, NetOK, NEW d \in Device, Covered(d), DeviceTakes(d), NEW m,
         m = Head(toDevice[d]),
         toServer'[d] = toServer[d],
         \/ /\ pendingMessages'[d] = pendingMessages[d]
            /\ outstandingTransfers'[d] = outstandingTransfers[d]
         \/ /\ pendingMessages'[d] = pendingMessages[d] - One(m, DeleteTypes)
            /\ outstandingTransfers'[d] = outstandingTransfers[d] - One(m, TransferTypes)
  PROVE  Covered(d)'
<1>1. toDevice[d] # << >> /\ toDevice'[d] = Tail(toDevice[d])
  BY DEF NetOK, DeviceTakes
<1>2. PICK q \in Seq(DeviceMsg), r \in Seq(ServerMsg), n \in Int, k \in Int :
        /\ q = toDevice[d] /\ r = toServer[d]
        /\ n = pendingMessages[d] /\ k = outstandingTransfers[d]
  BY DEF NetOK, SyncOK
<1>3. q # << >> /\ Covers(q, r, n, k) /\ Tail(q) \in Seq(DeviceMsg)
  BY <1>1, <1>2, CoversSwaps DEF Covered
<1>4. Covers(Tail(q), r, pendingMessages'[d], outstandingTransfers'[d])
  BY <1>2, <1>3, CoversTake
<1>5. Covers(r, Tail(q), pendingMessages'[d], outstandingTransfers'[d])
  BY <1>3, <1>4, CoversSwaps
<1>. QED
  BY <1>1, <1>2, <1>5 DEF Covered

LEMMA UploadSizeCovers ==
  ASSUME SyncOK, NetOK, NetOK', NEW d \in Device, Covered(d), DeviceTakes(d), NEW m,
         m = Head(toDevice[d]), ReceiveUploadSize(d, m)
  PROVE  Covered(d)'
<1>1. /\ m.type = "uploadSize" /\ pendingMessages' = pendingMessages
      /\ outstandingTransfers' = outstandingTransfers
  BY DEF ReceiveUploadSize, syncVars
<1>2. \/ toServer' = toServer
      \/ \E x : x.type = "chunk" /\ toServer' = [toServer EXCEPT ![d] = Append(@, x)]
  BY DEF ReceiveUploadSize
<1>3. CASE toServer' = toServer
  BY <1>1, <1>3, TakingCovers
<1>4. ASSUME NEW x, x.type = "chunk", toServer' = [toServer EXCEPT ![d] = Append(@, x)]
      PROVE  Covered(d)'
  <2>1. PICK q \in Seq(DeviceMsg), r \in Seq(ServerMsg), n \in Int, k \in Int :
          /\ q = toDevice[d] /\ r = toServer[d]
          /\ n = pendingMessages[d] /\ k = outstandingTransfers[d]
    BY DEF NetOK, SyncOK
  <2>2. q # << >> /\ toDevice'[d] = Tail(q) /\ toServer'[d] = Append(r, x)
    BY <1>4, <2>1 DEF NetOK, DeviceTakes
  <2>3. Covers(q, r, n, k) /\ Tail(q) \in Seq(DeviceMsg)
    BY <2>1, <2>2, CoversSwaps DEF Covered
  <2>4. x \in ServerMsg
    <3>1. toServer'[d] \in Seq(ServerMsg)
      BY DEF NetOK
    <3>2. Append(r, x)[Len(r) + 1] = x /\ Len(r) + 1 \in DOMAIN Append(r, x)
      BY <2>1
    <3>. QED
      BY <2>2, <3>1, <3>2
  <2>5. x.type \notin DeleteTypes /\ Head(q).type \in TransferTypes
    BY <1>1, <1>4, <2>1 DEF DeleteTypes, TransferTypes, UploadTypes
  <2>6. Covers(Tail(q), Append(r, x), n, k)
    BY <2>2, <2>3, <2>4, <2>5, CoversTake
  <2>7. Append(r, x) \in Seq(ServerMsg)
    BY <2>4
  <2>8. Covers(Append(r, x), Tail(q), n, k)
    BY <2>3, <2>6, <2>7, CoversSwaps
  <2>. QED
    BY <1>1, <2>1, <2>2, <2>8 DEF Covered
<1>. QED
  BY <1>2, <1>3, <1>4

LEMMA UploadAckCovers ==
  ASSUME SyncOK, NetOK, NEW d \in Device, Covered(d), DeviceTakes(d), NEW m,
         m = Head(toDevice[d]), ReceiveUploadAck(d, m)
  PROVE  Covered(d)'
<1>1. One(m, DeleteTypes) = 0 /\ One(m, TransferTypes) = 1
  BY DEF ReceiveUploadAck, One, DeleteTypes, TransferTypes, UploadTypes
<1>2. toServer' = toServer /\ (UNCHANGED syncVars \/ TransferDone(d))
  BY DEF ReceiveUploadAck
<1>3. CASE UNCHANGED syncVars
  BY <1>2, <1>3, TakingCovers DEF syncVars
<1>4. CASE TransferDone(d)
  <2>1. /\ pendingMessages'[d] = pendingMessages[d] - One(m, DeleteTypes)
        /\ outstandingTransfers'[d] = outstandingTransfers[d] - One(m, TransferTypes)
    BY <1>1, <1>4, DoneConcerns DEF SyncOK
  <2>. QED
    BY <1>2, <2>1, TakingCovers
<1>. QED
  BY <1>2, <1>3, <1>4

LEMMA DownloadCovers ==
  ASSUME SyncOK, NetOK, NEW d \in Device, Covered(d), DeviceTakes(d), NEW m,
         m = Head(toDevice[d]), ReceiveDownload(d, m)
  PROVE  Covered(d)'
<1>1. One(m, DeleteTypes) = 0 /\ One(m, TransferTypes) = 1
  BY DEF ReceiveDownload, One, DeleteTypes, TransferTypes, DownloadTypes, UploadTypes
<1>2. toServer' = toServer /\ (UNCHANGED syncVars \/ TransferDone(d))
  BY DEF ReceiveDownload
<1>3. CASE UNCHANGED syncVars
  BY <1>2, <1>3, TakingCovers DEF syncVars
<1>4. CASE TransferDone(d)
  <2>1. /\ pendingMessages'[d] = pendingMessages[d] - One(m, DeleteTypes)
        /\ outstandingTransfers'[d] = outstandingTransfers[d] - One(m, TransferTypes)
    BY <1>1, <1>4, DoneConcerns DEF SyncOK
  <2>. QED
    BY <1>2, <2>1, TakingCovers
<1>. QED
  BY <1>2, <1>3, <1>4

LEMMA DeleteAnswerCovers ==
  ASSUME SyncOK, NetOK, NEW d \in Device, Covered(d), DeviceTakes(d), NEW m,
         m = Head(toDevice[d]), ReceiveDeleteAnswer(d, m)
  PROVE  Covered(d)'
<1>1. One(m, DeleteTypes) = 1 /\ One(m, TransferTypes) = 0
  BY DEF ReceiveDeleteAnswer, One, DeleteTypes, TransferTypes, DownloadTypes, UploadTypes
<1>2. /\ UNCHANGED <<toServer, outstandingTransfers>>
      /\ pendingMessages' = [pendingMessages EXCEPT ![d] = @ - 1]
  BY DEF ReceiveDeleteAnswer
<1>3. /\ pendingMessages'[d] = pendingMessages[d] - One(m, DeleteTypes)
      /\ outstandingTransfers'[d] = outstandingTransfers[d] - One(m, TransferTypes)
  BY <1>1, <1>2 DEF SyncOK
<1>. QED
  BY <1>2, <1>3, TakingCovers

(* The list is answered with a round of requests, which are all counted.   *)
LEMMA ListCovers ==
  ASSUME SyncOK, NetOK, BInv, NEW d \in Device, Covered(d), DeviceTakes(d), NEW m,
         m = Head(toDevice[d]), ReceiveList(d, m)
  PROVE  Covered(d)'
<1>1. PICK t \in Nat : StateAt(t)
  BY DEF BInv
<1>2. PICK a \in Seq(TransferAt(t)), b \in Seq(DeleteAt(t)) :
        a = TransferRequests(d, m.entries) /\ b = DeleteRequests(d, m.entries)
  BY <1>1, RequestsAt DEF StateAt
<1>3. PICK q \in Seq(ServerMsgAt(t)), r \in Seq(DeviceMsgAt(t)), n \in Int, k \in Int :
        /\ q = toServer[d] /\ r = toDevice[d]
        /\ n = pendingMessages[d] /\ k = outstandingTransfers[d]
  BY <1>1 DEF StateAt, NetAt, SyncOK
<1>4. /\ toDevice[d] # << >> /\ toDevice'[d] = Tail(r) /\ toServer'[d] = q \o a \o b
      /\ pendingMessages'[d] = n + Len(b) /\ outstandingTransfers'[d] = k + Len(a)
  BY <1>2, <1>3 DEF ReceiveList, DeviceTakes, CountedTransfers, SyncOK, NetOK
<1>5. Covers(q, Tail(r), n, k) /\ Tail(r) \in Seq(DeviceMsgAt(t))
  <2>1. Covers(r, q, n, k) /\ r # << >>
    BY <1>3, <1>4, CoversSwaps DEF Covered
  <2>2. Covers(Tail(r), q, n, k) /\ Tail(r) \in Seq(DeviceMsgAt(t))
    BY <2>1, CoversTake
  <2>. QED
    BY <2>2, CoversSwaps
<1>6. /\ TransferAt(t) \subseteq ServerMsgAt(t) /\ DeleteAt(t) \subseteq ServerMsgAt(t)
      /\ \A x \in TransferAt(t) : x.type \notin DeleteTypes
      /\ \A x \in DeleteAt(t) : x.type \notin TransferTypes
  BY DEF ServerMsgAt, TransferAt, UploadAt, DownloadMsg, DeleteAt, DeleteTypes,
         TransferTypes, UploadTypes, DownloadTypes
<1>7. Covers(q \o a \o b, Tail(r), n + Len(b), k + Len(a))
  BY <1>5, <1>6, CoversList
<1>. QED
  BY <1>4, <1>7 DEF Covered

LEMMA DeviceCovers ==
  ASSUME SyncOK, NetOK, NetOK', BInv, NEW d \in Device, Covered(d), DeviceReceive(d)
  PROVE  Covered(d)'
<1>1. DeviceTakes(d)
  BY DEF DeviceReceive
<1>2. PICK m : /\ m = Head(toDevice[d])
               /\ \/ ReceiveList(d, m) \/ ReceiveUploadSize(d, m) \/ ReceiveUploadAck(d, m)
                  \/ ReceiveDownload(d, m) \/ ReceiveDeleteAnswer(d, m)
  BY DEF DeviceReceive
<1>. QED
  BY <1>1, <1>2, ListCovers, UploadSizeCovers, UploadAckCovers, DownloadCovers,
     DeleteAnswerCovers

LEMMA CoversNothing ==
  ASSUME NEW deletes \in Nat, NEW transfers \in Nat
  PROVE  Covers(<< >>, << >>, deletes, transfers)
<1>1. \A types : OfTypes(<< >>, types) = {}
  BY DEF OfTypes
<1>2. \A types : Under(<< >>, << >>, types) = 0
  BY <1>1, FS_EmptySet DEF Under
<1>. QED
  BY <1>2 DEF Covers

LEMMA CoveredCounts ==
  ASSUME SyncOK, NetOK, NEW d \in Device, Covered(d)
  PROVE  pendingMessages[d] \in Nat /\ outstandingTransfers[d] \in Nat
<1>1. \A types : Under(toServer[d], toDevice[d], types) \in Nat
  BY UnderSwaps DEF NetOK
<1>. QED
  BY <1>1 DEF SyncOK, Covered, Covers

LEMMA InitCovers == Init => CInv
<1>. SUFFICES ASSUME Init, NEW d \in Device PROVE Covered(d)
  BY DEF CInv
<1>1. /\ toServer[d] = << >> /\ toDevice[d] = << >>
      /\ pendingMessages[d] = 0 /\ outstandingTransfers[d] = 0
  BY DEF Init
<1>. QED
  BY <1>1, CoversNothing DEF Covered

(* A step of one device, or of the server for it.                          *)
LEMMA OneDeviceCovered ==
  ASSUME CInv, NEW d \in Device, OnlyConcerns(d), Covered(d)'
  PROVE  CInv'
BY SameCovered DEF CInv, OnlyConcerns

LEMMA NextCovers ==
  ASSUME SyncOK, NetOK, NetOK', DevicesOK, BInv, CInv, Next
  PROVE  CInv'
<1>1. ASSUME UNCHANGED <<syncVars, netVars>>
      PROVE  CInv'
  BY <1>1 DEF CInv, Covered, syncVars, netVars
<1>2. CASE \E d \in Device, p \in Path : Write(d, p) \/ Delete(d, p)
  BY <1>1, <1>2 DEF Write, Delete
<1>3. CASE \E d \in Device : Tick(d)
  BY <1>3, TickConcerns, TickCovers, OneDeviceCovered DEF CInv
<1>4. CASE \E d \in Device : DeviceReceive(d)
  BY <1>4, DeviceConcerns, DeviceCovers, OneDeviceCovered DEF CInv
<1>5. CASE \E d \in Device : ServerReceive(d)
  BY <1>5, ServerConcerns, ServerCovers, OneDeviceCovered DEF CInv
<1>6. CASE \E d \in Device : StopDevice(d)
  BY <1>1, <1>6 DEF StopDevice
<1>7. CASE \E d \in Device : StartDevice(d)
  <2>. SUFFICES ASSUME NEW d \in Device, StartDevice(d), NEW e \in Device
                PROVE  Covered(e)'
    BY <1>7 DEF CInv
  <2>1. /\ pendingMessages' = [pendingMessages EXCEPT ![d] = 0]
        /\ outstandingTransfers' = [outstandingTransfers EXCEPT ![d] = 0]
        /\ toServer' = [toServer EXCEPT ![d] = << >>]
        /\ toDevice' = [toDevice EXCEPT ![d] = << >>]
    BY DEF StartDevice
  <2>2. CASE e = d
    BY <2>1, <2>2, CoversNothing DEF SyncOK, NetOK, Covered
  <2>3. CASE e # d
    BY <2>1, <2>3 DEF SyncOK, NetOK, CInv, Covered
  <2>. QED
    BY <2>2, <2>3
<1>8. CASE RestartServer
  <2>. SUFFICES ASSUME NEW d \in Device
                PROVE  Covered(d)'
    BY DEF CInv
  <2>1. /\ toServer'[d] = << >> /\ toDevice'[d] = << >>
        /\ UNCHANGED <<pendingMessages, outstandingTransfers>>
    BY <1>8 DEF RestartServer, syncVars
  <2>2. pendingMessages[d] \in Nat /\ outstandingTransfers[d] \in Nat
    BY CoveredCounts DEF CInv
  <2>. QED
    BY <2>1, <2>2, CoversNothing DEF Covered
<1>. QED
  BY <1>2, <1>3, <1>4, <1>5, <1>6, <1>7, <1>8 DEF Next

(* No counter of any device is ever less than what can still decrease it.  *)
THEOREM CountersCover == Spec => []CInv
<1>1. IInv /\ IInv' /\ AInv /\ BInv /\ CInv /\ [Next]_vars => CInv'
  <2>. SUFFICES ASSUME IInv, IInv', AInv, BInv, CInv, [Next]_vars PROVE CInv'
    OBVIOUS
  <2>1. CASE Next
    BY <2>1, NextCovers DEF IInv, AInv
  <2>2. CASE UNCHANGED vars
    BY <2>2 DEF vars, syncVars, netVars, CInv, Covered
  <2>. QED
    BY <2>1, <2>2
<1>2. QED
  BY InitCovers, Invariance, Accounts, Bounds, <1>1, PTL DEF Spec

(* Every variable has the shape its C++ declaration gives it, no time is   *)
(* later than the clock, no hash is of a version nobody has written, and   *)
(* the two ints a device unlocks on are never negative, of a naive device  *)
(* neither, that counts what the server lists twice twice (FileClient.cpp  *)
(* handleNegotiationCompleted, checkSyncCompletionAndUnlock).              *)
THEOREM TypeCorrect == Spec => []TypeOK
<1>1. IInv /\ AInv /\ BInv /\ CInv => TypeOK
  <2>. SUFFICES ASSUME IInv, AInv, BInv, CInv PROVE TypeOK
    OBVIOUS
  <2>1. /\ pendingMessages \in [Device -> Nat] /\ outstandingTransfers \in [Device -> Nat]
        /\ busy \in [Device -> BOOLEAN]
        /\ uploading \in [Device -> SUBSET Path] /\ downloading \in [Device -> SUBSET Path]
    <3>1. \A d \in Device : pendingMessages[d] \in Nat /\ outstandingTransfers[d] \in Nat
      BY CoveredCounts DEF IInv, AInv, CInv
    <3>. QED
      BY <3>1 DEF AInv, SyncOK
  <2>2. now \in Nat /\ edits \in 0..MaxEdits /\ deleted \subseteq Version
    BY DEF BInv, StateAt, DevicesAt
  <2>3. fs \in [Device -> [Path -> [content : Content \cup {Gone}, mtime : -1..now]]]
    <3>1. FileAt(now) \subseteq [content : Content \cup {Gone}, mtime : -1..now]
      BY <2>2 DEF FileAt, Content, NoFile, NoTime
    <3>. QED
      BY <3>1 DEF BInv, StateAt, DevicesAt
  <2>4. db \in [Device -> [Path -> [mtime : -1..now, hash : -1..MaxEdits, tomb : -1..now]]]
    BY DEF BInv, StateAt, DevicesAt, EntryAt
  <2>5. /\ store \in [Path -> Content \cup {Gone}]
        /\ index \in [Path -> [mtime : -1..now, hash : -1..MaxEdits, tomb : -1..now]]
        /\ saving \subseteq Path
        /\ uploadMeta \in [Device -> [Path -> [mtime : -1..now, hash : -1..MaxEdits]]]
    BY DEF BInv, StateAt, ServerAt, EntryAt, MetaAt
  <2>6. ASSUME NEW d \in Device
        PROVE  /\ \A i \in DOMAIN toServer[d] : toServer[d][i].type \in ToServerType
               /\ \A i \in DOMAIN toDevice[d] : toDevice[d][i].type \in ToDeviceType
    <3>1. toServer[d] \in Seq(ServerMsgAt(now)) /\ toDevice[d] \in Seq(DeviceMsgAt(now))
      BY DEF BInv, StateAt, NetAt
    <3>2. /\ \A i \in DOMAIN toServer[d] : toServer[d][i] \in ServerMsgAt(now)
          /\ \A i \in DOMAIN toDevice[d] : toDevice[d][i] \in DeviceMsgAt(now)
      BY <3>1
    <3>. QED
      BY <3>2, ServerMsgAtOf, DeviceMsgAtOf
  <2>. QED
    BY <2>1, <2>2, <2>3, <2>4, <2>5, <2>6 DEF TypeOK
<1>2. QED
  BY Invariance, Accounts, Bounds, CountersCover, <1>1, PTL

-----------------------------------------------------------------------------
(* Edits of a path while the other copies agree                            *)
(*                                                                         *)
(* Of each path, a device has what the server has (CurrentAt), or an older *)
(* version or none (BehindAt), or it has changed it since (WrittenAt,      *)
(* RemovedAt); and while one has, all others have what the server has, and *)
(* are the older (Leads).  That is a statement on the server's entry of    *)
(* the path and the files and entries of the devices (PathOK), and each    *)
(* step a lemma on such values.                                            *)

(* n is the time and k the number of edits.                                *)
FileOK(f, n, k) == f = NoFile \/ f \in [content : 1..k, mtime : 1..n]

EntryOK(e, n, k) ==
  \/ e \in [mtime : 1..n, hash : 1..k, tomb : {NoTime}]
  \/ e \in [mtime : {NoTime}, hash : {NoHash}, tomb : -1..n]

(* A busy device has scanned its files (b: it is busy).                    *)
SideOK(f, e, b, n, k) ==
  /\ FileOK(f, n, k) /\ EntryOK(e, n, k)
  /\ Present(f) /\ (b \/ f.mtime = e.mtime) => e.hash = f.content
  /\ b /\ ~Present(f) => ~Tracked(e)

(* The server's entry x is that of a file that was deleted.                *)
Buried(x) == ~Tracked(x) /\ x.tomb # NoTime

CurrentAt(f, e, x) ==
  \/ Tracked(x) /\ f.content = x.hash /\ e.hash = x.hash
  \/ ~Tracked(x) /\ f = NoFile /\ (e # Untracked => Buried(x))

OlderAt(f, e, t) == Present(f) /\ e.hash = f.content /\ f.mtime < t /\ e.mtime < t

(* What a device is about to get was not deleted by anyone.                *)
BehindAt(f, e, x, del) ==
  \/ /\ Tracked(x) /\ x.hash \notin del
     /\ \/ f = NoFile /\ e = Untracked
        \/ f.content # x.hash /\ OlderAt(f, e, x.mtime)
  \/ Buried(x) /\ OlderAt(f, e, x.tomb)

WrittenAt(f, e, b, x, del) ==
  /\ Present(f) /\ f.content \notin del /\ ~Buried(x) /\ e.tomb = NoTime
  /\ f.content > x.hash /\ f.mtime > x.mtime
  /\ b => e.mtime = f.mtime /\ e.hash = f.content
  /\ ~b => /\ e.mtime < f.mtime /\ (Tracked(e) => Tracked(x))
           /\ Tracked(x) /\ ~Tracked(e) => x.hash \notin del

RemovedAt(f, e, b, x) ==
  /\ Tracked(x) /\ f = NoFile
  /\ b => ~Tracked(e)
  /\ ~Tracked(e) => e.tomb > x.mtime

(* All devices but d have what the server has, since before t.             *)
Leads(F, E, x, d, t) ==
  \A g \in Device \ {d} : CurrentAt(F[g], E[g], x) /\ F[g].mtime < t /\ E[g].mtime < t

AheadAt(F, E, B, x, del, n, d) ==
  \/ WrittenAt(F[d], E[d], B[d], x, del) /\ Leads(F, E, x, d, F[d].mtime)
  \/ RemovedAt(F[d], E[d], B[d], x) /\ Leads(F, E, x, d, IF Tracked(E[d]) THEN n + 1 ELSE E[d].tomb)

(* F, E and B are the files, the entries and the busy flags of the devices. *)
PathOK(x, F, E, B, del, n, k) ==
  /\ n \in Nat /\ k \in Nat /\ del \subseteq 1..k
  /\ EntryOK(x, n, k) /\ x.tomb # 0
  /\ \A d \in Device : SideOK(F[d], E[d], B[d], n, k)
  /\ \A d \in Device : \/ CurrentAt(F[d], E[d], x)
                       \/ BehindAt(F[d], E[d], x, del)
                       \/ AheadAt(F, E, B, x, del, n, d)

(* The versions of a path there are.                                       *)
Contents(x, F) == {F[d].content : d \in Device} \cup {x.hash}

(* The files, entries and flags F2, E2, B2 differ from F, E, B at d only.  *)
Except(F, E, B, F2, E2, B2, d) ==
  \A g \in Device \ {d} : F2[g] = F[g] /\ E2[g] = E[g] /\ B2[g] = B[g]

-----------------------------------------------------------------------------
(* One path                                                                *)

LEMMA Shapes ==
  ASSUME NEW f, NEW e, NEW n \in Nat, NEW k \in Nat, FileOK(f, n, k), EntryOK(e, n, k)
  PROVE  /\ f.content \in Int /\ f.mtime \in Int /\ f.mtime <= n /\ f.content <= k
         /\ Present(f) => f.content >= 1 /\ f.mtime >= 1
         /\ ~Present(f) => f = NoFile /\ f.content = -1 /\ f.mtime = -1
         /\ e.mtime \in Int /\ e.hash \in Int /\ e.tomb \in Int
         /\ e.mtime <= n /\ e.hash <= k /\ e.tomb <= n /\ e.tomb >= -1
         /\ Tracked(e) => e.mtime >= 1 /\ e.hash >= 1 /\ e.tomb = -1
         /\ ~Tracked(e) => e.mtime = -1 /\ e.hash = -1
         /\ (e = Untracked) <=> (e.mtime = -1 /\ e.tomb = -1)
BY DEF FileOK, EntryOK, NoFile, Present, Tracked, Untracked, NoTime, NoHash, Gone

(* A device is in one state.                                               *)
LEMMA CurrentAlone ==
  ASSUME NEW f, NEW e, NEW b, NEW n \in Nat, NEW k \in Nat, SideOK(f, e, b, n, k),
         NEW x, EntryOK(x, n, k), CurrentAt(f, e, x), NEW del
  PROVE  ~BehindAt(f, e, x, del) /\ ~WrittenAt(f, e, b, x, del) /\ ~RemovedAt(f, e, b, x)
<1>1. /\ f.content \in Int /\ f.mtime \in Int
      /\ Present(f) => f.content >= 1 /\ f.mtime >= 1
      /\ ~Present(f) => f = NoFile /\ f.content = -1 /\ f.mtime = -1
      /\ e.mtime \in Int /\ e.hash \in Int /\ e.tomb \in Int
  BY Shapes DEF SideOK
<1>2. /\ x.mtime \in Int /\ x.hash \in Int /\ x.tomb \in Int
      /\ Tracked(x) => x.mtime >= 1 /\ x.hash >= 1 /\ x.tomb = -1
      /\ ~Tracked(x) => x.mtime = -1 /\ x.hash = -1
  BY Shapes DEF SideOK
<1>3. NoFile.content = -1 /\ ~Present(NoFile)
  BY DEF NoFile, Gone, Present
<1>. QED
  BY <1>1, <1>2, <1>3 DEF CurrentAt, BehindAt, WrittenAt, RemovedAt, OlderAt, Buried

LEMMA BehindAlone ==
  ASSUME NEW f, NEW e, NEW b, NEW n \in Nat, NEW k \in Nat, SideOK(f, e, b, n, k),
         NEW x, EntryOK(x, n, k), NEW del, BehindAt(f, e, x, del)
  PROVE  ~WrittenAt(f, e, b, x, del) /\ ~RemovedAt(f, e, b, x)
<1>1. /\ f.content \in Int /\ f.mtime \in Int
      /\ Present(f) => f.content >= 1 /\ f.mtime >= 1
      /\ ~Present(f) => f = NoFile /\ f.content = -1 /\ f.mtime = -1
      /\ e.mtime \in Int /\ e.hash \in Int /\ e.tomb \in Int
  BY Shapes DEF SideOK
<1>2. /\ x.mtime \in Int /\ x.hash \in Int /\ x.tomb \in Int
      /\ Tracked(x) => x.mtime >= 1 /\ x.hash >= 1 /\ x.tomb = -1
  BY Shapes DEF SideOK
<1>3. NoFile.content = -1 /\ ~Present(NoFile) /\ ~Tracked(Untracked) /\ Untracked.tomb = -1
  BY DEF NoFile, Gone, Present, Untracked, Tracked, NoTime
<1>. QED
  BY <1>1, <1>2, <1>3 DEF BehindAt, WrittenAt, RemovedAt, OlderAt, Buried

(* A path of which nothing changes but what was deleted elsewhere.         *)
LEMMA PathStays ==
  ASSUME NEW x, NEW F, NEW E, NEW B, NEW F2, NEW E2, NEW B2, NEW del, NEW n, NEW k,
         PathOK(x, F, E, B, del, n, k),
         \A g \in Device : F2[g] = F[g] /\ E2[g] = E[g] /\ B2[g] = B[g],
         NEW n2 \in Nat, n <= n2, NEW k2 \in Nat, k <= k2, NEW del2 \in SUBSET (1..k2),
         \A c \in Contents(x, F) : c \in del2 => c \in del
  PROVE  PathOK(x, F2, E2, B2, del2, n2, k2)
<1>1. n \in Nat /\ k \in Nat
  BY DEF PathOK
<1>2. \A e : EntryOK(e, n, k) => EntryOK(e, n2, k2)
  BY <1>1 DEF EntryOK
<1>3. \A f, e, b : SideOK(f, e, b, n, k) => SideOK(f, e, b, n2, k2)
  BY <1>1, <1>2 DEF SideOK, FileOK
<1>4. \A g \in Device : SideOK(F2[g], E2[g], B2[g], n2, k2)
  BY <1>3 DEF PathOK
<1>5. EntryOK(x, n2, k2) /\ x.tomb # 0
  BY <1>2 DEF PathOK
<1>6. x.hash \in del2 => x.hash \in del
  BY DEF Contents
<1>7. ASSUME NEW d \in Device
      PROVE  \/ CurrentAt(F2[d], E2[d], x)
             \/ BehindAt(F2[d], E2[d], x, del2)
             \/ AheadAt(F2, E2, B2, x, del2, n2, d)
  <2>1. F[d].content \in del2 => F[d].content \in del
    BY DEF Contents
  <2>2. CASE CurrentAt(F[d], E[d], x)
    BY <2>2
  <2>3. CASE BehindAt(F[d], E[d], x, del)
    BY <1>6, <2>3 DEF BehindAt
  <2>4. CASE WrittenAt(F[d], E[d], B[d], x, del) /\ Leads(F, E, x, d, F[d].mtime)
    <3>1. WrittenAt(F2[d], E2[d], B2[d], x, del2)
      BY <1>6, <2>1, <2>4 DEF WrittenAt
    <3>2. Leads(F2, E2, x, d, F2[d].mtime)
      BY <2>4 DEF Leads
    <3>. QED
      BY <3>1, <3>2 DEF AheadAt
  <2>5. CASE /\ RemovedAt(F[d], E[d], B[d], x)
             /\ Leads(F, E, x, d, IF Tracked(E[d]) THEN n + 1 ELSE E[d].tomb)
    <3>1. RemovedAt(F2[d], E2[d], B2[d], x)
      BY <2>5
    <3>2. \A g \in Device : F[g].mtime \in Int /\ E[g].mtime \in Int
      BY <1>1, Shapes DEF PathOK, SideOK
    <3>3. Leads(F2, E2, x, d, IF Tracked(E2[d]) THEN n2 + 1 ELSE E2[d].tomb)
      BY <1>1, <2>5, <3>2 DEF Leads
    <3>. QED
      BY <3>1, <3>3 DEF AheadAt
  <2>. QED
    BY <2>2, <2>3, <2>4, <2>5 DEF PathOK, AheadAt
<1>. QED
  BY <1>4, <1>5, <1>7 DEF PathOK


(* The numbers a path is made of.                                          *)
FileShape(f, n, k) ==
  /\ f.content \in Int /\ f.mtime \in Int /\ f.mtime <= n /\ f.content <= k
  /\ Present(f) => f.content >= 1 /\ f.mtime >= 1
  /\ ~Present(f) => f = NoFile /\ f.content = -1 /\ f.mtime = -1

EntryShape(e, n, k) ==
  /\ e.mtime \in Int /\ e.hash \in Int /\ e.tomb \in Int
  /\ e.mtime <= n /\ e.hash <= k /\ e.tomb <= n /\ e.tomb >= -1
  /\ Tracked(e) => e.mtime >= 1 /\ e.hash >= 1 /\ e.tomb = -1
  /\ ~Tracked(e) => e.mtime = -1 /\ e.hash = -1
  /\ (e = Untracked) <=> (e.mtime = -1 /\ e.tomb = -1)

LEMMA PathShapes ==
  ASSUME NEW x, NEW F, NEW E, NEW B, NEW del, NEW n, NEW k, PathOK(x, F, E, B, del, n, k)
  PROVE  /\ n \in Nat /\ k \in Nat /\ EntryShape(x, n, k)
         /\ \A d \in Device : FileShape(F[d], n, k) /\ EntryShape(E[d], n, k)
<1>1. n \in Nat /\ k \in Nat /\ EntryOK(x, n, k)
  BY DEF PathOK
<1>2. \A f, e : FileOK(f, n, k) /\ EntryOK(e, n, k) => FileShape(f, n, k) /\ EntryShape(e, n, k)
  BY <1>1, Shapes DEF FileShape, EntryShape
<1>3. FileOK(NoFile, n, k)
  BY DEF FileOK
<1>4. EntryShape(x, n, k)
  BY <1>1, <1>2, <1>3
<1>5. \A d \in Device : FileOK(F[d], n, k) /\ EntryOK(E[d], n, k)
  BY DEF PathOK, SideOK
<1>. QED
  BY <1>1, <1>2, <1>4, <1>5

LEMMA NoFileShape == NoFile.content = -1 /\ NoFile.mtime = -1 /\ ~Present(NoFile)
BY DEF NoFile, Present, Gone, NoTime

(* A device that has the content the server has, or no file where the      *)
(* server has none, is up to date.                                         *)
LEMMA AgreeingIsCurrent ==
  ASSUME NEW x, NEW F, NEW E, NEW B, NEW del, NEW n, NEW k, PathOK(x, F, E, B, del, n, k),
         NEW d \in Device, F[d].content = x.hash
  PROVE  CurrentAt(F[d], E[d], x)
<1>1. /\ EntryShape(x, n, k) /\ FileShape(F[d], n, k) /\ EntryShape(E[d], n, k)
  BY PathShapes
<1>2. \/ CurrentAt(F[d], E[d], x)
      \/ BehindAt(F[d], E[d], x, del)
      \/ WrittenAt(F[d], E[d], B[d], x, del)
      \/ RemovedAt(F[d], E[d], B[d], x)
  BY DEF PathOK, AheadAt
<1>3. ~WrittenAt(F[d], E[d], B[d], x, del)
  BY <1>1 DEF WrittenAt, FileShape, EntryShape
<1>4. ~RemovedAt(F[d], E[d], B[d], x)
  BY <1>1, NoFileShape DEF RemovedAt, FileShape, EntryShape
<1>5. ~BehindAt(F[d], E[d], x, del)
  BY <1>1, NoFileShape DEF BehindAt, OlderAt, Buried, FileShape, EntryShape
<1>. QED
  BY <1>2, <1>3, <1>4, <1>5

(* A user writes a file that no device has deleted, while all others have  *)
(* what the server has.                                                    *)
LEMMA PathWrite ==
  ASSUME NEW x, NEW F, NEW E, NEW B, NEW del, NEW n, NEW k, PathOK(x, F, E, B, del, n, k),
         NEW d \in Device, ~B[d], x.tomb = NoTime, \A g \in Device : E[g].tomb = NoTime,
         \A g \in Device \ {d} : F[g].content = x.hash,
         NEW F2, NEW E2, NEW B2, Except(F, E, B, F2, E2, B2, d),
         F2[d] = [content |-> k + 1, mtime |-> n + 1], E2[d] = E[d], B2[d] = B[d]
  PROVE  /\ PathOK(x, F2, E2, B2, del, n + 1, k + 1)
         /\ Contents(x, F2) \subseteq Contents(x, F) \cup {k + 1}
<1>1. /\ n \in Nat /\ k \in Nat /\ EntryShape(x, n, k) /\ del \subseteq 1..k
      /\ \A g \in Device : FileShape(F[g], n, k) /\ EntryShape(E[g], n, k)
  BY PathShapes DEF PathOK
<1>2. \A g \in Device \ {d} : CurrentAt(F[g], E[g], x)
  BY AgreeingIsCurrent
<1>3. Present(F2[d]) /\ F2[d].content = k + 1 /\ F2[d].mtime = n + 1
  <2>1. F2[d].content = k + 1 /\ F2[d].mtime = n + 1
    OBVIOUS
  <2>. QED
    BY <1>1, <2>1, NoFileShape DEF Present
<1>4. /\ \A e : EntryOK(e, n, k) => EntryOK(e, n + 1, k + 1)
      /\ \A f : FileOK(f, n, k) => FileOK(f, n + 1, k + 1)
      /\ FileOK(F2[d], n + 1, k + 1)
  BY <1>1 DEF EntryOK, FileOK
<1>5. SideOK(F2[d], E2[d], B2[d], n + 1, k + 1)
  <2>1. E[d].mtime <= n
    BY <1>1 DEF EntryShape
  <2>2. E[d].mtime \in Int
    BY <1>1 DEF EntryShape
  <2>3. F2[d].mtime # E2[d].mtime
    BY <1>1, <1>3, <2>1, <2>2
  <2>4. EntryOK(E2[d], n + 1, k + 1)
    BY <1>4 DEF PathOK, SideOK
  <2>. QED
    BY <1>3, <1>4, <2>3, <2>4 DEF SideOK
<1>6. \A g \in Device : SideOK(F2[g], E2[g], B2[g], n + 1, k + 1)
  <2>1. \A g \in Device \ {d} : SideOK(F2[g], E2[g], B2[g], n + 1, k + 1)
    BY <1>4 DEF PathOK, SideOK, Except
  <2>. QED
    BY <1>5, <2>1
<1>7. WrittenAt(F2[d], E2[d], B2[d], x, del)
  <2>1. ~Buried(x) /\ E2[d].tomb = NoTime /\ F2[d].content \notin del
    BY <1>1, <1>3 DEF Buried
  <2>2. F2[d].content > x.hash /\ F2[d].mtime > x.mtime /\ E2[d].mtime < F2[d].mtime
    BY <1>1, <1>3 DEF EntryShape
  <2>3. /\ Tracked(E[d]) => Tracked(x)
        /\ Tracked(x) /\ ~Tracked(E[d]) => x.hash \notin del
    <3>1. \/ CurrentAt(F[d], E[d], x)
          \/ BehindAt(F[d], E[d], x, del)
          \/ WrittenAt(F[d], E[d], B[d], x, del)
          \/ RemovedAt(F[d], E[d], B[d], x)
      BY DEF PathOK, AheadAt
    <3>2. EntryShape(x, n, k) /\ FileShape(F[d], n, k) /\ EntryShape(E[d], n, k)
      BY <1>1
    <3>3. CASE CurrentAt(F[d], E[d], x)
      BY <2>1, <3>2, <3>3 DEF CurrentAt, Buried, EntryShape, Untracked, Tracked, NoTime
    <3>4. CASE BehindAt(F[d], E[d], x, del)
      BY <2>1, <3>2, <3>4 DEF BehindAt, OlderAt, EntryShape, FileShape
    <3>5. CASE WrittenAt(F[d], E[d], B[d], x, del)
      BY <3>5 DEF WrittenAt
    <3>6. CASE RemovedAt(F[d], E[d], B[d], x)
      BY <2>1, <3>2, <3>6 DEF RemovedAt, EntryShape, NoTime
    <3>. QED
      BY <3>1, <3>3, <3>4, <3>5, <3>6
  <2>. QED
    BY <1>3, <2>1, <2>2, <2>3 DEF WrittenAt
<1>8. Leads(F2, E2, x, d, F2[d].mtime)
  BY <1>1, <1>2, <1>3 DEF Leads, Except, FileShape, EntryShape
<1>9. PathOK(x, F2, E2, B2, del, n + 1, k + 1)
  <2>1. \A g \in Device \ {d} : CurrentAt(F2[g], E2[g], x)
    BY <1>2 DEF Except
  <2>2. n + 1 \in Nat /\ k + 1 \in Nat /\ del \subseteq 1..(k + 1)
    BY <1>1
  <2>3. EntryOK(x, n + 1, k + 1) /\ x.tomb # 0
    BY <1>4 DEF PathOK
  <2>. QED
    BY <1>6, <1>7, <1>8, <2>1, <2>2, <2>3 DEF PathOK, AheadAt
<1>10. Contents(x, F2) \subseteq Contents(x, F) \cup {k + 1}
  BY <1>3 DEF Contents, Except
<1>. QED
  BY <1>9, <1>10

(* A user deletes a file while all others have what the server has.        *)
LEMMA PathDelete ==
  ASSUME NEW x, NEW F, NEW E, NEW B, NEW del, NEW n, NEW k, PathOK(x, F, E, B, del, n, k),
         NEW d \in Device, ~B[d], Present(F[d]),
         \A g \in Device \ {d} : F[g].content = x.hash,
         NEW F2, NEW E2, NEW B2, Except(F, E, B, F2, E2, B2, d),
         F2[d] = NoFile, E2[d] = E[d], B2[d] = B[d]
  PROVE  /\ PathOK(x, F2, E2, B2, del \cup {F[d].content}, n + 1, k + 1)
         /\ Contents(x, F2) \subseteq Contents(x, F) \cup {-1}
<1>. DEFINE del2 == del \cup {F[d].content}
<1>1. /\ n \in Nat /\ k \in Nat /\ EntryShape(x, n, k) /\ del \subseteq 1..k
      /\ \A g \in Device : FileShape(F[g], n, k) /\ EntryShape(E[g], n, k)
  BY PathShapes DEF PathOK
<1>2. \A g \in Device \ {d} : CurrentAt(F[g], E[g], x)
  BY AgreeingIsCurrent
<1>3. /\ \A e : EntryOK(e, n, k) => EntryOK(e, n + 1, k + 1)
      /\ \A f : FileOK(f, n, k) => FileOK(f, n + 1, k + 1)
      /\ FileOK(F2[d], n + 1, k + 1)
  BY <1>1 DEF EntryOK, FileOK
<1>4. SideOK(F2[d], E2[d], B2[d], n + 1, k + 1)
  BY <1>3, NoFileShape DEF PathOK, SideOK
<1>5. \A g \in Device : SideOK(F2[g], E2[g], B2[g], n + 1, k + 1)
  <2>1. \A g \in Device \ {d} : SideOK(F2[g], E2[g], B2[g], n + 1, k + 1)
    BY <1>3 DEF PathOK, SideOK, Except
  <2>. QED
    BY <1>4, <2>1
<1>6. Leads(F2, E2, x, d, n + 1 + 1)
  BY <1>1, <1>2 DEF Leads, Except, FileShape, EntryShape
<1>7. \/ CurrentAt(F2[d], E2[d], x)
      \/ BehindAt(F2[d], E2[d], x, del2)
      \/ RemovedAt(F2[d], E2[d], B2[d], x) /\ Tracked(E2[d])
  <2>1. \/ CurrentAt(F[d], E[d], x)
        \/ BehindAt(F[d], E[d], x, del)
        \/ WrittenAt(F[d], E[d], B[d], x, del)
        \/ RemovedAt(F[d], E[d], B[d], x)
    BY DEF PathOK, AheadAt
  <2>2. EntryShape(x, n, k) /\ FileShape(F[d], n, k) /\ EntryShape(E[d], n, k)
    BY <1>1
  <2>3. CASE CurrentAt(F[d], E[d], x)
    BY <2>2, <2>3 DEF CurrentAt, RemovedAt, Present, EntryShape
  <2>4. CASE BehindAt(F[d], E[d], x, del)
    BY <2>2, <2>4 DEF BehindAt, OlderAt, CurrentAt, RemovedAt, Present, EntryShape, FileShape
  <2>5. CASE WrittenAt(F[d], E[d], B[d], x, del)
    <3>1. CASE Tracked(E[d])
      BY <2>5, <3>1 DEF WrittenAt, RemovedAt
    <3>2. CASE ~Tracked(E[d])
      <4>1. E[d] = Untracked
        BY <2>2, <2>5, <3>2 DEF WrittenAt, EntryShape, NoTime
      <4>2. CASE Tracked(x)
        <5>1. x.hash \notin del /\ x.hash # F[d].content
          BY <2>2, <2>5, <3>2, <4>2 DEF WrittenAt, EntryShape, FileShape
        <5>. QED
          BY <4>1, <4>2, <5>1 DEF BehindAt
      <4>3. CASE ~Tracked(x)
        BY <4>1, <4>3 DEF CurrentAt
      <4>. QED
        BY <4>2, <4>3
    <3>. QED
      BY <3>1, <3>2
  <2>6. CASE RemovedAt(F[d], E[d], B[d], x)
    BY <2>6 DEF RemovedAt, Present
  <2>. QED
    BY <2>1, <2>3, <2>4, <2>5, <2>6
<1>8. PathOK(x, F2, E2, B2, del2, n + 1, k + 1)
  <2>1. \A g \in Device \ {d} : CurrentAt(F2[g], E2[g], x)
    BY <1>2 DEF Except
  <2>2. F[d].content \in 1..k
    BY <1>1 DEF FileShape
  <2>3. n \in Nat /\ k \in Nat /\ del \subseteq 1..k
    BY <1>1
  <2>4. 1..k \subseteq 1..(k + 1) /\ n + 1 \in Nat /\ k + 1 \in Nat
    BY <2>3
  <2>5. n + 1 \in Nat /\ k + 1 \in Nat /\ del2 \subseteq 1..(k + 1)
    BY <2>3, <2>2, <2>4, Zenon
  <2>6. EntryOK(x, n + 1, k + 1) /\ x.tomb # 0
    BY <1>3 DEF PathOK
  <2>. QED
    BY <1>5, <1>6, <1>7, <2>1, <2>5, <2>6 DEF PathOK, AheadAt
<1>9. Contents(x, F2) \subseteq Contents(x, F) \cup {-1}
  BY NoFileShape DEF Contents, Except
<1>. QED
  BY <1>8, <1>9

(* What a scan records of a path at the time n.                            *)
ScannedAt(f, e, n) ==
  IF Present(f) /\ f.mtime # e.mtime THEN RecordFile(e, f.mtime, f.content)
  ELSE IF Tracked(e) /\ ~Present(f)
  THEN RecordDeletion(e, IF e.tomb # NoTime THEN e.tomb ELSE n + 1)
  ELSE e

LEMMA RecordedFields ==
  ASSUME NEW e, NEW n \in Nat, NEW k \in Nat, EntryOK(e, n, k), NEW m \in Int, NEW h \in Int
  PROVE  /\ RecordFile(e, m, h).mtime = m /\ RecordFile(e, m, h).hash = h
         /\ RecordFile(e, m, h).tomb = e.tomb
         /\ (e.tomb = NoTime => RecordFile(e, m, h) = [mtime |-> m, hash |-> h, tomb |-> NoTime])
<1>1. e \in [mtime : Int, hash : Int, tomb : Int]
  BY DEF EntryOK, NoTime, NoHash
<1>2. /\ RecordFile(e, m, h) \in [mtime : Int, hash : Int, tomb : Int]
      /\ RecordFile(e, m, h).mtime = m /\ RecordFile(e, m, h).hash = h
      /\ RecordFile(e, m, h).tomb = e.tomb
  BY <1>1 DEF RecordFile
<1>3. RecordFile(e, m, h) = [mtime |-> m, hash |-> h, tomb |-> e.tomb]
  BY <1>2
<1>. QED
  BY <1>2, <1>3

(* A device that has changed nothing since its last scan records nothing   *)
(* that matters; one that has changed the path now knows it has.           *)
LEMMA PathTick ==
  ASSUME NEW x, NEW F, NEW E, NEW B, NEW del, NEW n, NEW k, PathOK(x, F, E, B, del, n, k),
         NEW d \in Device, ~B[d],
         NEW F2, NEW E2, NEW B2, Except(F, E, B, F2, E2, B2, d),
         F2[d] = F[d], E2[d] = ScannedAt(F[d], E[d], n), B2[d],
         NEW n2, n2 = n + 1 \/ (n2 = n /\ ~(Tracked(E[d]) /\ ~Present(F[d])))
  PROVE  PathOK(x, F2, E2, B2, del, n2, k) /\ Contents(x, F2) = Contents(x, F)
<1>. DEFINE f == F[d]
            e == E[d]
            e2 == E2[d]
<1>1. /\ n \in Nat /\ k \in Nat /\ n2 \in Nat /\ n <= n2 /\ EntryShape(x, n, k)
      /\ del \subseteq 1..k
      /\ FileShape(f, n, k) /\ EntryShape(e, n, k) /\ EntryOK(e, n, k) /\ FileOK(f, n, k)
      /\ \A g \in Device : FileShape(F[g], n, k) /\ EntryShape(E[g], n, k)
  <2>1. /\ n \in Nat /\ k \in Nat /\ EntryShape(x, n, k)
        /\ \A g \in Device : FileShape(F[g], n, k) /\ EntryShape(E[g], n, k)
    BY PathShapes
  <2>2. EntryOK(e, n, k) /\ FileOK(f, n, k) /\ del \subseteq 1..k
    BY DEF PathOK, SideOK
  <2>3. n2 \in Nat /\ n <= n2
    BY <2>1
  <2>. QED
    BY <2>1, <2>2, <2>3
<1>2. /\ \A y : EntryOK(y, n, k) => EntryOK(y, n2, k)
      /\ \A y : FileOK(y, n, k) => FileOK(y, n2, k)
  BY <1>1 DEF EntryOK, FileOK
<1>3. \/ CurrentAt(f, e, x)
      \/ BehindAt(f, e, x, del)
      \/ WrittenAt(f, e, B[d], x, del) /\ Leads(F, E, x, d, f.mtime)
      \/ /\ RemovedAt(f, e, B[d], x)
         /\ Leads(F, E, x, d, IF Tracked(e) THEN n + 1 ELSE e.tomb)
  BY DEF PathOK, AheadAt
<1>4. Contents(x, F2) = Contents(x, F)
  BY DEF Contents, Except
<1>5. /\ Present(f) /\ f.mtime # e.mtime =>
           /\ e2.mtime = f.mtime /\ e2.hash = f.content /\ e2.tomb = e.tomb
           /\ e.tomb = NoTime => e2 = [mtime |-> f.mtime, hash |-> f.content, tomb |-> NoTime]
      /\ ~Present(f) /\ Tracked(e) =>
           /\ e2 = [mtime |-> NoTime, hash |-> NoHash, tomb |-> n + 1] /\ n2 = n + 1
           /\ ~Tracked(e2) /\ e2.tomb = n + 1 /\ e2.mtime = -1
      /\ Present(f) /\ f.mtime = e.mtime => e2 = e
      /\ ~Present(f) /\ ~Tracked(e) => e2 = e
  <2>1. f.mtime \in Int /\ f.content \in Int
    BY <1>1 DEF FileShape
  <2>2. Present(f) /\ f.mtime # e.mtime => e2 = RecordFile(e, f.mtime, f.content)
    BY DEF ScannedAt
  <2>3. ~Present(f) /\ Tracked(e) => e2 = RecordDeletion(e, n + 1)
    BY <1>1 DEF ScannedAt, EntryShape, NoTime
  <2>4. ~Present(f) /\ Tracked(e) => n2 = n + 1
    OBVIOUS
  <2>5. \/ Present(f) /\ f.mtime = e.mtime
        \/ ~Present(f) /\ ~Tracked(e)
        => e2 = e
    BY DEF ScannedAt
  <2>6. Present(f) /\ f.mtime # e.mtime =>
           /\ e2.mtime = f.mtime /\ e2.hash = f.content /\ e2.tomb = e.tomb
           /\ e.tomb = NoTime => e2 = [mtime |-> f.mtime, hash |-> f.content, tomb |-> NoTime]
    <3>1. /\ RecordFile(e, f.mtime, f.content).mtime = f.mtime
          /\ RecordFile(e, f.mtime, f.content).hash = f.content
          /\ RecordFile(e, f.mtime, f.content).tomb = e.tomb
          /\ e.tomb = NoTime => RecordFile(e, f.mtime, f.content)
                                  = [mtime |-> f.mtime, hash |-> f.content, tomb |-> NoTime]
      <4>1. PICK y, m, h : y = e /\ m = f.mtime /\ h = f.content
        OBVIOUS
      <4>2. n \in Nat /\ k \in Nat /\ EntryOK(y, n, k) /\ m \in Int /\ h \in Int
        BY <1>1, <2>1, <4>1
      <4>3. /\ RecordFile(y, m, h).mtime = m /\ RecordFile(y, m, h).hash = h
            /\ RecordFile(y, m, h).tomb = y.tomb
            /\ y.tomb = NoTime => RecordFile(y, m, h) = [mtime |-> m, hash |-> h, tomb |-> NoTime]
        BY <4>2, RecordedFields
      <4>. QED
        BY <4>1, <4>3
    <3>. QED
      BY <2>2, <3>1
  <2>7. ~Present(f) /\ Tracked(e) =>
           /\ e2 = [mtime |-> NoTime, hash |-> NoHash, tomb |-> n + 1]
           /\ ~Tracked(e2) /\ e2.tomb = n + 1 /\ e2.mtime = -1
    BY <2>3 DEF RecordDeletion, Tracked, NoTime
  <2>. QED
    BY <2>4, <2>5, <2>6, <2>7
<1>6. Present(f) /\ f.mtime # e.mtime => e.tomb = NoTime
  BY <1>1, <1>3 DEF CurrentAt, BehindAt, OlderAt, WrittenAt, RemovedAt, Present,
                    EntryShape, FileShape, NoTime
<1>7. Present(f) => e2.hash = f.content /\ e2.mtime = f.mtime
  <2>1. Present(f) /\ f.mtime = e.mtime => e.hash = f.content
    BY DEF PathOK, SideOK
  <2>. QED
    BY <1>5, <2>1
<1>8. ~Present(f) => ~Tracked(e2)
  BY <1>5
<1>9. EntryOK(e2, n2, k)
  <2>1. CASE Present(f) /\ f.mtime # e.mtime
    <3>1. e2 = [mtime |-> f.mtime, hash |-> f.content, tomb |-> NoTime]
      BY <1>5, <1>6, <2>1
    <3>. QED
      BY <1>1, <2>1, <3>1 DEF EntryOK, FileShape
  <2>2. CASE ~Present(f) /\ Tracked(e)
    BY <1>1, <1>5, <2>2 DEF EntryOK
  <2>. QED
    BY <1>1, <1>2, <1>5, <2>1, <2>2
<1>10. \A g \in Device : SideOK(F2[g], E2[g], B2[g], n2, k)
  <2>1. \A g \in Device \ {d} : SideOK(F2[g], E2[g], B2[g], n2, k)
    BY <1>2 DEF PathOK, SideOK, Except
  <2>2. SideOK(F2[d], E2[d], B2[d], n2, k)
    BY <1>1, <1>2, <1>7, <1>8, <1>9 DEF SideOK
  <2>. QED
    BY <2>1, <2>2
<1>11. \A t : Leads(F, E, x, d, t) => Leads(F2, E2, x, d, t)
  BY DEF Leads, Except
<1>. HIDE DEF f, e, e2
<1>12. CurrentAt(f, e, x) => CurrentAt(f, e2, x)
  <2>. SUFFICES ASSUME CurrentAt(f, e, x) PROVE CurrentAt(f, e2, x)
    OBVIOUS
  <2>1. CASE Tracked(x)
    <3>1. f.content = x.hash /\ e.hash = x.hash /\ x.hash >= 1
      BY <1>1, <2>1 DEF CurrentAt, EntryShape
    <3>2. Present(f)
      BY <1>1, <3>1 DEF FileShape
    <3>. QED
      BY <1>7, <2>1, <3>1, <3>2 DEF CurrentAt
  <2>2. CASE ~Tracked(x)
    <3>1. f = NoFile /\ ~Present(f) /\ (e # Untracked => Buried(x))
      BY <2>2, NoFileShape DEF CurrentAt
    <3>2. e = Untracked => ~Tracked(e)
      BY DEF Untracked, Tracked
    <3>3. e = Untracked => e2 = e
      BY <1>5, <3>1, <3>2
    <3>. QED
      BY <2>2, <3>1, <3>3 DEF CurrentAt
  <2>. QED
    BY <2>1, <2>2
<1>13. \A t : OlderAt(f, e, t) => OlderAt(f, e2, t)
  BY <1>7 DEF OlderAt
<1>14. BehindAt(f, e, x, del) => BehindAt(f, e2, x, del)
  <2>1. f = NoFile /\ e = Untracked => e2 = e
    <3>1. ~Tracked(Untracked)
      BY DEF Untracked, Tracked
    <3>. QED
      BY <1>5, <3>1, NoFileShape
  <2>. QED
    BY <1>13, <2>1 DEF BehindAt
<1>15. WrittenAt(f, e, B[d], x, del) => WrittenAt(f, e2, B2[d], x, del)
  <2>. SUFFICES ASSUME WrittenAt(f, e, B[d], x, del) PROVE WrittenAt(f, e2, B2[d], x, del)
    OBVIOUS
  <2>1. Present(f) /\ e.mtime < f.mtime /\ e.tomb = NoTime
    BY DEF WrittenAt
  <2>2. e2.tomb = NoTime /\ e2.mtime = f.mtime /\ e2.hash = f.content
    <3>1. f.mtime # e.mtime
      BY <1>1, <2>1 DEF FileShape, EntryShape
    <3>. QED
      BY <1>5, <2>1, <3>1
  <2>. QED
    BY <2>2 DEF WrittenAt
<1>16. RemovedAt(f, e, B[d], x)
         => /\ RemovedAt(f, e2, B2[d], x) /\ ~Tracked(e2)
            /\ e2.tomb = IF Tracked(e) THEN n + 1 ELSE e.tomb
  <2>. SUFFICES ASSUME RemovedAt(f, e, B[d], x)
                PROVE  /\ RemovedAt(f, e2, B2[d], x) /\ ~Tracked(e2)
                       /\ e2.tomb = IF Tracked(e) THEN n + 1 ELSE e.tomb
    OBVIOUS
  <2>1. ~Present(f) /\ x.mtime < n + 1
    BY <1>1, NoFileShape DEF RemovedAt, EntryShape
  <2>2. CASE Tracked(e)
    BY <1>1, <1>5, <2>1, <2>2 DEF RemovedAt, EntryShape
  <2>3. CASE ~Tracked(e)
    BY <1>5, <2>1, <2>3 DEF RemovedAt
  <2>. QED
    BY <2>2, <2>3
<1>17. ASSUME NEW g \in Device \ {d}
       PROVE  \/ CurrentAt(F2[g], E2[g], x)
              \/ BehindAt(F2[g], E2[g], x, del)
              \/ AheadAt(F2, E2, B2, x, del, n2, g)
  <2>1. F2[g] = F[g] /\ E2[g] = E[g] /\ B2[g] = B[g]
    BY DEF Except
  <2>2. \/ CurrentAt(F[g], E[g], x) \/ BehindAt(F[g], E[g], x, del)
        \/ AheadAt(F, E, B, x, del, n, g)
    BY DEF PathOK
  <2>3. ASSUME NEW t \in Int, Leads(F, E, x, g, t), Tracked(x) \/ ~Buried(x)
        PROVE  Leads(F2, E2, x, g, t)
    <3>1. CurrentAt(f, e, x) /\ f.mtime < t /\ e.mtime < t
      BY <2>3 DEF Leads, f, e
    <3>2. e2.mtime < t
      <4>1. CASE Present(f)
        BY <1>7, <3>1, <4>1
      <4>2. CASE ~Present(f)
        BY <1>1, <1>5, <3>1, <4>2 DEF EntryShape, FileShape
      <4>. QED
        BY <4>1, <4>2
    <3>3. CurrentAt(F2[d], E2[d], x) /\ F2[d].mtime < t /\ E2[d].mtime < t
      BY <1>12, <3>1, <3>2 DEF f, e2
    <3>. QED
      BY <2>3, <3>3 DEF Leads, Except
  <2>4. CASE WrittenAt(F[g], E[g], B[g], x, del) /\ Leads(F, E, x, g, F[g].mtime)
    <3>1. F[g].mtime \in Int /\ ~Buried(x)
      BY <1>1, <2>4 DEF FileShape, WrittenAt
    <3>. QED
      BY <2>1, <2>3, <2>4, <3>1 DEF AheadAt
  <2>5. CASE /\ RemovedAt(F[g], E[g], B[g], x)
             /\ Leads(F, E, x, g, IF Tracked(E[g]) THEN n + 1 ELSE E[g].tomb)
    <3>1. Tracked(x) /\ (IF Tracked(E[g]) THEN n + 1 ELSE E[g].tomb) \in Int
      BY <1>1, <2>5 DEF EntryShape, RemovedAt
    <3>2. Leads(F2, E2, x, g, IF Tracked(E[g]) THEN n + 1 ELSE E[g].tomb)
      BY <2>3, <2>5, <3>1
    <3>3. Leads(F2, E2, x, g, IF Tracked(E[g]) THEN n2 + 1 ELSE E[g].tomb)
      <4>1. CASE ~Tracked(E[g])
        BY <3>2, <4>1
      <4>2. CASE Tracked(E[g])
        <5>1. Leads(F2, E2, x, g, n + 1)
          BY <3>2, <4>2
        <5>2. \A h \in Device : /\ F2[h].mtime \in Int /\ E2[h].mtime \in Int
          <6>1. \A h \in Device \ {d} : F2[h].mtime \in Int /\ E2[h].mtime \in Int
            BY <1>1 DEF Except, FileShape, EntryShape
          <6>2. F2[d].mtime \in Int /\ E2[d].mtime \in Int
            BY <1>1, <1>2, <1>9, Shapes DEF f, e2
          <6>. QED
            BY <6>1, <6>2
        <5>3. Leads(F2, E2, x, g, n2 + 1)
          BY <1>1, <5>1, <5>2 DEF Leads
        <5>. QED
          BY <4>2, <5>3
      <4>. QED
        BY <4>1, <4>2
    <3>. QED
      BY <2>1, <2>5, <3>3 DEF AheadAt
  <2>. QED
    BY <2>1, <2>2, <2>4, <2>5 DEF AheadAt
<1>18. \/ CurrentAt(F2[d], E2[d], x)
       \/ BehindAt(F2[d], E2[d], x, del)
       \/ AheadAt(F2, E2, B2, x, del, n2, d)
  BY <1>3, <1>11, <1>12, <1>14, <1>15, <1>16 DEF AheadAt, f, e2
<1>19. EntryOK(x, n2, k) /\ x.tomb # 0
  BY <1>2 DEF PathOK
<1>. QED
  BY <1>1, <1>4, <1>10, <1>17, <1>18, <1>19 DEF PathOK

(* A device that was not up to date becomes so; it may have taken a tick   *)
(* of the clock.                                                           *)
LEMMA PathCatchesUp ==
  ASSUME NEW x, NEW F, NEW E, NEW B, NEW del, NEW n, NEW k, PathOK(x, F, E, B, del, n, k),
         NEW d \in Device, ~CurrentAt(F[d], E[d], x) \/ Buried(x),
         NEW F2, NEW E2, NEW B2, Except(F, E, B, F2, E2, B2, d),
         NEW n2 \in Nat, n <= n2,
         SideOK(F2[d], E2[d], B2[d], n2, k), CurrentAt(F2[d], E2[d], x)
  PROVE  PathOK(x, F2, E2, B2, del, n2, k) /\ Contents(x, F2) \subseteq Contents(x, F) \cup {-1}
<1>1. /\ n \in Nat /\ k \in Nat /\ del \subseteq 1..k /\ EntryOK(x, n, k) /\ x.tomb # 0
  BY DEF PathOK
<1>2. /\ \A y : EntryOK(y, n, k) => EntryOK(y, n2, k)
      /\ \A y : FileOK(y, n, k) => FileOK(y, n2, k)
  BY <1>1 DEF EntryOK, FileOK
<1>3. \A g \in Device : SideOK(F2[g], E2[g], B2[g], n2, k)
  <2>1. \A g \in Device \ {d} : SideOK(F2[g], E2[g], B2[g], n2, k)
    BY <1>2 DEF PathOK, SideOK, Except
  <2>. QED
    BY <2>1
<1>4. ASSUME NEW g \in Device \ {d}
      PROVE  CurrentAt(F2[g], E2[g], x) \/ BehindAt(F2[g], E2[g], x, del)
  <2>1. ~AheadAt(F, E, B, x, del, n, g)
    <3>1. \A t : Leads(F, E, x, g, t) => CurrentAt(F[d], E[d], x)
      BY DEF Leads
    <3>. QED
      BY <3>1 DEF AheadAt, WrittenAt, RemovedAt, Buried
  <2>. QED
    BY <2>1 DEF PathOK, Except
<1>5. PathOK(x, F2, E2, B2, del, n2, k)
  BY <1>1, <1>2, <1>3, <1>4 DEF PathOK
<1>6. F2[d].content = x.hash \/ F2[d].content = -1
  BY NoFileShape DEF CurrentAt
<1>. QED
  BY <1>5, <1>6 DEF Contents, Except

(* A device that has nothing to upload unlocks itself; the server may have *)
(* failed to delete what it has deleted.                                   *)
LEMMA PathUnlock ==
  ASSUME NEW x, NEW F, NEW E, NEW B, NEW del, NEW n, NEW k, PathOK(x, F, E, B, del, n, k),
         NEW d \in Device,
         ~WrittenAt(F[d], E[d], B[d], x, del), NEW F2, NEW E2, NEW B2, Except(F, E, B, F2, E2, B2, d),
         F2[d] = F[d], E2[d] = E[d], ~B2[d]
  PROVE  PathOK(x, F2, E2, B2, del, n, k)
<1>1. \A g \in Device \ {d} : SideOK(F2[g], E2[g], B2[g], n, k)
  BY DEF PathOK, Except
<1>2. SideOK(F2[d], E2[d], B2[d], n, k)
  BY DEF PathOK, SideOK
<1>3. \A g, t : Leads(F, E, x, g, t) => Leads(F2, E2, x, g, t)
  BY DEF Leads, Except
<1>4. \/ CurrentAt(F2[d], E2[d], x)
      \/ BehindAt(F2[d], E2[d], x, del)
      \/ AheadAt(F2, E2, B2, x, del, n, d)
  <2>1. RemovedAt(F[d], E[d], B[d], x) => RemovedAt(F2[d], E2[d], B2[d], x)
    BY DEF RemovedAt
  <2>. QED
    BY <1>3, <2>1 DEF PathOK, AheadAt
<1>5. ASSUME NEW g \in Device \ {d}
      PROVE  \/ CurrentAt(F2[g], E2[g], x)
             \/ BehindAt(F2[g], E2[g], x, del)
             \/ AheadAt(F2, E2, B2, x, del, n, g)
  <2>1. F2[g] = F[g] /\ E2[g] = E[g] /\ B2[g] = B[g]
    BY DEF Except
  <2>2. AheadAt(F, E, B, x, del, n, g) => AheadAt(F2, E2, B2, x, del, n, g)
    BY <1>3, <2>1 DEF AheadAt
  <2>. QED
    BY <2>1, <2>2 DEF PathOK
<1>6. \A g \in Device : SideOK(F2[g], E2[g], B2[g], n, k)
  BY <1>1, <1>2
<1>. QED
  BY <1>4, <1>5, <1>6 DEF PathOK

(* The server commits the file of a device that has written it: the others *)
(* are behind now.                                                         *)
LEMMA PathCommit ==
  ASSUME NEW x, NEW F, NEW E, NEW B, NEW del, NEW n, NEW k, PathOK(x, F, E, B, del, n, k),
         NEW d \in Device, B[d], WrittenAt(F[d], E[d], B[d], x, del)
  PROVE  LET y == RecordFile(x, F[d].mtime, F[d].content)
         IN /\ PathOK(y, F, E, B, del, n, k) /\ Contents(y, F) \subseteq Contents(x, F)
            /\ y.hash = F[d].content
            /\ \A g \in Device \ {d} :
                 CurrentAt(F[g], E[g], x) /\ BehindAt(F[g], E[g], y, del)
<1>. DEFINE y == RecordFile(x, F[d].mtime, F[d].content)
<1>1. /\ n \in Nat /\ k \in Nat /\ del \subseteq 1..k /\ EntryShape(x, n, k)
      /\ EntryOK(x, n, k) /\ FileOK(F[d], n, k)
      /\ \A g \in Device : FileShape(F[g], n, k) /\ EntryShape(E[g], n, k)
  <2>1. /\ n \in Nat /\ k \in Nat /\ EntryShape(x, n, k)
        /\ \A g \in Device : FileShape(F[g], n, k) /\ EntryShape(E[g], n, k)
    BY PathShapes
  <2>. QED
    BY <2>1 DEF PathOK, SideOK
<1>2. x.tomb = NoTime
  BY <1>1 DEF WrittenAt, Buried, EntryShape, NoTime
<1>3. F[d].mtime \in Int /\ F[d].content \in Int /\ F[d].mtime >= 1 /\ F[d].content >= 1
      /\ F[d].mtime <= n /\ F[d].content <= k
  BY <1>1 DEF WrittenAt, FileShape
<1>4. y = [mtime |-> F[d].mtime, hash |-> F[d].content, tomb |-> NoTime]
  BY <1>1, <1>2, <1>3, RecordedFields
<1>. HIDE DEF y
<1>5. /\ Tracked(y) /\ ~Buried(y) /\ y.tomb = -1 /\ EntryOK(y, n, k)
      /\ y.mtime = F[d].mtime /\ y.hash = F[d].content
  BY <1>3, <1>4 DEF Tracked, Buried, EntryOK, NoTime
<1>6. y.hash > x.hash /\ y.hash \notin del
  BY <1>5 DEF WrittenAt
<1>7. \/ CurrentAt(F[d], E[d], x)
      \/ BehindAt(F[d], E[d], x, del)
      \/ AheadAt(F, E, B, x, del, n, d)
  BY DEF PathOK
<1>8. SideOK(F[d], E[d], B[d], n, k)
  BY DEF PathOK
<1>9. Leads(F, E, x, d, F[d].mtime)
  <2>1. ~CurrentAt(F[d], E[d], x)
    BY <1>1, <1>8, CurrentAlone
  <2>2. ~BehindAt(F[d], E[d], x, del)
    BY <1>1, <1>8, BehindAlone
  <2>3. ~RemovedAt(F[d], E[d], B[d], x)
    BY NoFileShape DEF WrittenAt, RemovedAt
  <2>. QED
    BY <1>7, <2>1, <2>2, <2>3 DEF AheadAt
<1>10. CurrentAt(F[d], E[d], y)
  BY <1>5 DEF CurrentAt, WrittenAt
<1>11. ASSUME NEW g \in Device \ {d}
       PROVE  CurrentAt(F[g], E[g], x) /\ BehindAt(F[g], E[g], y, del)
  <2>1. CurrentAt(F[g], E[g], x) /\ F[g].mtime < y.mtime /\ E[g].mtime < y.mtime
    BY <1>5, <1>9 DEF Leads
  <2>2. FileShape(F[g], n, k)
    BY <1>1
  <2>3. CASE Tracked(x)
    <3>1. F[g].content = x.hash /\ E[g].hash = x.hash /\ x.hash >= 1
      BY <1>1, <2>1, <2>3 DEF CurrentAt, EntryShape
    <3>2. Present(F[g]) /\ F[g].content # y.hash
      BY <1>1, <1>3, <1>5, <1>6, <2>2, <3>1 DEF FileShape
    <3>. QED
      BY <1>5, <1>6, <2>1, <3>1, <3>2 DEF BehindAt, OlderAt
  <2>4. CASE ~Tracked(x)
    <3>1. F[g] = NoFile /\ E[g] = Untracked
      BY <2>1, <2>4 DEF CurrentAt, WrittenAt
    <3>. QED
      BY <1>5, <1>6, <2>1, <3>1 DEF BehindAt
  <2>. QED
    BY <2>3, <2>4
<1>12. PathOK(y, F, E, B, del, n, k)
  <2>1. y.tomb # 0
    BY <1>5
  <2>2. \A g \in Device : CurrentAt(F[g], E[g], y) \/ BehindAt(F[g], E[g], y, del)
    BY <1>10, <1>11
  <2>. QED
    BY <1>5, <2>1, <2>2 DEF PathOK
<1>13. Contents(y, F) \subseteq Contents(x, F)
  BY <1>5 DEF Contents
<1>. QED
  BY <1>5, <1>6, <1>11, <1>12, <1>13 DEF y

(* The server deletes the file a device has deleted.                       *)
LEMMA PathRemove ==
  ASSUME NEW x, NEW F, NEW E, NEW B, NEW del, NEW n, NEW k, PathOK(x, F, E, B, del, n, k),
         NEW d \in Device, B[d], RemovedAt(F[d], E[d], B[d], x)
  PROVE  LET y == RecordDeletion(x, E[d].tomb)
         IN /\ PathOK(y, F, E, B, del, n, k) /\ Contents(y, F) \subseteq Contents(x, F) \cup {-1}
            /\ Buried(y) /\ y.hash = NoHash
            /\ \A g \in Device \ {d} :
                 CurrentAt(F[g], E[g], x) /\ BehindAt(F[g], E[g], y, del)
<1>. DEFINE y == RecordDeletion(x, E[d].tomb)
<1>1. /\ n \in Nat /\ k \in Nat /\ del \subseteq 1..k /\ EntryShape(x, n, k) /\ EntryOK(x, n, k)
      /\ \A g \in Device : FileShape(F[g], n, k) /\ EntryShape(E[g], n, k)
  <2>1. /\ n \in Nat /\ k \in Nat /\ EntryShape(x, n, k)
        /\ \A g \in Device : FileShape(F[g], n, k) /\ EntryShape(E[g], n, k)
    BY PathShapes
  <2>. QED
    BY <2>1 DEF PathOK
<1>2. E[d].tomb \in Int /\ E[d].tomb >= 1 /\ E[d].tomb <= n /\ ~Tracked(E[d])
  BY <1>1 DEF RemovedAt, EntryShape
<1>3. y = [mtime |-> NoTime, hash |-> NoHash, tomb |-> E[d].tomb]
  BY DEF RecordDeletion
<1>. HIDE DEF y
<1>4. /\ ~Tracked(y) /\ Buried(y) /\ EntryOK(y, n, k) /\ y.tomb = E[d].tomb
      /\ y.hash = NoHash /\ y.tomb # 0
  BY <1>1, <1>2, <1>3 DEF Tracked, Buried, EntryOK, NoTime
<1>5. \/ CurrentAt(F[d], E[d], x)
      \/ BehindAt(F[d], E[d], x, del)
      \/ AheadAt(F, E, B, x, del, n, d)
  BY DEF PathOK
<1>6. SideOK(F[d], E[d], B[d], n, k)
  BY DEF PathOK
<1>7. Leads(F, E, x, d, E[d].tomb)
  <2>1. ~CurrentAt(F[d], E[d], x)
    BY <1>1, <1>6, CurrentAlone
  <2>2. ~BehindAt(F[d], E[d], x, del)
    BY <1>1, <1>6, BehindAlone
  <2>3. ~WrittenAt(F[d], E[d], B[d], x, del)
    BY NoFileShape DEF WrittenAt, RemovedAt
  <2>. QED
    BY <1>2, <1>5, <2>1, <2>2, <2>3 DEF AheadAt
<1>8. CurrentAt(F[d], E[d], y)
  BY <1>4 DEF CurrentAt, RemovedAt
<1>9. ASSUME NEW g \in Device \ {d}
      PROVE  CurrentAt(F[g], E[g], x) /\ BehindAt(F[g], E[g], y, del)
  <2>1. CurrentAt(F[g], E[g], x) /\ F[g].mtime < y.tomb /\ E[g].mtime < y.tomb
    BY <1>4, <1>7 DEF Leads
  <2>2. F[g].content = x.hash /\ E[g].hash = x.hash /\ x.hash >= 1
    BY <1>1, <2>1 DEF CurrentAt, EntryShape, RemovedAt
  <2>3. Present(F[g])
    BY <1>1, <2>2 DEF FileShape
  <2>. QED
    BY <1>4, <2>1, <2>2, <2>3 DEF BehindAt, OlderAt
<1>10. PathOK(y, F, E, B, del, n, k)
  <2>1. \A g \in Device : CurrentAt(F[g], E[g], y) \/ BehindAt(F[g], E[g], y, del)
    BY <1>8, <1>9
  <2>. QED
    BY <1>4, <2>1 DEF PathOK
<1>11. Contents(y, F) \subseteq Contents(x, F) \cup {-1}
  BY <1>4 DEF Contents, NoHash
<1>. QED
  BY <1>4, <1>9, <1>10, <1>11 DEF y

-----------------------------------------------------------------------------
(* What a negotiation decides                                              *)

(* Entries of which no path is live and deleted look the same to both      *)
(* strategies.                                                             *)
LEMMA Classes ==
  ASSUME NEW n \in Nat, NEW k \in Nat, NEW e, EntryOK(e, n, k), NEW s, EntryOK(s, n, k), NEW d
  PROVE  LET c == ClassifyPath(SideOf(d, e), SideOf(d, s))
         IN /\ ~Tracked(e) /\ ~Tracked(s) => c = "InSync"
            /\ Tracked(e) /\ ~Tracked(s) =>
                 c = IF Buried(s) /\ s.tomb > e.mtime THEN "DeletionWinsRight" ELSE "OnlyInLeft"
            /\ ~Tracked(e) /\ Tracked(s) =>
                 c = IF Buried(e) /\ e.tomb > s.mtime THEN "DeletionWinsLeft" ELSE "OnlyInRight"
            /\ Tracked(e) /\ Tracked(s) =>
                 c = IF e.hash = s.hash THEN "InSync"
                     ELSE IF e.mtime > s.mtime THEN "ModifiedWinsLeft" ELSE "ModifiedWinsRight"
<1>1. ASSUME NEW y, EntryOK(y, n, k)
      PROVE  /\ IsLive(SideOf(d, y)) <=> Tracked(y)
             /\ IsTombstone(SideOf(d, y)) <=> Buried(y)
             /\ Tracked(y) => /\ SideOf(d, y).mtime = y.mtime /\ SideOf(d, y).hash = y.hash
                              /\ SideOf(d, y).isDirectory = FALSE /\ y.hash # NoHash
             /\ Buried(y) => SideOf(d, y).deletedAt = y.tomb
  <2>1. /\ Tracked(y) => SideOf(d, y) = LiveFile(y.mtime, y.hash)
        /\ Tracked(y) => y.mtime # NoTime /\ y.hash # NoHash
        /\ Buried(y) => SideOf(d, y) = Tombstone(y.tomb) /\ y.tomb # NoTime
        /\ ~Tracked(y) /\ ~Buried(y) => SideOf(d, y) = Absent
        /\ Buried(y) => ~Tracked(y)
    BY <1>1 DEF EntryOK, SideOf, Tracked, Buried, NoTime, NoHash
  <2>2. CASE Tracked(y)
    <3>1. SideOf(d, y) = [mtime |-> y.mtime, deletedAt |-> NoTime, isDirectory |-> FALSE,
                          hash |-> y.hash]
      BY <2>1, <2>2 DEF LiveFile, Absent
    <3>. QED
      BY <2>1, <2>2, <3>1 DEF IsLive, IsTombstone
  <2>3. CASE Buried(y)
    <3>1. SideOf(d, y) = [mtime |-> NoTime, deletedAt |-> y.tomb, isDirectory |-> FALSE,
                          hash |-> NoHash]
      BY <2>1, <2>3 DEF Tombstone, Absent
    <3>. QED
      BY <2>1, <2>3, <3>1 DEF IsLive, IsTombstone
  <2>4. CASE ~Tracked(y) /\ ~Buried(y)
    BY <2>1, <2>4 DEF IsLive, IsTombstone, Absent
  <2>. QED
    BY <2>2, <2>3, <2>4
<1>2. /\ IsLive(SideOf(d, e)) <=> Tracked(e)
      /\ IsLive(SideOf(d, s)) <=> Tracked(s)
      /\ Tracked(s) => DeletedAfter(SideOf(d, e), SideOf(d, s)) <=> Buried(e) /\ e.tomb > s.mtime
      /\ Tracked(e) => DeletedAfter(SideOf(d, s), SideOf(d, e)) <=> Buried(s) /\ s.tomb > e.mtime
  BY <1>1 DEF DeletedAfter
<1>3. CASE ~Tracked(e) /\ ~Tracked(s)
  BY <1>2, <1>3 DEF ClassifyPath
<1>4. CASE Tracked(e) /\ ~Tracked(s)
  BY <1>2, <1>4 DEF ClassifyPath
<1>5. CASE ~Tracked(e) /\ Tracked(s)
  BY <1>2, <1>5 DEF ClassifyPath
<1>6. CASE Tracked(e) /\ Tracked(s)
  <2>1. /\ SideOf(d, e).mtime = e.mtime /\ SideOf(d, s).mtime = s.mtime
        /\ SideOf(d, e).hash = e.hash /\ SideOf(d, s).hash = s.hash
        /\ SideOf(d, e).isDirectory = FALSE /\ e.hash # NoHash
    BY <1>1, <1>6
  <2>. QED
    BY <1>2, <1>6, <2>1 DEF ClassifyPath, ClassifyLive, SameContent
<1>. QED
  BY <1>3, <1>4, <1>5, <1>6

(* The decision c is what the device needs, as it stands to the server.    *)
Chosen(c, f, e, b, x, del) ==
  /\ CurrentAt(f, e, x) => c = "InSync"
  /\ BehindAt(f, e, x, del) /\ Tracked(x) => c \in {"OnlyInRight", "ModifiedWinsRight"}
  /\ BehindAt(f, e, x, del) /\ ~Tracked(x) => c = "DeletionWinsRight"
  /\ WrittenAt(f, e, b, x, del) => c \in {"OnlyInLeft", "ModifiedWinsLeft"}
  /\ RemovedAt(f, e, b, x) => c = "DeletionWinsLeft"

(* How a device that has scanned its files stands to the server, so it     *)
(* decides.                                                                *)
LEMMA Decides ==
  ASSUME NEW n \in Nat, NEW k \in Nat, NEW f, NEW e, NEW b, b, SideOK(f, e, b, n, k),
         NEW x, EntryOK(x, n, k), NEW del, NEW d
  PROVE  Chosen(ClassifyPath(SideOf(d, e), SideOf(d, x)), f, e, b, x, del)
<1>. DEFINE c == ClassifyPath(SideOf(d, e), SideOf(d, x))
<1>1. FileShape(f, n, k) /\ EntryShape(e, n, k) /\ EntryOK(e, n, k)
  BY Shapes DEF FileShape, EntryShape, SideOK
<1>2. FileOK(NoFile, n, k)
  BY DEF FileOK
<1>3. EntryShape(x, n, k)
  BY <1>2, Shapes DEF EntryShape
<1>4. /\ ~Tracked(e) /\ ~Tracked(x) => c = "InSync"
      /\ Tracked(e) /\ ~Tracked(x) =>
           c = IF Buried(x) /\ x.tomb > e.mtime THEN "DeletionWinsRight" ELSE "OnlyInLeft"
      /\ ~Tracked(e) /\ Tracked(x) =>
           c = IF Buried(e) /\ e.tomb > x.mtime THEN "DeletionWinsLeft" ELSE "OnlyInRight"
      /\ Tracked(e) /\ Tracked(x) =>
           c = IF e.hash = x.hash THEN "InSync"
               ELSE IF e.mtime > x.mtime THEN "ModifiedWinsLeft" ELSE "ModifiedWinsRight"
  BY <1>1, Classes
<1>5. ~Present(f) => ~Tracked(e)
  BY DEF SideOK
<1>6. Present(f) => Tracked(e) /\ e.hash = f.content
  BY <1>1 DEF SideOK, FileShape, EntryShape
<1>. HIDE DEF c
<1>7. ASSUME CurrentAt(f, e, x) PROVE c = "InSync"
  <2>1. CASE Tracked(x)
    BY <1>1, <1>3, <1>4, <1>7, <2>1 DEF CurrentAt, EntryShape
  <2>2. CASE ~Tracked(x)
    BY <1>4, <1>5, <1>7, <2>2, NoFileShape DEF CurrentAt
  <2>. QED
    BY <2>1, <2>2
<1>8. ASSUME BehindAt(f, e, x, del), Tracked(x)
      PROVE  c \in {"OnlyInRight", "ModifiedWinsRight"}
  <2>1. CASE f = NoFile /\ e = Untracked
    <3>1. ~Tracked(e) /\ ~Buried(e)
      BY <2>1 DEF Untracked, Tracked, Buried
    <3>. QED
      BY <1>4, <1>8, <3>1
  <2>2. CASE f.content # x.hash /\ OlderAt(f, e, x.mtime)
    <3>1. Tracked(e) /\ e.hash # x.hash /\ ~(e.mtime > x.mtime)
      BY <1>1, <1>3, <1>6, <2>2 DEF OlderAt, EntryShape
    <3>. QED
      BY <1>4, <1>8, <3>1
  <2>. QED
    BY <1>8, <2>1, <2>2 DEF BehindAt, Buried
<1>9. ASSUME BehindAt(f, e, x, del), ~Tracked(x)
      PROVE  c = "DeletionWinsRight"
  <2>1. Buried(x) /\ OlderAt(f, e, x.tomb)
    BY <1>9 DEF BehindAt
  <2>2. Tracked(e) /\ x.tomb > e.mtime
    BY <1>1, <1>3, <1>6, <2>1 DEF OlderAt, EntryShape
  <2>. QED
    BY <1>4, <1>9, <2>1, <2>2
<1>10. ASSUME WrittenAt(f, e, b, x, del)
       PROVE  c \in {"OnlyInLeft", "ModifiedWinsLeft"}
  <2>1. /\ Tracked(e) /\ ~Buried(x) /\ e.hash > x.hash /\ e.mtime > x.mtime
    BY <1>6, <1>10 DEF WrittenAt
  <2>2. e.hash # x.hash
    BY <1>1, <1>3, <2>1 DEF EntryShape
  <2>. QED
    BY <1>4, <2>1, <2>2
<1>11. ASSUME RemovedAt(f, e, b, x)
       PROVE  c = "DeletionWinsLeft"
  <2>1. Tracked(x) /\ ~Tracked(e) /\ e.tomb > x.mtime
    BY <1>11 DEF RemovedAt
  <2>2. Buried(e)
    BY <1>1, <1>3, <2>1 DEF Buried, EntryShape, NoTime
  <2>. QED
    BY <1>4, <2>1, <2>2
<1>. QED
  BY <1>7, <1>8, <1>9, <1>10, <1>11 DEF c, Chosen

LEMMA CurrentInSync ==
  ASSUME NEW n \in Nat, NEW k \in Nat, NEW f, NEW e, NEW b, b, SideOK(f, e, b, n, k),
         NEW x, EntryOK(x, n, k), CurrentAt(f, e, x), NEW d
  PROVE  ClassifyPath(SideOf(d, e), SideOf(d, x)) = "InSync"
<1>1. Chosen(ClassifyPath(SideOf(d, e), SideOf(d, x)), f, e, b, x, {})
  BY Decides
<1>. QED
  BY <1>1 DEF Chosen

Stands(f, e, b, x, del) ==
  \/ CurrentAt(f, e, x) \/ BehindAt(f, e, x, del)
  \/ WrittenAt(f, e, b, x, del) \/ RemovedAt(f, e, b, x)

(* Of a path the list says what the server still has, or what the device   *)
(* is in sync with.                                                        *)
ListedAt(s, d, f, e, b, x, del, n, k) ==
  /\ EntryOK(s, n, k)
  /\ \/ s = x
     \/ /\ ~WrittenAt(f, e, b, x, del) /\ ~RemovedAt(f, e, b, x)
        /\ ClassifyPath(SideOf(d, e), SideOf(d, s)) = "InSync"

(* What a device that decides c does with the path.                        *)
Decided(c, s, f, e, b, x, del) ==
  /\ c \in {"OnlyInLeft", "ModifiedWinsLeft"} <=> WrittenAt(f, e, b, x, del)
  /\ c = "DeletionWinsLeft" <=> RemovedAt(f, e, b, x)
  /\ c \in {"OnlyInRight", "ModifiedWinsRight"} => BehindAt(f, e, x, del) /\ Tracked(x)
  /\ c = "DeletionWinsRight" =>
       BehindAt(f, e, x, del) /\ Buried(x) /\ s.tomb = x.tomb /\ Present(f)

LEMMA ListDecides ==
  ASSUME NEW n \in Nat, NEW k \in Nat, NEW f, NEW e, NEW b, b, SideOK(f, e, b, n, k),
         NEW x, EntryOK(x, n, k), NEW del, NEW d, Stands(f, e, b, x, del),
         NEW s, ListedAt(s, d, f, e, b, x, del, n, k)
  PROVE  Decided(ClassifyPath(SideOf(d, e), SideOf(d, s)), s, f, e, b, x, del)
<1>. DEFINE c == ClassifyPath(SideOf(d, e), SideOf(d, s))
<1>1. CASE s = x
  <2>1. Chosen(ClassifyPath(SideOf(d, e), SideOf(d, x)), f, e, b, x, del)
    BY Decides
  <2>2. /\ CurrentAt(f, e, x) => c = "InSync"
        /\ BehindAt(f, e, x, del) /\ Tracked(x) => c \in {"OnlyInRight", "ModifiedWinsRight"}
        /\ BehindAt(f, e, x, del) /\ ~Tracked(x) => c = "DeletionWinsRight"
        /\ WrittenAt(f, e, b, x, del) => c \in {"OnlyInLeft", "ModifiedWinsLeft"}
        /\ RemovedAt(f, e, b, x) => c = "DeletionWinsLeft"
    BY <1>1, <2>1 DEF Chosen
  <2>3. BehindAt(f, e, x, del) /\ ~Tracked(x) => Buried(x) /\ Present(f)
    BY DEF BehindAt, OlderAt
  <2>. HIDE DEF c
  <2>4. /\ c \in {"OnlyInLeft", "ModifiedWinsLeft"} <=> WrittenAt(f, e, b, x, del)
        /\ c = "DeletionWinsLeft" <=> RemovedAt(f, e, b, x)
        /\ c \in {"OnlyInRight", "ModifiedWinsRight"} => BehindAt(f, e, x, del) /\ Tracked(x)
        /\ c = "DeletionWinsRight" => BehindAt(f, e, x, del) /\ Buried(x) /\ Present(f)
    BY <2>2, <2>3 DEF Stands
  <2>. QED
    BY <1>1, <2>4 DEF c, Decided
<1>2. CASE /\ ~WrittenAt(f, e, b, x, del) /\ ~RemovedAt(f, e, b, x)
           /\ ClassifyPath(SideOf(d, e), SideOf(d, s)) = "InSync"
  BY <1>2 DEF Decided
<1>. QED
  BY <1>1, <1>2 DEF ListedAt

-----------------------------------------------------------------------------
(* Messages                                                                *)

(* A message of a path means what the device and the server have; meta and *)
(* saved are what the server has kept of an upload.                        *)
PathMsgAt(m, f, e, b, x, del, saved, meta) ==
  /\ m.type \in {"uploadRequest", "uploadSize", "chunk"} => WrittenAt(f, e, b, x, del)
  /\ m.type = "uploadRequest" => m.size = 1 /\ m.mtime = f.mtime /\ m.hash = f.content
  /\ m.type \in {"uploadSize", "chunk"} =>
       saved /\ meta = [mtime |-> f.mtime, hash |-> f.content]
  /\ m.type = "uploadSize" => m.chunks = 1
  /\ m.type = "chunk" => m.content = f.content
  /\ m.type \in {"downloadRequest", "download"} => Tracked(x) /\ BehindAt(f, e, x, del)
  /\ m.type = "download" => m.mtime = x.mtime /\ m.hash = x.hash /\ m.content = x.hash
  /\ m.type = "deleteRequest" => RemovedAt(f, e, b, x) /\ m.time = e.tomb
  /\ m.type = "deleteAnswer" => (m.done => Buried(x)) /\ f = NoFile /\ ~Tracked(e)

(* A device that is up to date waits for nothing of the path but the       *)
(* acknowledgement of its upload or delete.                                *)
LEMMA CurrentAwaits ==
  ASSUME NEW f, NEW e, NEW b, NEW n \in Nat, NEW k \in Nat, SideOK(f, e, b, n, k),
         NEW x, EntryOK(x, n, k), CurrentAt(f, e, x),
         NEW m, NEW del, NEW saved, NEW meta, PathMsgAt(m, f, e, b, x, del, saved, meta)
  PROVE  /\ \A del2 : PathMsgAt(m, f, e, b, x, del2, saved, meta)
         /\ ~Buried(x) => \A y, saved2 : PathMsgAt(m, f, e, b, y, del, saved2, meta)
<1>1. ~BehindAt(f, e, x, del) /\ ~WrittenAt(f, e, b, x, del) /\ ~RemovedAt(f, e, b, x)
  BY CurrentAlone
<1>2. m.type \notin {"uploadRequest", "uploadSize", "chunk", "downloadRequest", "download",
                     "deleteRequest"}
  BY <1>1 DEF PathMsgAt
<1>3. m.type = "deleteAnswer" => (m.done => Buried(x)) /\ f = NoFile /\ ~Tracked(e)
  BY DEF PathMsgAt
<1>. QED
  BY <1>2, <1>3 DEF PathMsgAt

LEMMA PathMsgStays ==
  ASSUME NEW m, NEW f, NEW e, NEW b, NEW x, NEW del, NEW saved, NEW meta,
         PathMsgAt(m, f, e, b, x, del, saved, meta),
         NEW del2, f.content \in del2 => f.content \in del, x.hash \in del2 => x.hash \in del,
         NEW saved2, saved => saved2
  PROVE  PathMsgAt(m, f, e, b, x, del2, saved2, meta)
<1>1. WrittenAt(f, e, b, x, del) => WrittenAt(f, e, b, x, del2)
  BY DEF WrittenAt
<1>2. BehindAt(f, e, x, del) => BehindAt(f, e, x, del2)
  BY DEF BehindAt
<1>. QED
  BY <1>1, <1>2 DEF PathMsgAt

LEMMA ListedStays ==
  ASSUME NEW s, NEW d, NEW f, NEW e, NEW b, NEW x, NEW del, NEW n \in Nat, NEW k \in Nat,
         ListedAt(s, d, f, e, b, x, del, n, k),
         NEW del2, del \subseteq del2, NEW n2 \in Nat, n <= n2, NEW k2 \in Nat, k <= k2
  PROVE  ListedAt(s, d, f, e, b, x, del2, n2, k2)
<1>1. EntryOK(s, n, k) => EntryOK(s, n2, k2)
  BY DEF EntryOK
<1>2. WrittenAt(f, e, b, x, del2) => WrittenAt(f, e, b, x, del)
  BY DEF WrittenAt
<1>. QED
  BY <1>1, <1>2 DEF ListedAt

(* What a device was in sync with, it still takes for that when the server *)
(* goes on.                                                                *)
LEMMA ListedAges ==
  ASSUME NEW n \in Nat, NEW k \in Nat, NEW f, NEW e, NEW b, b, SideOK(f, e, b, n, k),
         NEW x, EntryOK(x, n, k), NEW y, EntryOK(y, n, k), NEW del,
         CurrentAt(f, e, x), BehindAt(f, e, y, del),
         NEW s, NEW d, ListedAt(s, d, f, e, b, x, del, n, k)
  PROVE  ListedAt(s, d, f, e, b, y, del, n, k)
<1>1. ~WrittenAt(f, e, b, y, del) /\ ~RemovedAt(f, e, b, y)
  BY BehindAlone
<1>2. ClassifyPath(SideOf(d, e), SideOf(d, x)) = "InSync"
  BY CurrentInSync
<1>. QED
  BY <1>1, <1>2 DEF ListedAt

(* What is on a connection, in either direction.                           *)
Sent(q, r) == {q[i] : i \in DOMAIN q} \cup {r[i] : i \in DOMAIN r}

LEMMA SentTaken ==
  ASSUME NEW S, NEW q \in Seq(S), q # << >>, NEW r
  PROVE  Sent(q, r) = {Head(q)} \cup Sent(Tail(q), r)
<1>1. /\ Head(q) = q[1] /\ 1 \in DOMAIN q
      /\ \A i \in DOMAIN Tail(q) : i + 1 \in DOMAIN q /\ Tail(q)[i] = q[i + 1]
      /\ \A i \in DOMAIN q : i = 1 \/ (i - 1 \in DOMAIN Tail(q) /\ Tail(q)[i - 1] = q[i])
  OBVIOUS
<1>2. {q[i] : i \in DOMAIN q} = {Head(q)} \cup {Tail(q)[i] : i \in DOMAIN Tail(q)}
  <2>1. ASSUME NEW i \in DOMAIN q
        PROVE  q[i] \in {Head(q)} \cup {Tail(q)[j] : j \in DOMAIN Tail(q)}
    BY <1>1
  <2>2. ASSUME NEW i \in DOMAIN Tail(q)
        PROVE  Tail(q)[i] \in {q[j] : j \in DOMAIN q}
    BY <1>1
  <2>3. Head(q) \in {q[j] : j \in DOMAIN q}
    BY <1>1
  <2>. QED
    BY <2>1, <2>2, <2>3, Zenon
<1>. QED
  BY <1>2 DEF Sent

LEMMA SentAnswered ==
  ASSUME NEW S, NEW r \in Seq(S), NEW x \in S, NEW q
  PROVE  Sent(q, Append(r, x)) = Sent(q, r) \cup {x}
<1>1. /\ Len(r) + 1 \in DOMAIN Append(r, x) /\ Append(r, x)[Len(r) + 1] = x
      /\ \A i \in DOMAIN r : i \in DOMAIN Append(r, x) /\ Append(r, x)[i] = r[i]
      /\ \A i \in DOMAIN Append(r, x) : i \in DOMAIN r \/ Append(r, x)[i] = x
  OBVIOUS
<1>. QED
  BY <1>1 DEF Sent

LEMMA SentSwaps == \A q, r : Sent(q, r) = Sent(r, q)
BY DEF Sent

(* Of the path of a message that is taken there is no other.               *)
LEMMA SentApart ==
  ASSUME NEW S, NEW q \in Seq(S), q # << >>, NEW T, NEW r \in Seq(T), Apart(q, r)
  PROVE  \A m \in Sent(Tail(q), r) : m.path # Head(q).path
BY TakeApart DEF Sent

LEMMA SentNothing == Sent(<< >>, << >>) = {}
BY DEF Sent

-----------------------------------------------------------------------------
(* The invariant                                                           *)

Files(p)   == [d \in Device |-> fs[d][p]]
Entries(p) == [d \in Device |-> db[d][p]]

PathInv(p) ==
  /\ PathOK(index[p], Files(p), Entries(p), busy, deleted, now, edits)
  /\ store[p] = index[p].hash

(* No version is one of two paths, so what is deleted is deleted of one.   *)
Versions(p) == Contents(index[p], Files(p))

Disjoint == \A p, q \in Path : p # q => Versions(p) \cap Versions(q) \subseteq {-1}

Flying(d) == Sent(toServer[d], toDevice[d])

Listed(d, entries) ==
  \A p \in Path : ListedAt(entries[p], d, fs[d][p], db[d][p], busy[d], index[p], deleted, now, edits)

PathMsg(d, m) ==
  PathMsgAt(m, fs[d][m.path], db[d][m.path], busy[d], index[m.path], deleted,
            m.path \in saving, uploadMeta[d][m.path])

MsgOK(d, m) ==
  /\ m.type = "list" => Listed(d, m.entries)
  /\ m.type \notin {"list", "listRequest"} => m.path \in Path /\ PathMsg(d, m)

Newer(d, p) == WrittenAt(fs[d][p], db[d][p], busy[d], index[p], deleted)

PendingTypes == {"uploadRequest", "uploadSize", "chunk", "deleteRequest"}

Pending(d, p) == \E m \in Flying(d) : m.type \in PendingTypes /\ m.path = p

(* What a busy device has written, it is about to find out or to report.   *)
(* Not so what it has deleted: when the server fails to delete it, nothing *)
(* is under way until the next tick.                                       *)
Owes(d) == busy[d] => Listing(d) \/ \A p \in Path : Newer(d, p) => Pending(d, p)

DeviceInv(d) == Accounted(d) /\ (\A m \in Flying(d) : MsgOK(d, m)) /\ Owes(d)

SInv ==
  /\ now \in Nat /\ edits \in Nat
  /\ SyncOK /\ NothingFails /\ Disjoint
  /\ \A p \in Path : PathInv(p)
  /\ \A d \in Device : DeviceInv(d)

(* What the invariant says of a device and a path.                         *)
LEMMA AtPath ==
  ASSUME NEW p \in Path, PathInv(p), NEW d \in Device
  PROVE  /\ now \in Nat /\ edits \in Nat /\ deleted \subseteq 1..edits
         /\ EntryOK(index[p], now, edits) /\ EntryShape(index[p], now, edits)
         /\ index[p].tomb # 0 /\ store[p] = index[p].hash
         /\ SideOK(fs[d][p], db[d][p], busy[d], now, edits)
         /\ FileShape(fs[d][p], now, edits) /\ EntryShape(db[d][p], now, edits)
         /\ Stands(fs[d][p], db[d][p], busy[d], index[p], deleted)
<1>1. Files(p)[d] = fs[d][p] /\ Entries(p)[d] = db[d][p]
  BY DEF Files, Entries
<1>2. PathOK(index[p], Files(p), Entries(p), busy, deleted, now, edits)
  BY DEF PathInv
<1>3. /\ now \in Nat /\ edits \in Nat /\ EntryShape(index[p], now, edits)
      /\ FileShape(fs[d][p], now, edits) /\ EntryShape(db[d][p], now, edits)
  BY <1>1, <1>2, PathShapes
<1>4. /\ deleted \subseteq 1..edits /\ EntryOK(index[p], now, edits) /\ index[p].tomb # 0
      /\ SideOK(fs[d][p], db[d][p], busy[d], now, edits)
      /\ Stands(fs[d][p], db[d][p], busy[d], index[p], deleted)
  BY <1>1, <1>2 DEF PathOK, AheadAt, Stands
<1>. QED
  BY <1>3, <1>4 DEF PathInv

LEMMA VersionsBound ==
  ASSUME NEW p \in Path, PathInv(p)
  PROVE  \A v \in Versions(p) : v \in Int /\ v <= edits /\ edits \in Nat
<1>1. PathOK(index[p], Files(p), Entries(p), busy, deleted, now, edits)
  BY DEF PathInv
<1>2. /\ edits \in Nat /\ EntryShape(index[p], now, edits)
      /\ \A g \in Device : FileShape(Files(p)[g], now, edits)
  BY <1>1, PathShapes
<1>. QED
  BY <1>2 DEF Versions, Contents, EntryShape, FileShape

(* An idle device has nothing on its connection.                           *)
LEMMA IdleFlies ==
  ASSUME NEW d \in Device, DeviceInv(d), ~busy[d]
  PROVE  Flying(d) = {} /\ toServer[d] = << >> /\ toDevice[d] = << >>
BY SentNothing DEF DeviceInv, Accounted, Drained, Flying

(* A device that has no part in a step.                                    *)
LEMMA QuietDevice ==
  ASSUME NEW d \in Device, DeviceInv(d), Same(d),
         \A m \in Flying(d) : MsgOK(d, m)',
         busy[d] => \A p \in Path : Newer(d, p)' => Newer(d, p)
  PROVE  DeviceInv(d)'
<1>1. Accounted(d)'
  BY SameAccounts DEF DeviceInv
<1>2. Flying(d)' = Flying(d) /\ busy'[d] = busy[d]
  BY DEF Same, Flying
<1>3. Listing(d)' <=> Listing(d)
  BY DEF Same, Listing
<1>4. \A p \in Path : Pending(d, p)' <=> Pending(d, p)
  BY <1>2 DEF Pending
<1>5. Owes(d)'
  BY <1>2, <1>3, <1>4 DEF DeviceInv, Owes
<1>. QED
  BY <1>1, <1>2, <1>5 DEF DeviceInv

(* What is said of the files, the entries and the server stays said of     *)
(* another device and the messages on its connection.                      *)
LEMMA UntouchedDevice ==
  ASSUME NetOK, NEW d \in Device, DeviceInv(d), Same(d), now \in Nat, edits \in Nat,
         now' \in Nat, now <= now', edits' = edits, deleted' = deleted,
         index' = index, \A p \in Path : p \in saving => p \in saving',
         fs'[d] = fs[d], db'[d] = db[d], uploadMeta'[d] = uploadMeta[d]
  PROVE  DeviceInv(d)'
<1>1. busy'[d] = busy[d]
  BY DEF Same
<1>2. \A p \in Path : Newer(d, p)' => Newer(d, p)
  BY <1>1 DEF Newer
<1>3. ASSUME NEW m \in Flying(d)
      PROVE  MsgOK(d, m)'
  <2>1. MsgOK(d, m)
    BY DEF DeviceInv
  <2>2. ASSUME Listed(d, m.entries)
        PROVE  Listed(d, m.entries)'
    <3>. SUFFICES ASSUME NEW p \in Path
                  PROVE  ListedAt(m.entries[p], d, fs'[d][p], db'[d][p], busy'[d], index'[p],
                                  deleted', now', edits')
      BY DEF Listed
    <3>1. ListedAt(m.entries[p], d, fs[d][p], db[d][p], busy[d], index[p], deleted, now, edits)
      BY <2>2 DEF Listed
    <3>2. ListedAt(m.entries[p], d, fs[d][p], db[d][p], busy[d], index[p], deleted, now', edits)
      BY <3>1, ListedStays
    <3>. QED
      BY <1>1, <3>2
  <2>3. ASSUME m.path \in Path, PathMsg(d, m)
        PROVE  PathMsg(d, m)'
    <3>1. PathMsgAt(m, fs[d][m.path], db[d][m.path], busy[d], index[m.path], deleted,
                    m.path \in saving', uploadMeta[d][m.path])
      BY <2>3, PathMsgStays DEF PathMsg
    <3>. QED
      BY <1>1, <3>1 DEF PathMsg
  <2>. QED
    BY <2>1, <2>2, <2>3 DEF MsgOK
<1>. QED
  BY <1>2, <1>3, QuietDevice

LEMMA DisjointStays ==
  ASSUME Disjoint, \A p \in Path : Versions(p)' \subseteq Versions(p) \cup {-1}
  PROVE  Disjoint'
BY DEF Disjoint

-----------------------------------------------------------------------------
(* The user                                                                *)

(* A device that was up to date, or none of whose versions was deleted,    *)
(* while another was edited.                                               *)
LEMMA EditedElsewhere ==
  ASSUME NEW d \in Device, DeviceInv(d), Same(d), \A p \in Path : PathInv(p),
         now \in Nat, edits \in Nat,
         now' = now + 1, edits' = edits + 1, deleted \subseteq deleted',
         UNCHANGED serverVars, fs'[d] = fs[d], db'[d] = db[d],
         \A p \in Path : \/ CurrentAt(fs[d][p], db[d][p], index[p])
                         \/ /\ fs[d][p].content \in deleted' => fs[d][p].content \in deleted
                            /\ index[p].hash \in deleted' => index[p].hash \in deleted
  PROVE  DeviceInv(d)'
<1>1. busy'[d] = busy[d] /\ index' = index /\ saving' = saving /\ uploadMeta' = uploadMeta
  BY DEF Same, serverVars
<1>2. \A p \in Path : Newer(d, p)' => Newer(d, p)
  BY <1>1 DEF Newer, WrittenAt
<1>3. ASSUME NEW m \in Flying(d)
      PROVE  MsgOK(d, m)'
  <2>1. MsgOK(d, m)
    BY DEF DeviceInv
  <2>2. ASSUME Listed(d, m.entries)
        PROVE  Listed(d, m.entries)'
    <3>. SUFFICES ASSUME NEW p \in Path
                  PROVE  ListedAt(m.entries[p], d, fs'[d][p], db'[d][p], busy'[d], index'[p],
                                  deleted', now', edits')
      BY DEF Listed
    <3>1. ListedAt(m.entries[p], d, fs[d][p], db[d][p], busy[d], index[p], deleted, now, edits)
      BY <2>2 DEF Listed
    <3>2. now + 1 \in Nat /\ edits + 1 \in Nat /\ now <= now + 1 /\ edits <= edits + 1
      OBVIOUS
    <3>3. ListedAt(m.entries[p], d, fs[d][p], db[d][p], busy[d], index[p], deleted',
                   now + 1, edits + 1)
      BY <3>1, <3>2, ListedStays
    <3>. QED
      BY <1>1, <3>3
  <2>3. ASSUME m.path \in Path, PathMsg(d, m)
        PROVE  PathMsg(d, m)'
    <3>1. PathMsgAt(m, fs[d][m.path], db[d][m.path], busy[d], index[m.path], deleted,
                    m.path \in saving, uploadMeta[d][m.path])
      BY <2>3 DEF PathMsg
    <3>2. PathMsgAt(m, fs[d][m.path], db[d][m.path], busy[d], index[m.path], deleted',
                    m.path \in saving, uploadMeta[d][m.path])
      <4>1. CASE CurrentAt(fs[d][m.path], db[d][m.path], index[m.path])
        BY <2>3, <3>1, <4>1, AtPath, CurrentAwaits
      <4>2. CASE /\ fs[d][m.path].content \in deleted' => fs[d][m.path].content \in deleted
                 /\ index[m.path].hash \in deleted' => index[m.path].hash \in deleted
        BY <3>1, <4>2, PathMsgStays
      <4>. QED
        BY <2>3, <4>1, <4>2
    <3>. QED
      BY <1>1, <3>2 DEF PathMsg
  <2>. QED
    BY <2>1, <2>2, <2>3 DEF MsgOK
<1>. QED
  BY <1>2, <1>3, QuietDevice

(* What the edit found: an idle device, and the others as the server is.   *)
LEMMA EditStarts ==
  ASSUME IInv, SInv, EditsWhenSettled, NEW d \in Device, NEW p \in Path, MayEdit(d, p)
  PROVE  /\ ~busy[d]
         /\ \A g \in Device \ {d} : /\ fs[g][p].content = index[p].hash
                                    /\ CurrentAt(fs[g][p], db[g][p], index[p])
<1>1. ~busy[d] /\ OthersAgree(d, p)
  BY DEF MayEdit
<1>2. PathInv(p)
  BY DEF SInv
<1>3. Served(p) = index[p].hash
  BY <1>2, AtPath DEF Served, EntryShape, Gone
<1>4. ASSUME NEW g \in Device \ {d}
      PROVE  /\ fs[g][p].content = index[p].hash
             /\ CurrentAt(fs[g][p], db[g][p], index[p])
  <2>1. Files(p)[g] = fs[g][p] /\ Entries(p)[g] = db[g][p]
    BY DEF Files, Entries
  <2>2. fs[g][p].content = index[p].hash
    BY <1>1, <1>3 DEF OthersAgree
  <2>3. CurrentAt(Files(p)[g], Entries(p)[g], index[p])
    BY <1>2, <2>1, <2>2, AgreeingIsCurrent DEF PathInv
  <2>. QED
    BY <2>1, <2>2, <2>3
<1>. QED
  BY <1>1, <1>4

LEMMA WriteSettled ==
  ASSUME IInv, SInv, EditsWhenSettled, ~Recreate, NEW d \in Device, NEW p \in Path, Write(d, p)
  PROVE  SInv'
<1>1. /\ MayEdit(d, p) /\ NeverDeleted(p) /\ now' = now + 1 /\ edits' = edits + 1
      /\ fs' = [fs EXCEPT ![d][p] = [content |-> edits + 1, mtime |-> now + 1]]
      /\ UNCHANGED <<deleted, db, serverVars, netVars, failure>>
      /\ UNCHANGED <<busy, pendingMessages, outstandingTransfers, uploading, downloading>>
  BY DEF Write, syncVars
<1>2. /\ fs \in [Device -> [Path -> FileState]] /\ NetOK
      /\ index' = index /\ store' = store /\ db' = db /\ busy' = busy /\ deleted' = deleted
  BY <1>1 DEF IInv, DevicesOK, serverVars
<1>3. /\ ~busy[d]
      /\ \A g \in Device \ {d} : /\ fs[g][p].content = index[p].hash
                                 /\ CurrentAt(fs[g][p], db[g][p], index[p])
  BY <1>1, EditStarts
<1>4. /\ fs'[d][p] = [content |-> edits + 1, mtime |-> now + 1]
      /\ \A q \in Path \ {p} : fs'[d][q] = fs[d][q]
      /\ \A g \in Device \ {d} : fs'[g] = fs[g]
  BY <1>1, <1>2
<1>5. now \in Nat /\ edits \in Nat /\ now' \in Nat /\ edits' \in Nat /\ deleted \subseteq 1..edits
  BY <1>1, AtPath DEF SInv
<1>6. PathInv(p)' /\ Versions(p)' \subseteq Versions(p) \cup {edits + 1}
  <2>1. PathOK(index[p], Files(p), Entries(p), busy, deleted, now, edits)
    BY DEF SInv, PathInv
  <2>2. /\ \A g \in Device : Files(p)[g] = fs[g][p] /\ Entries(p)[g] = db[g][p]
        /\ \A g \in Device : Files(p)'[g] = fs'[g][p] /\ Entries(p)'[g] = db[g][p]
    BY <1>2 DEF Files, Entries
  <2>3. index[p].tomb = NoTime /\ \A g \in Device : Entries(p)[g].tomb = NoTime
    BY <1>1, <2>2 DEF NeverDeleted
  <2>4. Except(Files(p), Entries(p), busy, Files(p)', Entries(p)', busy, d)
    BY <1>4, <2>2 DEF Except
  <2>5. /\ Files(p)'[d] = [content |-> edits + 1, mtime |-> now + 1]
        /\ Entries(p)'[d] = Entries(p)[d]
        /\ \A g \in Device \ {d} : Files(p)[g].content = index[p].hash
    BY <1>3, <1>4, <2>2
  <2>6. /\ PathOK(index[p], Files(p)', Entries(p)', busy, deleted, now + 1, edits + 1)
        /\ Contents(index[p], Files(p)') \subseteq Contents(index[p], Files(p)) \cup {edits + 1}
    BY <1>3, <2>1, <2>3, <2>4, <2>5, PathWrite
  <2>. QED
    BY <1>1, <1>2, <2>6 DEF SInv, PathInv, Versions
<1>7. ASSUME NEW q \in Path \ {p}
      PROVE  PathInv(q)' /\ Versions(q)' = Versions(q)
  <2>1. PathOK(index[q], Files(q), Entries(q), busy, deleted, now, edits)
    BY DEF SInv, PathInv
  <2>2. \A g \in Device : Files(q)'[g] = Files(q)[g] /\ Entries(q)'[g] = Entries(q)[g]
    BY <1>2, <1>4 DEF Files, Entries
  <2>3. now + 1 \in Nat /\ edits + 1 \in Nat /\ now <= now + 1 /\ edits <= edits + 1
    BY <1>5
  <2>4. deleted \in SUBSET (1..(edits + 1))
    BY <1>5
  <2>5. PathOK(index[q], Files(q)', Entries(q)', busy, deleted, now + 1, edits + 1)
    BY <2>1, <2>2, <2>3, <2>4, PathStays
  <2>6. Contents(index[q], Files(q)') = Contents(index[q], Files(q))
    BY <2>2 DEF Contents
  <2>. QED
    BY <1>1, <1>2, <2>5, <2>6 DEF SInv, PathInv, Versions
<1>8. Disjoint'
  <2>1. \A q \in Path : edits + 1 \notin Versions(q)
    BY <1>5, VersionsBound DEF SInv
  <2>. QED
    BY <1>6, <1>7, <2>1 DEF SInv, Disjoint
<1>9. \A g \in Device : Same(g)
  BY <1>1 DEF Same, netVars
<1>10. ASSUME NEW g \in Device \ {d}
       PROVE  DeviceInv(g)'
  BY <1>1, <1>2, <1>4, <1>5, <1>9, EditedElsewhere DEF SInv
<1>11. DeviceInv(d)'
  BY <1>3, <1>9, IdleFlies, QuietDevice DEF SInv
<1>12. SyncOK' /\ NothingFails' /\ now' \in Nat /\ edits' \in Nat
  BY <1>1 DEF SInv, SyncOK, NothingFails, Running
<1>. QED
  BY <1>6, <1>7, <1>8, <1>10, <1>11, <1>12 DEF SInv

LEMMA DeleteSettled ==
  ASSUME IInv, SInv, EditsWhenSettled, NEW d \in Device, NEW p \in Path, Delete(d, p)
  PROVE  SInv'
<1>1. /\ MayEdit(d, p) /\ now' = now + 1 /\ edits' = edits + 1
      /\ Present(fs[d][p])
      /\ deleted' = deleted \cup {fs[d][p].content}
      /\ fs' = [fs EXCEPT ![d][p] = NoFile]
      /\ UNCHANGED <<db, serverVars, netVars, failure>>
      /\ UNCHANGED <<busy, pendingMessages, outstandingTransfers, uploading, downloading>>
  BY DEF Delete, syncVars, Present
<1>2. /\ fs \in [Device -> [Path -> FileState]] /\ NetOK
      /\ index' = index /\ store' = store /\ db' = db /\ busy' = busy
  BY <1>1 DEF IInv, DevicesOK, serverVars
<1>3. /\ ~busy[d]
      /\ \A g \in Device \ {d} : /\ fs[g][p].content = index[p].hash
                                 /\ CurrentAt(fs[g][p], db[g][p], index[p])
  BY <1>1, EditStarts
<1>4. /\ fs'[d][p] = NoFile
      /\ \A q \in Path \ {p} : fs'[d][q] = fs[d][q]
      /\ \A g \in Device \ {d} : fs'[g] = fs[g]
  BY <1>1, <1>2
<1>5. /\ now \in Nat /\ edits \in Nat /\ now' \in Nat /\ edits' \in Nat
      /\ fs[d][p].content \in 1..edits /\ deleted \subseteq 1..edits
  BY <1>1, AtPath DEF SInv, FileShape
<1>6. PathInv(p)' /\ Versions(p)' \subseteq Versions(p) \cup {-1}
  <2>1. PathOK(index[p], Files(p), Entries(p), busy, deleted, now, edits)
    BY DEF SInv, PathInv
  <2>2. /\ \A g \in Device : Files(p)[g] = fs[g][p] /\ Entries(p)[g] = db[g][p]
        /\ \A g \in Device : Files(p)'[g] = fs'[g][p] /\ Entries(p)'[g] = db[g][p]
    BY <1>2 DEF Files, Entries
  <2>3. Except(Files(p), Entries(p), busy, Files(p)', Entries(p)', busy, d)
    BY <1>4, <2>2 DEF Except
  <2>4. /\ Files(p)'[d] = NoFile /\ Entries(p)'[d] = Entries(p)[d] /\ Present(Files(p)[d])
        /\ \A g \in Device \ {d} : Files(p)[g].content = index[p].hash
    BY <1>1, <1>3, <1>4, <2>2
  <2>5. /\ PathOK(index[p], Files(p)', Entries(p)', busy, deleted \cup {Files(p)[d].content},
                  now + 1, edits + 1)
        /\ Contents(index[p], Files(p)') \subseteq Contents(index[p], Files(p)) \cup {-1}
    BY <1>3, <2>1, <2>3, <2>4, PathDelete
  <2>6. deleted' = deleted \cup {Files(p)[d].content}
    BY <1>1, <2>2
  <2>. QED
    BY <1>1, <1>2, <2>5, <2>6 DEF SInv, PathInv, Versions
<1>7. ASSUME NEW q \in Path \ {p}
      PROVE  /\ PathInv(q)' /\ Versions(q)' = Versions(q)
             /\ \A c \in Versions(q) : c \in deleted' => c \in deleted
  <2>1. PathOK(index[q], Files(q), Entries(q), busy, deleted, now, edits)
    BY DEF SInv, PathInv
  <2>2. \A g \in Device : Files(q)'[g] = Files(q)[g] /\ Entries(q)'[g] = Entries(q)[g]
    BY <1>2, <1>4 DEF Files, Entries
  <2>3. now + 1 \in Nat /\ edits + 1 \in Nat /\ now <= now + 1 /\ edits <= edits + 1
    BY <1>5
  <2>4. deleted' \in SUBSET (1..(edits + 1))
    BY <1>1, <1>5
  <2>5. \A c \in Versions(q) : c \in deleted' => c \in deleted
    <3>1. fs[d][p].content \in Versions(p)
      BY DEF Versions, Contents, Files
    <3>2. fs[d][p].content \notin Versions(q)
      BY <1>5, <3>1 DEF SInv, Disjoint
    <3>. QED
      BY <1>1, <3>2
  <2>6. PathOK(index[q], Files(q)', Entries(q)', busy, deleted', now + 1, edits + 1)
    BY <2>1, <2>2, <2>3, <2>4, <2>5, PathStays DEF Versions
  <2>7. Contents(index[q], Files(q)') = Contents(index[q], Files(q))
    BY <2>2 DEF Contents
  <2>. QED
    BY <1>1, <1>2, <2>5, <2>6, <2>7 DEF SInv, PathInv, Versions
<1>8. Disjoint'
  <2>1. \A q \in Path : Versions(q)' \subseteq Versions(q) \cup {-1}
    BY <1>6, <1>7
  <2>. QED
    BY <2>1, DisjointStays DEF SInv
<1>9. \A g \in Device : Same(g)
  BY <1>1 DEF Same, netVars
<1>10. ASSUME NEW g \in Device \ {d}
       PROVE  DeviceInv(g)'
  <2>1. ASSUME NEW q \in Path
        PROVE  \/ CurrentAt(fs[g][q], db[g][q], index[q])
               \/ /\ fs[g][q].content \in deleted' => fs[g][q].content \in deleted
                  /\ index[q].hash \in deleted' => index[q].hash \in deleted
    <3>1. fs[g][q].content \in Versions(q) /\ index[q].hash \in Versions(q)
      BY DEF Versions, Contents, Files
    <3>. QED
      BY <1>3, <1>7, <3>1
  <2>2. deleted \subseteq deleted' /\ fs'[g] = fs[g] /\ db'[g] = db[g]
    BY <1>1, <1>2, <1>4
  <2>. QED
    BY <1>1, <1>5, <1>9, <2>1, <2>2, EditedElsewhere DEF SInv
<1>11. DeviceInv(d)'
  BY <1>3, <1>9, IdleFlies, QuietDevice DEF SInv
<1>12. SyncOK' /\ NothingFails' /\ now' \in Nat /\ edits' \in Nat
  BY <1>1 DEF SInv, SyncOK, NothingFails, Running
<1>. QED
  BY <1>6, <1>7, <1>8, <1>10, <1>11, <1>12 DEF SInv

-----------------------------------------------------------------------------
(* The tick                                                                *)

LEMMA ScannedIs ==
  ASSUME NEW d \in Device, NEW p \in Path
  PROVE  Scanned(d)[p] = ScannedAt(fs[d][p], db[d][p], now)
BY DEF Scanned, ScannedAt, MissingOnDisk

LEMMA TickSettled ==
  ASSUME IInv, SInv, NEW d \in Device, Tick(d), NetOK'
  PROVE  SInv'
<1>1. /\ ~busy[d] /\ busy' = [busy EXCEPT ![d] = TRUE]
      /\ db' = [db EXCEPT ![d] = Scanned(d)]
      /\ now' = IF \E p \in MissingOnDisk(d) : db[d][p].tomb = NoTime THEN now + 1 ELSE now
      /\ toServer' = [toServer EXCEPT ![d] = Append(@, [type |-> "listRequest"])]
      /\ UNCHANGED <<edits, deleted, fs, store, index, saving, uploadMeta, toDevice, failure>>
  BY DEF Tick, TickStarts, ScanAndApply, serverVars
<1>2. /\ fs \in [Device -> [Path -> FileState]] /\ db \in [Device -> [Path -> Entry]] /\ NetOK
      /\ DevicesOK /\ busy \in [Device -> BOOLEAN] /\ SyncOK
  BY DEF IInv, DevicesOK, SInv, SyncOK
<1>3. /\ busy'[d] /\ \A g \in Device \ {d} : busy'[g] = busy[g]
      /\ \A p \in Path : db'[d][p] = ScannedAt(fs[d][p], db[d][p], now)
      /\ \A g \in Device \ {d} : db'[g] = db[g]
  BY <1>1, <1>2, ScannedIs
<1>4. ASSUME NEW p \in Path
      PROVE  PathInv(p)' /\ Versions(p)' = Versions(p)
  <2>1. PathOK(index[p], Files(p), Entries(p), busy, deleted, now, edits)
    BY DEF SInv, PathInv
  <2>2. /\ \A g \in Device : Files(p)[g] = fs[g][p] /\ Entries(p)[g] = db[g][p]
        /\ \A g \in Device : Files(p)'[g] = fs[g][p] /\ Entries(p)'[g] = db'[g][p]
    BY <1>1 DEF Files, Entries
  <2>3. Except(Files(p), Entries(p), busy, Files(p)', Entries(p)', busy', d)
    BY <1>3, <2>2 DEF Except
  <2>4. now' = now + 1 \/ (now' = now /\ ~(Tracked(db[d][p]) /\ ~Present(fs[d][p])))
    <3>1. EntryShape(db[d][p], now, edits)
      BY AtPath DEF SInv
    <3>2. Tracked(db[d][p]) => db[d][p].tomb = NoTime
      BY <3>1 DEF EntryShape, NoTime
    <3>. QED
      BY <1>1, <3>2 DEF MissingOnDisk
  <2>5. /\ Files(p)'[d] = Files(p)[d]
        /\ Entries(p)'[d] = ScannedAt(Files(p)[d], Entries(p)[d], now)
        /\ now' = now + 1 \/ (now' = now /\ ~(Tracked(Entries(p)[d]) /\ ~Present(Files(p)[d])))
    BY <1>3, <2>2, <2>4
  <2>6. /\ PathOK(index[p], Files(p)', Entries(p)', busy', deleted, now', edits)
        /\ Contents(index[p], Files(p)') = Contents(index[p], Files(p))
    <3>1. ~busy[d] /\ busy'[d] /\ d \in Device
      BY <1>1, <1>3
    <3>2. PathOK(index[p], Files(p)', Entries(p)', busy', deleted, now', edits)
      BY <2>1, <2>3, <2>5, <3>1, PathTick, SMTT(60)
    <3>3. Contents(index[p], Files(p)') = Contents(index[p], Files(p))
      BY <2>1, <2>3, <2>5, <3>1, PathTick, SMTT(60)
    <3>. QED
      BY <3>2, <3>3
  <2>. QED
    BY <1>1, <2>6 DEF SInv, PathInv, Versions
<1>5. Disjoint'
  BY <1>4, DisjointStays DEF SInv
<1>6. SyncOK' /\ OnlyConcerns(d)
  BY <1>2, TickConcerns
<1>7. ASSUME NEW g \in Device \ {d}
      PROVE  DeviceInv(g)'
  <2>1. now \in Nat /\ edits \in Nat /\ now' \in Nat /\ now <= now'
    BY <1>1 DEF SInv
  <2>2. Same(g) /\ fs'[g] = fs[g] /\ db'[g] = db[g]
    BY <1>1, <1>3, <1>6 DEF OnlyConcerns
  <2>. QED
    BY <1>1, <1>2, <2>1, <2>2, UntouchedDevice DEF SInv
<1>8. DeviceInv(d)'
  <2>1. Accounted(d)'
    BY <1>2, TickAccounts DEF SInv, DeviceInv
  <2>2. toServer[d] = << >> /\ toDevice[d] = << >>
    BY <1>1, IdleFlies DEF SInv
  <2>3. toServer'[d] = <<[type |-> "listRequest"]>> /\ toDevice'[d] = << >>
    BY <1>1, <1>2, <2>2 DEF NetOK
  <2>4. Flying(d)' = {[type |-> "listRequest"]}
    BY <2>3 DEF Flying, Sent
  <2>5. Running(d)'
    BY <1>1 DEF SInv, NothingFails, Running
  <2>6. Listing(d)'
    <3>. SUFFICES ASSUME Working(d)' PROVE FALSE
      BY <2>1, <2>5 DEF Accounted
    <3>1. AllFit(toServer'[d], uploading'[d], downloading'[d])
      BY DEF Working, Round
    <3>2. Fits([type |-> "listRequest"], uploading'[d], downloading'[d])
      BY <2>3, <3>1 DEF AllFit
    <3>. QED
      BY <3>2 DEF Fits, UploadTypes, DownloadTypes, DeleteTypes
  <2>. QED
    BY <2>1, <2>4, <2>6 DEF DeviceInv, MsgOK, Owes
<1>9. NothingFails' /\ now' \in Nat /\ edits' \in Nat
  BY <1>1 DEF SInv, NothingFails, Running
<1>. QED
  BY <1>4, <1>5, <1>6, <1>7, <1>8, <1>9 DEF SInv

-----------------------------------------------------------------------------
(* The server takes a message                                              *)

(* What else is on the connection of a device the server takes one of.     *)
Rest(d) == Sent(Tail(toServer[d]), toDevice[d])

(* A list is asked for on a connection without anything else; any other    *)
(* request is of a round, and there is no other message of its path.       *)
LEMMA ServerFinds ==
  ASSUME IInv, SInv, NEW d \in Device, ServerReceive(d), NEW m, m = Head(toServer[d])
  PROVE  /\ m \in ServerMsg /\ MsgOK(d, m) /\ busy[d]
         /\ Flying(d) = {m} \cup Rest(d)
         /\ m.type = "listRequest" => Listing(d) /\ Rest(d) = {}
         /\ m.type # "listRequest" =>
              /\ ~Listing(d)
              /\ \A w \in Rest(d) : w.path # m.path /\ w.type \notin {"list", "listRequest"}
<1>1. /\ toServer[d] \in Seq(ServerMsg) /\ toDevice[d] \in Seq(DeviceMsg) /\ toServer[d] # << >>
  BY DEF IInv, NetOK, ServerReceive, ServerTakes
<1>2. /\ m \in ServerMsg /\ Flying(d) = {m} \cup Rest(d)
  BY <1>1, SentTaken DEF Flying, Rest
<1>3. DeviceInv(d) /\ Accounted(d) /\ Running(d)
  BY DEF SInv, DeviceInv, NothingFails
<1>4. MsgOK(d, m) /\ busy[d]
  BY <1>1, <1>2, <1>3, BusyWithMessages DEF DeviceInv
<1>5. CASE Listing(d)
  <2>1. toServer[d] = <<[type |-> "listRequest"]>> /\ toDevice[d] = << >>
    BY <1>1, <1>5 DEF Listing
  <2>2. m.type = "listRequest" /\ Tail(toServer[d]) = << >>
    BY <2>1
  <2>. QED
    BY <1>2, <1>4, <1>5, <2>1, <2>2, SentNothing DEF Rest
<1>6. CASE ~Listing(d)
  <2>1. Working(d)
    BY <1>3, <1>6 DEF Accounted
  <2>2. /\ AllFit(toServer[d], uploading[d], downloading[d])
        /\ AllFit(toDevice[d], uploading[d], downloading[d])
        /\ Apart(toServer[d], toDevice[d])
    BY <2>1 DEF Working, Round
  <2>3. /\ AllFit(Tail(toServer[d]), uploading[d], downloading[d])
        /\ Fits(m, uploading[d], downloading[d])
    BY <1>1, <2>2, AllFitTail
  <2>4. \A w \in Rest(d) : Fits(w, uploading[d], downloading[d])
    BY <2>2, <2>3 DEF Rest, Sent, AllFit
  <2>5. \A w \in Rest(d) : w.path # m.path
    BY <1>1, <2>2, SentApart DEF Rest
  <2>6. \A w : Fits(w, uploading[d], downloading[d]) => w.type \notin {"list", "listRequest"}
    BY DEF Fits, UploadTypes, DownloadTypes, DeleteTypes
  <2>. QED
    BY <1>2, <1>4, <1>6, <2>3, <2>4, <2>5, <2>6
<1>. QED
  BY <1>5, <1>6

(* What stays as it is for a device but at path p.                         *)
Elsewhere(d, p) ==
  /\ UNCHANGED <<now, edits, deleted>>
  /\ busy'[d] = busy[d]
  /\ \A q \in Path \ {p} :
       /\ fs'[d][q] = fs[d][q] /\ db'[d][q] = db[d][q] /\ index'[q] = index[q]
       /\ uploadMeta'[d][q] = uploadMeta[d][q]
       /\ q \in saving => q \in saving'

LEMMA MsgElsewhere ==
  ASSUME NEW d \in Device, NEW p \in Path, Elsewhere(d, p), NEW m, MsgOK(d, m),
         m.type \notin {"list", "listRequest"}, m.path # p
  PROVE  MsgOK(d, m)'
<1>1. m.path \in Path \ {p} /\ PathMsg(d, m)
  BY DEF MsgOK
<1>2. /\ fs'[d][m.path] = fs[d][m.path] /\ db'[d][m.path] = db[d][m.path]
      /\ index'[m.path] = index[m.path] /\ uploadMeta'[d][m.path] = uploadMeta[d][m.path]
      /\ busy'[d] = busy[d] /\ deleted' = deleted
      /\ m.path \in saving => m.path \in saving'
  BY <1>1 DEF Elsewhere
<1>3. PathMsgAt(m, fs[d][m.path], db[d][m.path], busy[d], index[m.path], deleted,
                m.path \in saving', uploadMeta[d][m.path])
  BY <1>1, <1>2, PathMsgStays DEF PathMsg
<1>4. PathMsg(d, m)'
  BY <1>2, <1>3 DEF PathMsg
<1>. QED
  BY <1>1, <1>4 DEF MsgOK

(* A device of which a message m of path p is answered with x, by either   *)
(* end.                                                                    *)
LEMMA AnsweredDevice ==
  ASSUME NEW d \in Device, NEW p \in Path, DeviceInv(d), Accounted(d)', Elsewhere(d, p),
         ~Listing(d), busy[d], NEW m, m.path = p, NEW R, NEW x, x.path = p,
         Flying(d) = {m} \cup R, Flying(d)' = R \cup {x},
         \A w \in R : w.path # p /\ w.type \notin {"list", "listRequest"},
         x.type \notin {"list", "listRequest"}, PathMsg(d, x)',
         Newer(d, p)' => x.type \in PendingTypes
  PROVE  DeviceInv(d)'
<1>1. ASSUME NEW w \in R
      PROVE  MsgOK(d, w)'
  BY <1>1, MsgElsewhere DEF DeviceInv
<1>2. MsgOK(d, x)'
  BY DEF MsgOK
<1>3. ASSUME NEW q \in Path, Newer(d, q)'
      PROVE  Pending(d, q)'
  <2>1. CASE q = p
    BY <1>3, <2>1 DEF Pending
  <2>2. CASE q # p
    <3>1. Newer(d, q)
      BY <1>3, <2>2 DEF Newer, Elsewhere
    <3>2. Pending(d, q)
      BY <3>1 DEF DeviceInv, Owes
    <3>3. PICK w \in Flying(d) : w.type \in PendingTypes /\ w.path = q
      BY <3>2 DEF Pending
    <3>4. w \in R
      BY <2>2, <3>3
    <3>. QED
      BY <3>3, <3>4 DEF Pending
  <2>. QED
    BY <2>1, <2>2
<1>. QED
  BY <1>1, <1>2, <1>3 DEF DeviceInv, Owes

(* Another device, when the server changes a path of which that device has *)
(* had what the server had, and is behind now.                             *)
LEMMA OvertakenDevice ==
  ASSUME NEW d \in Device, NEW p \in Path, DeviceInv(d), Same(d), \A q \in Path : PathInv(q),
         Elsewhere(d, p), fs'[d] = fs[d], db'[d] = db[d], uploadMeta'[d] = uploadMeta[d],
         CurrentAt(fs[d][p], db[d][p], index[p]), ~Buried(index[p]),
         BehindAt(fs[d][p], db[d][p], index'[p], deleted), EntryOK(index'[p], now, edits)
  PROVE  DeviceInv(d)'
<1>1. /\ busy'[d] = busy[d] /\ now' = now /\ edits' = edits /\ deleted' = deleted
      /\ \A q \in Path \ {p} : index'[q] = index[q] /\ (q \in saving => q \in saving')
  BY DEF Elsewhere
<1>2. /\ now \in Nat /\ edits \in Nat
      /\ \A q \in Path : /\ SideOK(fs[d][q], db[d][q], busy[d], now, edits)
                         /\ EntryOK(index[q], now, edits)
  BY AtPath
<1>3. ASSUME NEW q \in Path, Newer(d, q)'
      PROVE  Newer(d, q)
  <2>1. CASE q = p
    <3>1. ~Newer(d, p)'
      BY <1>1, <1>2, BehindAlone DEF Newer
    <3>. QED
      BY <1>3, <2>1, <3>1
  <2>2. CASE q # p
    BY <1>1, <1>3, <2>2 DEF Newer
  <2>. QED
    BY <2>1, <2>2
<1>4. ASSUME NEW m \in Flying(d)
      PROVE  MsgOK(d, m)'
  <2>1. MsgOK(d, m) /\ busy[d]
    BY IdleFlies DEF DeviceInv
  <2>2. ASSUME Listed(d, m.entries)
        PROVE  Listed(d, m.entries)'
    <3>. SUFFICES ASSUME NEW q \in Path
                  PROVE  ListedAt(m.entries[q], d, fs'[d][q], db'[d][q], busy'[d], index'[q],
                                  deleted', now', edits')
      BY DEF Listed
    <3>1. ListedAt(m.entries[q], d, fs[d][q], db[d][q], busy[d], index[q], deleted, now, edits)
      BY <2>2 DEF Listed
    <3>2. CASE q = p
      <4>1. PICK f, e, x, y, s :
              /\ f = fs[d][p] /\ e = db[d][p] /\ x = index[p] /\ y = index'[p]
              /\ s = m.entries[p]
        OBVIOUS
      <4>2. PICK n \in Nat, k \in Nat : n = now /\ k = edits
        BY <1>2
      <4>3. /\ SideOK(f, e, busy[d], n, k) /\ busy[d]
            /\ EntryOK(x, n, k) /\ EntryOK(y, n, k)
            /\ CurrentAt(f, e, x) /\ BehindAt(f, e, y, deleted)
        BY <1>2, <2>1, <4>1, <4>2
      <4>4. ListedAt(s, d, f, e, busy[d], x, deleted, n, k)
        BY <3>1, <3>2, <4>1, <4>2
      <4>5. ListedAt(s, d, f, e, busy[d], y, deleted, n, k)
        BY <4>3, <4>4, ListedAges
      <4>. QED
        BY <1>1, <3>2, <4>1, <4>2, <4>5
    <3>3. CASE q # p
      BY <1>1, <3>1, <3>3
    <3>. QED
      BY <3>2, <3>3
  <2>3. ASSUME m.path \in Path, PathMsg(d, m), m.type \notin {"list", "listRequest"}
        PROVE  PathMsg(d, m)'
    <3>1. CASE m.path = p
      <4>1. PathMsgAt(m, fs[d][p], db[d][p], busy[d], index[p], deleted,
                      p \in saving, uploadMeta[d][p])
        BY <2>3, <3>1 DEF PathMsg
      <4>2. PathMsgAt(m, fs[d][p], db[d][p], busy[d], index'[p], deleted,
                      p \in saving', uploadMeta[d][p])
        BY <1>2, <4>1, CurrentAwaits
      <4>. QED
        BY <1>1, <3>1, <4>2 DEF PathMsg
    <3>2. CASE m.path # p
      BY <2>1, <2>3, <3>2, MsgElsewhere DEF MsgOK
    <3>. QED
      BY <3>1, <3>2
  <2>. QED
    BY <2>1, <2>2, <2>3 DEF MsgOK
<1>. QED
  BY <1>3, <1>4, QuietDevice

(* What no request changes.                                                *)
LEMMA ServerLeaves ==
  ASSUME IInv, SInv, NetOK', NEW d \in Device, ServerReceive(d)
  PROVE  /\ UNCHANGED <<now, edits, deleted, fs, db, busy>>
         /\ toServer'[d] = Tail(toServer[d])
         /\ SyncOK' /\ OnlyConcerns(d) /\ Accounted(d)'
<1>1. NetOK /\ SyncOK /\ Accounted(d)
  BY DEF IInv, SInv, DeviceInv
<1>2. SyncOK' /\ OnlyConcerns(d) /\ failure'[d] = failure[d]
  BY <1>1, ServerConcerns
<1>3. Accounted(d)'
  BY <1>1, <1>2, ServerAccounts
<1>4. UNCHANGED <<now, edits, deleted, fs, db, busy>> /\ toServer'[d] = Tail(toServer[d])
  BY <1>1 DEF ServerReceive, ServerTakes, userVars, syncVars, NetOK
<1>. QED
  BY <1>2, <1>3, <1>4

(* A request that leaves the index and the files alone.                    *)
LEMMA ServerOnlyAnswers ==
  ASSUME IInv, SInv, NetOK', NEW d \in Device, ServerReceive(d),
         UNCHANGED <<store, index, failure>>, \A p \in Path : p \in saving => p \in saving',
         \A g \in Device \ {d} : uploadMeta'[g] = uploadMeta[g],
         DeviceInv(d)'
  PROVE  SInv'
<1>1. /\ UNCHANGED <<now, edits, deleted, fs, db, busy>> /\ SyncOK' /\ OnlyConcerns(d)
  BY ServerLeaves
<1>2. \A p \in Path : PathInv(p)' /\ Versions(p)' = Versions(p)
  BY <1>1 DEF SInv, PathInv, Versions, Files, Entries
<1>3. Disjoint'
  BY <1>2 DEF SInv, Disjoint
<1>4. \A g \in Device \ {d} : DeviceInv(g)'
  <2>1. NetOK /\ now \in Nat /\ edits \in Nat /\ \A g \in Device \ {d} : DeviceInv(g) /\ Same(g)
    BY <1>1 DEF IInv, SInv, OnlyConcerns
  <2>. QED
    BY <1>1, <2>1, UntouchedDevice
<1>5. NothingFails' /\ now' \in Nat /\ edits' \in Nat
  BY <1>1 DEF SInv, NothingFails, Running
<1>. QED
  BY <1>1, <1>2, <1>3, <1>4, <1>5 DEF SInv

(* What is on the connection when the message is answered.                 *)
LEMMA ServerAnswered ==
  ASSUME IInv, SInv, NetOK', NEW d \in Device, ServerReceive(d), NEW x, Answer(d, x)
  PROVE  Flying(d)' = Rest(d) \cup {x}
<1>. DEFINE T == DeviceMsg \cup {x}
<1>1. toDevice[d] \in Seq(DeviceMsg) /\ toDevice'[d] = Append(toDevice[d], x)
  BY DEF IInv, NetOK, Answer
<1>2. toDevice[d] \in Seq(T) /\ x \in T
  BY <1>1
<1>. HIDE DEF T
<1>3. toServer'[d] = Tail(toServer[d])
  BY ServerLeaves
<1>4. Sent(Tail(toServer[d]), Append(toDevice[d], x)) = Rest(d) \cup {x}
  BY <1>2, SentAnswered DEF Rest
<1>. QED
  BY <1>1, <1>3, <1>4 DEF Flying

LEMMA ServeListSettled ==
  ASSUME IInv, SInv, NetOK', NEW d \in Device, ServerReceive(d),
         NEW m, m = Head(toServer[d]), ServeList(d, m)
  PROVE  SInv'
<1>1. /\ m.type = "listRequest" /\ UNCHANGED <<store, index, saving, uploadMeta, failure>>
      /\ Answer(d, [type |-> "list", entries |-> index])
  BY DEF ServeList, serverVars
<1>2. PICK x : x = [type |-> "list", entries |-> index]
  OBVIOUS
<1>3. x.type = "list" /\ x.entries = index
  BY <1>2
<1>4. Rest(d) = {} /\ busy[d]
  BY <1>1, ServerFinds
<1>5. /\ UNCHANGED <<now, edits, deleted, fs, db, busy>> /\ Accounted(d)'
      /\ toServer'[d] = Tail(toServer[d])
  BY ServerLeaves
<1>6. Flying(d)' = {x}
  BY <1>1, <1>2, <1>4, ServerAnswered
<1>7. MsgOK(d, x)'
  <2>1. \A p \in Path : ListedAt(x.entries[p], d, fs[d][p], db[d][p], busy[d], index[p], deleted,
                                 now, edits)
    BY <1>3, AtPath DEF ListedAt, SInv
  <2>2. Listed(d, x.entries)'
    BY <1>1, <1>5, <2>1 DEF Listed
  <2>. QED
    BY <1>3, <2>2 DEF MsgOK
<1>8. Listing(d)'
  <2>1. x \in Flying(d)' /\ x.type = "list"
    BY <1>3, <1>6
  <2>2. Running(d)'
    BY <1>1 DEF SInv, NothingFails, Running
  <2>3. ~Working(d)'
    <3>1. \A w : Fits(w, uploading'[d], downloading'[d]) => w.type # "list"
      BY DEF Fits, UploadTypes, DownloadTypes, DeleteTypes
    <3>2. Working(d)' => \A w \in Flying(d)' : w.type # "list"
      BY <3>1 DEF Working, Round, AllFit, Flying, Sent
    <3>. QED
      BY <2>1, <3>2
  <2>. QED
    BY <1>5, <2>2, <2>3 DEF Accounted
<1>9. DeviceInv(d)'
  BY <1>5, <1>6, <1>7, <1>8 DEF DeviceInv, Owes
<1>. QED
  BY <1>1, <1>9, ServerOnlyAnswers

LEMMA ServeUploadRequestSettled ==
  ASSUME IInv, SInv, NetOK', NEW d \in Device, ServerReceive(d),
         NEW m, m = Head(toServer[d]), ServeUploadRequest(d, m)
  PROVE  SInv'
<1>1. /\ m.type = "uploadRequest" /\ saving' = saving \cup {m.path}
      /\ uploadMeta' = [uploadMeta EXCEPT ![d][m.path] = [mtime |-> m.mtime, hash |-> m.hash]]
      /\ Answer(d, [type |-> "uploadSize", path |-> m.path, chunks |-> m.size])
      /\ UNCHANGED <<store, index, failure>>
  BY DEF ServeUploadRequest
<1>2. PICK x : x = [type |-> "uploadSize", path |-> m.path, chunks |-> m.size]
  OBVIOUS
<1>3. x.type = "uploadSize" /\ x.path = m.path /\ x.chunks = m.size
  BY <1>2
<1>4. PICK p : p = m.path
  OBVIOUS
<1>5. /\ MsgOK(d, m) /\ busy[d] /\ ~Listing(d) /\ Flying(d) = {m} \cup Rest(d)
      /\ \A w \in Rest(d) : w.path # p /\ w.type \notin {"list", "listRequest"}
  BY <1>1, <1>4, ServerFinds
<1>6. p \in Path /\ PathMsg(d, m)
  BY <1>1, <1>4, <1>5 DEF MsgOK
<1>7. /\ UNCHANGED <<now, edits, deleted, fs, db, busy>> /\ Accounted(d)'
  BY ServerLeaves
<1>8. Flying(d)' = Rest(d) \cup {x}
  BY <1>1, <1>2, ServerAnswered
<1>9. uploadMeta \in [Device -> [Path -> Meta]]
  BY DEF IInv, ServerOK
<1>10. /\ uploadMeta'[d][p] = [mtime |-> m.mtime, hash |-> m.hash]
       /\ \A q \in Path \ {p} : uploadMeta'[d][q] = uploadMeta[d][q]
       /\ \A g \in Device \ {d} : uploadMeta'[g] = uploadMeta[g]
  BY <1>1, <1>4, <1>6, <1>9
<1>11. Elsewhere(d, p)
  BY <1>1, <1>7, <1>10 DEF Elsewhere
<1>12. PathMsg(d, x)'
  <2>1. PathMsgAt(m, fs[d][p], db[d][p], busy[d], index[p], deleted,
                  p \in saving, uploadMeta[d][p])
    BY <1>4, <1>6 DEF PathMsg
  <2>2. /\ WrittenAt(fs[d][p], db[d][p], busy[d], index[p], deleted)
        /\ m.size = 1 /\ m.mtime = fs[d][p].mtime /\ m.hash = fs[d][p].content
    BY <1>1, <2>1 DEF PathMsgAt
  <2>3. p \in saving' /\ uploadMeta'[d][p] = [mtime |-> fs[d][p].mtime, hash |-> fs[d][p].content]
    BY <1>1, <1>4, <1>10, <2>2
  <2>4. PathMsgAt(x, fs[d][p], db[d][p], busy[d], index[p], deleted,
                  p \in saving', uploadMeta'[d][p])
    BY <1>3, <2>2, <2>3 DEF PathMsgAt
  <2>. QED
    BY <1>1, <1>3, <1>4, <1>7, <2>4 DEF PathMsg
<1>13. DeviceInv(d)'
  <2>1. DeviceInv(d) /\ x.type \in PendingTypes /\ x.type \notin {"list", "listRequest"}
    BY <1>3 DEF SInv, PendingTypes
  <2>. QED
    BY <1>3, <1>4, <1>5, <1>6, <1>7, <1>8, <1>11, <1>12, <2>1, AnsweredDevice
<1>14. \A q \in Path : q \in saving => q \in saving'
  BY <1>1
<1>. QED
  BY <1>1, <1>10, <1>13, <1>14, ServerOnlyAnswers

(* What the server is asked for, it has.                                   *)
LEMMA ServeDownloadRequestSettled ==
  ASSUME IInv, SInv, NetOK', NEW d \in Device, ServerReceive(d),
         NEW m, m = Head(toServer[d]), ServeDownloadRequest(d, m)
  PROVE  SInv'
<1>1. m.type = "downloadRequest" /\ UNCHANGED <<store, index, saving, uploadMeta>>
  BY DEF ServeDownloadRequest, serverVars
<1>2. PICK x : x = [type |-> "download", path |-> m.path, mtime |-> index[m.path].mtime,
                    hash |-> index[m.path].hash, content |-> store[m.path]]
  OBVIOUS
<1>3. /\ x.type = "download" /\ x.path = m.path /\ x.mtime = index[m.path].mtime
      /\ x.hash = index[m.path].hash /\ x.content = store[m.path]
  BY <1>2
<1>4. PICK p : p = m.path
  OBVIOUS
<1>5. /\ MsgOK(d, m) /\ busy[d] /\ ~Listing(d) /\ Flying(d) = {m} \cup Rest(d)
      /\ \A w \in Rest(d) : w.path # p /\ w.type \notin {"list", "listRequest"}
  BY <1>1, <1>4, ServerFinds
<1>6. p \in Path /\ PathMsg(d, m)
  BY <1>1, <1>4, <1>5 DEF MsgOK
<1>7. /\ UNCHANGED <<now, edits, deleted, fs, db, busy>> /\ Accounted(d)'
  BY ServerLeaves
<1>8. Tracked(index[p]) /\ BehindAt(fs[d][p], db[d][p], index[p], deleted)
  BY <1>1, <1>4, <1>6 DEF PathMsg, PathMsgAt
<1>9. /\ store[p] = index[p].hash /\ store[p] # Gone
      /\ EntryOK(index[p], now, edits) /\ SideOK(fs[d][p], db[d][p], busy[d], now, edits)
      /\ now \in Nat /\ edits \in Nat
  BY <1>6, <1>8, AtPath DEF SInv, EntryShape, Gone
<1>10. Answer(d, x) /\ failure' = failure
  BY <1>2, <1>4, <1>8, <1>9 DEF ServeDownloadRequest
<1>11. Flying(d)' = Rest(d) \cup {x}
  BY <1>10, ServerAnswered
<1>12. Elsewhere(d, p)
  BY <1>1, <1>7 DEF Elsewhere
<1>13. PathMsg(d, x)'
  <2>1. PathMsgAt(x, fs[d][p], db[d][p], busy[d], index[p], deleted,
                  p \in saving, uploadMeta[d][p])
    BY <1>3, <1>4, <1>8, <1>9 DEF PathMsgAt
  <2>. QED
    BY <1>1, <1>3, <1>4, <1>7, <2>1 DEF PathMsg
<1>14. ~Newer(d, p)'
  <2>1. ~Newer(d, p)
    BY <1>8, <1>9, BehindAlone DEF Newer
  <2>. QED
    BY <1>1, <1>7, <2>1 DEF Newer
<1>15. DeviceInv(d)'
  <2>1. /\ DeviceInv(d) /\ x.type \notin {"list", "listRequest"}
        /\ m.path = p /\ x.path = p /\ (Newer(d, p)' => x.type \in PendingTypes)
    BY <1>3, <1>4, <1>14 DEF SInv
  <2>2. /\ p \in Path /\ busy[d] /\ ~Listing(d) /\ Accounted(d)'
        /\ Flying(d) = {m} \cup Rest(d) /\ Flying(d)' = Rest(d) \cup {x}
        /\ \A w \in Rest(d) : w.path # p /\ w.type \notin {"list", "listRequest"}
    BY <1>5, <1>6, <1>7, <1>11
  <2>. QED
    BY <1>12, <1>13, <2>1, <2>2, AnsweredDevice
<1>. QED
  BY <1>1, <1>10, <1>15, ServerOnlyAnswers

(* The server changes one path, as a device that was ahead reports.        *)
LEMMA ServerChanges ==
  ASSUME IInv, SInv, NetOK', NEW d \in Device, ServerReceive(d), failure' = failure,
         NEW p \in Path, NEW y,
         index' = [index EXCEPT ![p] = y], store' = [store EXCEPT ![p] = y.hash],
         \A q \in Path \ {p} : q \in saving => q \in saving',
         \A g \in Device \ {d} : uploadMeta'[g] = uploadMeta[g],
         PathOK(y, Files(p), Entries(p), busy, deleted, now, edits),
         Contents(y, Files(p)) \subseteq Contents(index[p], Files(p)) \cup {-1},
         ~Buried(index[p]),
         \A g \in Device \ {d} : /\ CurrentAt(fs[g][p], db[g][p], index[p])
                                 /\ BehindAt(fs[g][p], db[g][p], y, deleted),
         DeviceInv(d)'
  PROVE  SInv'
<1>1. /\ UNCHANGED <<now, edits, deleted, fs, db, busy>> /\ SyncOK' /\ OnlyConcerns(d)
  BY ServerLeaves
<1>2. /\ index'[p] = y /\ store'[p] = y.hash
      /\ \A q \in Path \ {p} : index'[q] = index[q] /\ store'[q] = store[q]
  BY DEF IInv, ServerOK
<1>3. \A q \in Path : Files(q)' = Files(q) /\ Entries(q)' = Entries(q)
  BY <1>1 DEF Files, Entries
<1>4. ASSUME NEW q \in Path
      PROVE  PathInv(q)' /\ Versions(q)' \subseteq Versions(q) \cup {-1}
  <2>1. CASE q = p
    BY <1>1, <1>2, <1>3, <2>1 DEF PathInv, Versions
  <2>2. CASE q # p
    BY <1>1, <1>2, <1>3, <2>2 DEF SInv, PathInv, Versions
  <2>. QED
    BY <2>1, <2>2
<1>5. Disjoint'
  BY <1>4, DisjointStays DEF SInv
<1>6. EntryOK(y, now, edits)
  BY DEF PathOK
<1>7. ASSUME NEW g \in Device \ {d}
      PROVE  DeviceInv(g)'
  <2>1. DeviceInv(g) /\ Same(g) /\ busy'[g] = busy[g]
    BY <1>1 DEF SInv, OnlyConcerns
  <2>2. Elsewhere(g, p)
    BY <1>1, <1>2 DEF Elsewhere
  <2>3. fs'[g] = fs[g] /\ db'[g] = db[g] /\ uploadMeta'[g] = uploadMeta[g]
    BY <1>1
  <2>4. /\ BehindAt(fs[g][p], db[g][p], index'[p], deleted) /\ EntryOK(index'[p], now, edits)
        /\ CurrentAt(fs[g][p], db[g][p], index[p])
    BY <1>2, <1>6
  <2>. QED
    BY <2>1, <2>2, <2>3, <2>4, OvertakenDevice DEF SInv
<1>8. NothingFails' /\ now' \in Nat /\ edits' \in Nat
  BY <1>1 DEF SInv, NothingFails, Running
<1>. QED
  BY <1>1, <1>4, <1>5, <1>7, <1>8 DEF SInv

(* A chunk is committed: it is of the file the upload was asked for.       *)
LEMMA ChunkFinds ==
  ASSUME IInv, SInv, NEW d \in Device, ServerReceive(d), NEW m, m = Head(toServer[d]),
         m.type = "chunk", NEW p, p = m.path
  PROVE  /\ p \in Path /\ busy[d] /\ m.content = fs[d][p].content
         /\ WrittenAt(fs[d][p], db[d][p], busy[d], index[p], deleted)
         /\ p \in saving
         /\ uploadMeta[d][p] = [mtime |-> fs[d][p].mtime, hash |-> fs[d][p].content]
         /\ uploadMeta[d][p] # NoMeta
<1>1. MsgOK(d, m) /\ busy[d]
  BY ServerFinds
<1>2. p \in Path /\ PathMsg(d, m)
  BY <1>1 DEF MsgOK
<1>3. /\ WrittenAt(fs[d][p], db[d][p], busy[d], index[p], deleted)
      /\ p \in saving /\ m.content = fs[d][p].content
      /\ uploadMeta[d][p] = [mtime |-> fs[d][p].mtime, hash |-> fs[d][p].content]
  BY <1>2 DEF PathMsg, PathMsgAt
<1>4. fs[d][p].mtime >= 1 /\ fs[d][p].mtime \in Int
  BY <1>2, <1>3, AtPath DEF SInv, FileShape, WrittenAt
<1>5. uploadMeta[d][p].mtime # NoMeta.mtime
  <2>1. uploadMeta[d][p].mtime = fs[d][p].mtime
    BY <1>3
  <2>. QED
    BY <1>4, <2>1 DEF NoMeta, NoTime
<1>. QED
  BY <1>1, <1>2, <1>3, <1>5

LEMMA ServeChunkSettled ==
  ASSUME IInv, SInv, NetOK', NEW d \in Device, ServerReceive(d),
         NEW m, m = Head(toServer[d]), ServeChunk(d, m)
  PROVE  SInv'
<1>1. m.type = "chunk"
  BY DEF ServeChunk
<1>2. PICK p : p = m.path
  OBVIOUS
<1>3. /\ p \in Path /\ busy[d] /\ m.content = fs[d][p].content
      /\ WrittenAt(fs[d][p], db[d][p], busy[d], index[p], deleted)
      /\ p \in saving /\ uploadMeta[d][p] # NoMeta
      /\ uploadMeta[d][p] = [mtime |-> fs[d][p].mtime, hash |-> fs[d][p].content]
  BY <1>1, <1>2, ChunkFinds
<1>4. PICK y : y = RecordFile(index[p], fs[d][p].mtime, fs[d][p].content)
  OBVIOUS
<1>5. PICK x : x = [type |-> "uploadAck", path |-> m.path]
  OBVIOUS
<1>6. x.type = "uploadAck" /\ x.path = p
  BY <1>2, <1>5
<1>7. /\ Files(p)[d] = fs[d][p] /\ Entries(p)[d] = db[d][p]
      /\ \A g \in Device : Files(p)[g] = fs[g][p] /\ Entries(p)[g] = db[g][p]
      /\ PathOK(index[p], Files(p), Entries(p), busy, deleted, now, edits)
  BY <1>3 DEF Files, Entries, SInv, PathInv
<1>8. /\ PathOK(y, Files(p), Entries(p), busy, deleted, now, edits)
      /\ Contents(y, Files(p)) \subseteq Contents(index[p], Files(p))
      /\ y.hash = fs[d][p].content
      /\ \A g \in Device \ {d} : /\ CurrentAt(fs[g][p], db[g][p], index[p])
                                 /\ BehindAt(fs[g][p], db[g][p], y, deleted)
  <2>1. WrittenAt(Files(p)[d], Entries(p)[d], busy[d], index[p], deleted)
    BY <1>3, <1>7
  <2>2. y = RecordFile(index[p], Files(p)[d].mtime, Files(p)[d].content)
    BY <1>4, <1>7
  <2>3. /\ PathOK(y, Files(p), Entries(p), busy, deleted, now, edits)
        /\ Contents(y, Files(p)) \subseteq Contents(index[p], Files(p))
        /\ y.hash = Files(p)[d].content
        /\ \A g \in Device \ {d} : /\ CurrentAt(Files(p)[g], Entries(p)[g], index[p])
                                   /\ BehindAt(Files(p)[g], Entries(p)[g], y, deleted)
    <3>1. busy[d] /\ PathOK(index[p], Files(p), Entries(p), busy, deleted, now, edits)
      BY <1>3, <1>7
    <3>2. LET z == RecordFile(index[p], Files(p)[d].mtime, Files(p)[d].content)
          IN /\ PathOK(z, Files(p), Entries(p), busy, deleted, now, edits)
             /\ Contents(z, Files(p)) \subseteq Contents(index[p], Files(p))
             /\ z.hash = Files(p)[d].content
             /\ \A g \in Device \ {d} : /\ CurrentAt(Files(p)[g], Entries(p)[g], index[p])
                                        /\ BehindAt(Files(p)[g], Entries(p)[g], z, deleted)
      BY <2>1, <3>1, PathCommit
    <3>. QED
      BY <2>2, <3>2
  <2>. QED
    BY <1>7, <2>3
<1>9. /\ store' = [store EXCEPT ![p] = y.hash] /\ index' = [index EXCEPT ![p] = y]
      /\ saving' = saving \ {p} /\ uploadMeta' = [uploadMeta EXCEPT ![d][p] = NoMeta]
      /\ Answer(d, x) /\ failure' = failure
  <2>1. /\ store' = [store EXCEPT ![m.path] = m.content]
        /\ index' = [index EXCEPT ![m.path] =
             RecordFile(@, uploadMeta[d][m.path].mtime, uploadMeta[d][m.path].hash)]
        /\ saving' = saving \ {m.path} /\ uploadMeta' = [uploadMeta EXCEPT ![d][m.path] = NoMeta]
        /\ Answer(d, [type |-> "uploadAck", path |-> m.path]) /\ failure' = failure
    BY <1>2, <1>3 DEF ServeChunk
  <2>2. RecordFile(index[p], uploadMeta[d][p].mtime, uploadMeta[d][p].hash) = y
    BY <1>3, <1>4
  <2>3. index' = [index EXCEPT ![p] = y]
    BY <1>2, <2>1, <2>2
  <2>4. store' = [store EXCEPT ![p] = y.hash]
    BY <1>2, <1>3, <1>8, <2>1
  <2>5. Answer(d, x)
    BY <1>5, <2>1
  <2>. QED
    BY <1>2, <2>1, <2>3, <2>4, <2>5
<1>10. /\ UNCHANGED <<now, edits, deleted, fs, db, busy>> /\ Accounted(d)'
  BY ServerLeaves
<1>11. Flying(d)' = Rest(d) \cup {x}
  BY <1>9, ServerAnswered
<1>12. /\ \A q \in Path \ {p} : uploadMeta'[d][q] = uploadMeta[d][q] /\ index'[q] = index[q]
       /\ \A g \in Device \ {d} : uploadMeta'[g] = uploadMeta[g]
       /\ \A q \in Path \ {p} : q \in saving => q \in saving'
       /\ index'[p] = y
  <2>1. uploadMeta \in [Device -> [Path -> Meta]] /\ index \in [Path -> Entry]
    BY DEF IInv, ServerOK
  <2>. QED
    BY <1>3, <1>9, <2>1
<1>13. Elsewhere(d, p)
  BY <1>10, <1>12 DEF Elsewhere
<1>14. ~Newer(d, p)'
  <2>1. fs[d][p].content \in Int /\ Present(fs[d][p])
    BY <1>3, AtPath DEF SInv, FileShape, WrittenAt
  <2>2. ~WrittenAt(fs[d][p], db[d][p], busy[d], y, deleted)
    BY <1>8, <2>1 DEF WrittenAt
  <2>3. ~RemovedAt(fs[d][p], db[d][p], busy[d], y)
    BY <2>1, NoFileShape DEF RemovedAt
  <2>. QED
    BY <1>10, <1>12, <2>2, <2>3 DEF Newer
<1>15. PathMsg(d, x)'
  BY <1>6 DEF PathMsg, PathMsgAt
<1>16. DeviceInv(d)'
  <2>1. /\ ~Listing(d) /\ Flying(d) = {m} \cup Rest(d)
        /\ \A w \in Rest(d) : w.path # p /\ w.type \notin {"list", "listRequest"}
    BY <1>1, <1>2, ServerFinds
  <2>2. /\ DeviceInv(d) /\ x.type \notin {"list", "listRequest"}
        /\ m.path = p /\ x.path = p
        /\ Newer(d, p)' => x.type \in PendingTypes
    BY <1>2, <1>6, <1>14 DEF SInv
  <2>3. p \in Path /\ busy[d] /\ Accounted(d)'
    BY <1>3, <1>10
  <2>. QED
    BY <1>11, <1>13, <1>15, <2>1, <2>2, <2>3, AnsweredDevice
<1>17. ~Buried(index[p])
  BY <1>3 DEF WrittenAt
<1>. QED
  BY <1>3, <1>8, <1>9, <1>12, <1>16, <1>17, ServerChanges

LEMMA ServeDeleteSettled ==
  ASSUME IInv, SInv, NetOK', NEW d \in Device, ServerReceive(d), failure' = failure,
         NEW m, m = Head(toServer[d]), ServeDelete(d, m)
  PROVE  SInv'
<1>1. m.type = "deleteRequest" /\ UNCHANGED <<saving, uploadMeta>>
  BY DEF ServeDelete
<1>2. PICK p : p = m.path
  OBVIOUS
<1>3. /\ MsgOK(d, m) /\ busy[d] /\ ~Listing(d) /\ Flying(d) = {m} \cup Rest(d)
      /\ \A w \in Rest(d) : w.path # p /\ w.type \notin {"list", "listRequest"}
  BY <1>1, <1>2, ServerFinds
<1>4. p \in Path /\ PathMsg(d, m)
  BY <1>1, <1>2, <1>3 DEF MsgOK
<1>5. RemovedAt(fs[d][p], db[d][p], busy[d], index[p]) /\ m.time = db[d][p].tomb
  BY <1>1, <1>2, <1>4 DEF PathMsg, PathMsgAt
<1>6. Tracked(index[p]) /\ store[p] # Gone
  BY <1>4, <1>5, AtPath DEF SInv, RemovedAt, EntryShape, Gone
<1>7. PICK y : y = RecordDeletion(index[p], db[d][p].tomb)
  OBVIOUS
<1>8. PICK x : x = [type |-> "deleteAnswer", path |-> m.path, done |-> TRUE]
  OBVIOUS
<1>9. x.type = "deleteAnswer" /\ x.path = p
  BY <1>2, <1>8
<1>10. /\ Files(p)[d] = fs[d][p] /\ Entries(p)[d] = db[d][p]
       /\ \A g \in Device : Files(p)[g] = fs[g][p] /\ Entries(p)[g] = db[g][p]
       /\ PathOK(index[p], Files(p), Entries(p), busy, deleted, now, edits)
  BY <1>4 DEF Files, Entries, SInv, PathInv
<1>11. /\ PathOK(y, Files(p), Entries(p), busy, deleted, now, edits)
       /\ Contents(y, Files(p)) \subseteq Contents(index[p], Files(p)) \cup {-1}
       /\ Buried(y) /\ y.hash = NoHash
       /\ \A g \in Device \ {d} : /\ CurrentAt(fs[g][p], db[g][p], index[p])
                                  /\ BehindAt(fs[g][p], db[g][p], y, deleted)
  <2>1. RemovedAt(Files(p)[d], Entries(p)[d], busy[d], index[p])
    BY <1>5, <1>10
  <2>2. y = RecordDeletion(index[p], Entries(p)[d].tomb)
    BY <1>7, <1>10
  <2>3. /\ PathOK(y, Files(p), Entries(p), busy, deleted, now, edits)
        /\ Contents(y, Files(p)) \subseteq Contents(index[p], Files(p)) \cup {-1}
        /\ Buried(y) /\ y.hash = NoHash
        /\ \A g \in Device \ {d} : /\ CurrentAt(Files(p)[g], Entries(p)[g], index[p])
                                   /\ BehindAt(Files(p)[g], Entries(p)[g], y, deleted)
    <3>1. busy[d] /\ PathOK(index[p], Files(p), Entries(p), busy, deleted, now, edits)
      BY <1>3, <1>10
    <3>2. LET z == RecordDeletion(index[p], Entries(p)[d].tomb)
          IN /\ PathOK(z, Files(p), Entries(p), busy, deleted, now, edits)
             /\ Contents(z, Files(p)) \subseteq Contents(index[p], Files(p)) \cup {-1}
             /\ Buried(z) /\ z.hash = NoHash
             /\ \A g \in Device \ {d} : /\ CurrentAt(Files(p)[g], Entries(p)[g], index[p])
                                        /\ BehindAt(Files(p)[g], Entries(p)[g], z, deleted)
      BY <2>1, <3>1, PathRemove
    <3>. QED
      BY <2>2, <3>2
  <2>. QED
    BY <1>10, <2>3
<1>12. /\ store' = [store EXCEPT ![p] = y.hash] /\ index' = [index EXCEPT ![p] = y]
       /\ Answer(d, x)
  <2>1. Gone = y.hash
    BY <1>11 DEF Gone, NoHash
  <2>2. RemoveFile(p, m.time)
    BY <1>2, <1>6 DEF ServeDelete
  <2>3. Answer(d, x)
    BY <1>2, <1>6, <1>8 DEF ServeDelete
  <2>. QED
    BY <1>5, <1>7, <2>1, <2>2, <2>3 DEF RemoveFile
<1>13. /\ UNCHANGED <<now, edits, deleted, fs, db, busy>> /\ Accounted(d)'
  BY ServerLeaves
<1>14. Flying(d)' = Rest(d) \cup {x}
  BY <1>12, ServerAnswered
<1>15. index'[p] = y /\ \A q \in Path \ {p} : index'[q] = index[q]
  BY <1>4, <1>12 DEF IInv, ServerOK
<1>16. Elsewhere(d, p)
  BY <1>1, <1>13, <1>15 DEF Elsewhere
<1>17. ~Newer(d, p)'
  <2>1. ~WrittenAt(fs[d][p], db[d][p], busy[d], y, deleted)
    BY <1>11 DEF WrittenAt
  <2>2. ~RemovedAt(fs[d][p], db[d][p], busy[d], y)
    BY <1>11 DEF RemovedAt, Buried
  <2>. QED
    BY <1>13, <1>15, <2>1, <2>2 DEF Newer
<1>18. PathMsg(d, x)'
  <2>1. fs[d][p] = NoFile /\ ~Tracked(db[d][p])
    BY <1>3, <1>5 DEF RemovedAt
  <2>2. PathMsgAt(x, fs[d][p], db[d][p], busy[d], y, deleted, p \in saving, uploadMeta[d][p])
    BY <1>9, <1>11, <2>1 DEF PathMsgAt
  <2>. QED
    BY <1>1, <1>9, <1>13, <1>15, <2>2 DEF PathMsg
<1>19. DeviceInv(d)'
  <2>1. DeviceInv(d) /\ x.type \notin {"list", "listRequest"}
    BY <1>9 DEF SInv
  <2>. QED
    BY <1>2, <1>3, <1>4, <1>9, <1>13, <1>14, <1>16, <1>17, <1>18, <2>1, AnsweredDevice
<1>20. /\ ~Buried(index[p])
       /\ \A q \in Path \ {p} : q \in saving => q \in saving'
       /\ \A g \in Device \ {d} : uploadMeta'[g] = uploadMeta[g]
  BY <1>1, <1>6 DEF Buried
<1>. QED
  BY <1>4, <1>11, <1>12, <1>19, <1>20, ServerChanges

LEMMA ServeFailedDeleteSettled ==
  ASSUME IInv, SInv, NetOK', NEW d \in Device, ServerReceive(d),
         NEW m, m = Head(toServer[d]), ServeFailedDelete(d, m)
  PROVE  SInv'
<1>1. /\ m.type = "deleteRequest"
      /\ UNCHANGED <<store, index, saving, uploadMeta, failure>>
  BY DEF ServeFailedDelete, serverVars
<1>2. PICK p : p = m.path
  OBVIOUS
<1>3. /\ MsgOK(d, m) /\ busy[d] /\ ~Listing(d) /\ Flying(d) = {m} \cup Rest(d)
      /\ \A w \in Rest(d) : w.path # p /\ w.type \notin {"list", "listRequest"}
  BY <1>1, <1>2, ServerFinds
<1>4. p \in Path /\ PathMsg(d, m)
  BY <1>1, <1>2, <1>3 DEF MsgOK
<1>5. RemovedAt(fs[d][p], db[d][p], busy[d], index[p])
  BY <1>1, <1>2, <1>4 DEF PathMsg, PathMsgAt
<1>6. PICK x : x = [type |-> "deleteAnswer", path |-> m.path, done |-> FALSE]
  OBVIOUS
<1>7. x.type = "deleteAnswer" /\ x.path = p /\ ~x.done /\ Answer(d, x)
  BY <1>2, <1>6 DEF ServeFailedDelete
<1>8. /\ UNCHANGED <<now, edits, deleted, fs, db, busy>> /\ Accounted(d)'
  BY ServerLeaves
<1>9. Flying(d)' = Rest(d) \cup {x}
  BY <1>7, ServerAnswered
<1>10. Elsewhere(d, p)
  BY <1>1, <1>8 DEF Elsewhere
<1>11. fs[d][p] = NoFile /\ ~Tracked(db[d][p])
  BY <1>3, <1>5 DEF RemovedAt
<1>12. ~Newer(d, p)'
  BY <1>8, <1>11, NoFileShape DEF Newer, WrittenAt
<1>13. PathMsg(d, x)'
  <2>1. PathMsgAt(x, fs[d][p], db[d][p], busy[d], index[p], deleted, p \in saving, uploadMeta[d][p])
    BY <1>7, <1>11 DEF PathMsgAt
  <2>. QED
    BY <1>1, <1>7, <1>8, <2>1 DEF PathMsg
<1>14. DeviceInv(d)'
  <2>1. /\ DeviceInv(d) /\ x.type \notin {"list", "listRequest"}
        /\ m.path = p /\ x.path = p /\ (Newer(d, p)' => x.type \in PendingTypes)
    BY <1>2, <1>7, <1>12 DEF SInv
  <2>2. /\ p \in Path /\ busy[d] /\ ~Listing(d) /\ Accounted(d)'
        /\ Flying(d) = {m} \cup Rest(d) /\ Flying(d)' = Rest(d) \cup {x}
        /\ \A w \in Rest(d) : w.path # p /\ w.type \notin {"list", "listRequest"}
    BY <1>3, <1>4, <1>8, <1>9
  <2>. QED
    BY <1>10, <1>13, <2>1, <2>2, AnsweredDevice
<1>. QED
  BY <1>1, <1>14, ServerOnlyAnswers

LEMMA ServerSettled ==
  ASSUME IInv, SInv, NetOK', NEW d \in Device, ServerReceive(d)
  PROVE  SInv'
<1>1. PICK m : /\ m = Head(toServer[d])
               /\ \/ ServeList(d, m) \/ ServeUploadRequest(d, m) \/ ServeChunk(d, m)
                  \/ ServeDownloadRequest(d, m)
                  \/ ServeDelete(d, m) /\ failure' = failure
                  \/ ServeFailedDelete(d, m)
  BY DEF ServerReceive
<1>. QED
  BY <1>1, ServeListSettled, ServeUploadRequestSettled, ServeChunkSettled,
     ServeDownloadRequestSettled, ServeDeleteSettled, ServeFailedDeleteSettled

-----------------------------------------------------------------------------
(* A device takes a message                                                *)

(* What else is on the connection of a device that takes a message.        *)
Left(d) == Sent(toServer[d], Tail(toDevice[d]))

(* A list comes on a connection without anything else; any other answer is *)
(* of a round, and there is no other message of its path.                  *)
LEMMA DeviceFinds ==
  ASSUME IInv, SInv, NEW d \in Device, DeviceReceive(d), NEW m, m = Head(toDevice[d])
  PROVE  /\ m \in DeviceMsg /\ MsgOK(d, m) /\ busy[d]
         /\ Flying(d) = {m} \cup Left(d)
         /\ m.type = "list" => /\ Listing(d)
                               /\ toServer[d] = << >> /\ Tail(toDevice[d]) = << >>
         /\ m.type # "list" =>
              /\ ~Listing(d) /\ Fits(m, uploading[d], downloading[d])
              /\ \A w \in Left(d) : w.path # m.path /\ w.type \notin {"list", "listRequest"}
<1>1. /\ toServer[d] \in Seq(ServerMsg) /\ toDevice[d] \in Seq(DeviceMsg) /\ toDevice[d] # << >>
      /\ Running(d) /\ SyncOK /\ NetOK
  BY DEF IInv, NetOK, DeviceReceive, DeviceTakes, SInv
<1>2. m \in DeviceMsg /\ Flying(d) = {m} \cup Left(d)
  <2>1. Sent(toDevice[d], toServer[d]) = {m} \cup Sent(Tail(toDevice[d]), toServer[d])
    BY <1>1, SentTaken
  <2>. QED
    BY <1>1, <2>1, SentSwaps DEF Flying, Left
<1>3. DeviceInv(d) /\ Accounted(d)
  BY DEF SInv, DeviceInv
<1>4. MsgOK(d, m) /\ busy[d]
  BY <1>1, <1>2, <1>3, BusyWithMessages DEF DeviceInv
<1>5. CASE m.type = "list"
  <2>1. ~Working(d)
    <3>1. Working(d) => Fits(m, uploading[d], downloading[d])
      BY <1>1, AllFitTail DEF Working, Round
    <3>. QED
      BY <1>5, <3>1 DEF Fits, UploadTypes, DownloadTypes, DeleteTypes
  <2>2. Listing(d)
    BY <1>1, <1>3, <2>1 DEF Accounted
  <2>3. toServer[d] = << >> /\ Len(toDevice[d]) = 1
    BY <1>1, <2>2 DEF Listing
  <2>4. Tail(toDevice[d]) \in Seq(DeviceMsg) /\ Len(Tail(toDevice[d])) = 0
    BY <1>1, <2>3
  <2>5. Tail(toDevice[d]) = << >>
    BY <2>4, EmptySeq
  <2>. QED
    BY <1>2, <1>4, <1>5, <2>2, <2>3, <2>5
<1>6. CASE m.type # "list"
  <2>1. /\ Round(toDevice[d], toServer[d], uploading[d], downloading[d],
                 pendingMessages[d], outstandingTransfers[d])
        /\ Fits(m, uploading[d], downloading[d])
    BY <1>1, <1>3, <1>6, TakesInRound
  <2>2. /\ AllFit(toDevice[d], uploading[d], downloading[d])
        /\ AllFit(toServer[d], uploading[d], downloading[d])
        /\ Apart(toDevice[d], toServer[d])
    BY <2>1 DEF Round
  <2>3. AllFit(Tail(toDevice[d]), uploading[d], downloading[d])
    BY <1>1, <2>2, AllFitTail
  <2>4. \A w \in Left(d) : Fits(w, uploading[d], downloading[d])
    BY <2>2, <2>3 DEF Left, Sent, AllFit
  <2>5. \A w \in Left(d) : w.path # m.path
    <3>1. \A w \in Sent(Tail(toDevice[d]), toServer[d]) : w.path # m.path
      BY <1>1, <2>2, SentApart
    <3>. QED
      BY <3>1, SentSwaps DEF Left
  <2>6. \A w : Fits(w, uploading[d], downloading[d]) => w.type \notin {"list", "listRequest"}
    BY DEF Fits, UploadTypes, DownloadTypes, DeleteTypes
  <2>7. ~Listing(d)
    <3>1. Listing(d) => toDevice[d][1].type = "list"
      BY <1>1 DEF Listing
    <3>2. m = toDevice[d][1]
      BY <1>1
    <3>. QED
      BY <1>6, <3>1, <3>2
  <2>. QED
    BY <1>2, <1>4, <1>6, <2>1, <2>4, <2>5, <2>6, <2>7
<1>. QED
  BY <1>5, <1>6

(* What no answer changes.                                                 *)
LEMMA DeviceLeaves ==
  ASSUME IInv, SInv, NetOK', NEW d \in Device, DeviceReceive(d)
  PROVE  /\ UNCHANGED <<edits, deleted, store, index, saving, uploadMeta>>
         /\ toDevice'[d] = Tail(toDevice[d])
         /\ SyncOK' /\ OnlyConcerns(d) /\ Accounted(d)'
<1>1. NetOK /\ SyncOK /\ Accounted(d) /\ DevicesOK
  BY DEF IInv, SInv, DeviceInv
<1>2. SyncOK' /\ OnlyConcerns(d)
  BY <1>1, DeviceConcerns
<1>3. Head(toDevice[d]).type = "list" => Once(d, Head(toDevice[d]).entries)
  <2>. SUFFICES ASSUME Head(toDevice[d]).type = "list"
                PROVE  Once(d, Head(toDevice[d]).entries)
    OBVIOUS
  <2>1. MsgOK(d, Head(toDevice[d]))
    BY DeviceFinds
  <2>2. \A p \in Path : EntryOK(Head(toDevice[d]).entries[p], now, edits)
    BY <2>1 DEF MsgOK, Listed, ListedAt
  <2>3. \A e : EntryOK(e, now, edits) => Listings(d, e) = 1
    BY DEF EntryOK, Listings, Tracked
  <2>. QED
    BY <2>2, <2>3 DEF Once
<1>4. Accounted(d)'
  BY <1>1, <1>2, <1>3, DeviceAccounts
<1>5. UNCHANGED <<store, index, saving, uploadMeta>> /\ toDevice'[d] = Tail(toDevice[d])
  BY <1>1 DEF DeviceReceive, DeviceTakes, serverVars, NetOK
<1>6. UNCHANGED <<edits, deleted>>
  BY DEF DeviceReceive, ReceiveList, ReceiveUploadSize, ReceiveUploadAck, ReceiveDownload,
         ReceiveDeleteAnswer, userVars
<1>. QED
  BY <1>2, <1>4, <1>5, <1>6

(* A device has a newer version, were it still busy.                       *)
StillNewer(d, p) == WrittenAt(fs'[d][p], db'[d][p], busy[d], index[p], deleted)

StillMeant(d, w) ==
  PathMsgAt(w, fs'[d][w.path], db'[d][w.path], busy[d], index[w.path], deleted,
            w.path \in saving, uploadMeta[d][w.path])

(* A device that goes on, or unlocks itself as nothing is left to report.  *)
LEMMA DeviceEnds ==
  ASSUME IInv, SInv, NetOK', NEW d \in Device, DeviceReceive(d), failure' = failure,
         now' \in Nat, now <= now',
         \A g \in Device \ {d} : fs'[g] = fs[g] /\ db'[g] = db[g],
         \A p \in Path :
            /\ PathOK(index[p], Files(p)', Entries(p)', busy, deleted, now', edits)
            /\ Contents(index[p], Files(p)') \subseteq Versions(p) \cup {-1}
            /\ StillNewer(d, p) => Pending(d, p)',
         \A w \in Flying(d)' : /\ w.type \notin {"list", "listRequest"} /\ w.path \in Path
                               /\ StillMeant(d, w)
  PROVE  SInv'
<1>1. /\ UNCHANGED <<edits, deleted, store, index, saving, uploadMeta>>
      /\ SyncOK' /\ OnlyConcerns(d) /\ Accounted(d)'
  BY DeviceLeaves
<1>2. busy[d]
  BY DeviceFinds
<1>3. \A g \in Device \ {d} : busy'[g] = busy[g]
  BY <1>1 DEF OnlyConcerns, Same
<1>4. ASSUME ~busy'[d]
      PROVE  DeviceInv(d)' /\ \A p \in Path :
               PathOK(index[p], Files(p)', Entries(p)', busy', deleted, now', edits)
  <2>1. Drained(d)'
    BY <1>1, <1>4 DEF Accounted
  <2>2. Flying(d)' = {}
    BY <2>1, SentNothing DEF Drained, Flying
  <2>3. ASSUME NEW p \in Path
        PROVE  PathOK(index[p], Files(p)', Entries(p)', busy', deleted, now', edits)
    <3>1. ~StillNewer(d, p)
      BY <2>2 DEF Pending
    <3>2. Files(p)'[d] = fs'[d][p] /\ Entries(p)'[d] = db'[d][p]
      BY DEF Files, Entries
    <3>3. ~WrittenAt(Files(p)'[d], Entries(p)'[d], busy[d], index[p], deleted)
      BY <3>1, <3>2 DEF StillNewer
    <3>4. Except(Files(p)', Entries(p)', busy, Files(p)', Entries(p)', busy', d)
      BY <1>3 DEF Except
    <3>. QED
      BY <1>4, <3>3, <3>4, PathUnlock
  <2>4. DeviceInv(d)'
    BY <1>1, <1>4, <2>2 DEF DeviceInv, Owes
  <2>. QED
    BY <2>3, <2>4
<1>5. ASSUME busy'[d]
      PROVE  DeviceInv(d)' /\ \A p \in Path :
               PathOK(index[p], Files(p)', Entries(p)', busy', deleted, now', edits)
  <2>1. busy' = busy
    BY <1>1, <1>2, <1>3, <1>5 DEF SInv, SyncOK
  <2>2. ASSUME NEW w \in Flying(d)'
        PROVE  MsgOK(d, w)'
    BY <1>1, <2>1 DEF MsgOK, PathMsg, StillMeant
  <2>3. \A p \in Path : Newer(d, p)' => Pending(d, p)'
    BY <1>1, <2>1 DEF Newer, StillNewer
  <2>4. DeviceInv(d)'
    BY <1>1, <2>2, <2>3 DEF DeviceInv, Owes
  <2>5. \A p \in Path : PathOK(index[p], Files(p)', Entries(p)', busy', deleted, now', edits)
    BY <2>1
  <2>. QED
    BY <2>4, <2>5
<1>6. /\ DeviceInv(d)'
      /\ \A p \in Path : PathOK(index[p], Files(p)', Entries(p)', busy', deleted, now', edits)
  <2>1. busy'[d] \in BOOLEAN
    BY <1>1 DEF SyncOK
  <2>. QED
    BY <1>4, <1>5, <2>1
<1>7. \A g \in Device \ {d} : DeviceInv(g)'
  <2>1. NetOK /\ now \in Nat /\ edits \in Nat /\ \A g \in Device \ {d} : DeviceInv(g) /\ Same(g)
    BY <1>1 DEF IInv, SInv, OnlyConcerns
  <2>2. \A g \in Device \ {d} : fs'[g] = fs[g] /\ db'[g] = db[g] /\ uploadMeta'[g] = uploadMeta[g]
    BY <1>1
  <2>. QED
    BY <1>1, <2>1, <2>2, UntouchedDevice
<1>8. \A p \in Path : PathInv(p)' /\ Versions(p)' \subseteq Versions(p) \cup {-1}
  BY <1>1, <1>6 DEF SInv, PathInv, Versions
<1>9. Disjoint'
  BY <1>8, DisjointStays DEF SInv
<1>10. NothingFails' /\ edits' \in Nat
  BY <1>1 DEF SInv, NothingFails, Running
<1>. QED
  BY <1>1, <1>6, <1>7, <1>8, <1>9, <1>10 DEF SInv

(* A step of a device leaves another path as it was, at a later time.      *)
LEMMA PathUntouched ==
  ASSUME NEW q \in Path, now' \in Nat, now <= now',
         PathOK(index[q], Files(q), Entries(q), busy, deleted, now, edits),
         \A g \in Device : Files(q)'[g] = Files(q)[g] /\ Entries(q)'[g] = Entries(q)[g]
  PROVE  PathOK(index[q], Files(q)', Entries(q)', busy, deleted, now', edits)
<1>1. deleted \in SUBSET (1..edits) /\ edits \in Nat /\ edits <= edits
  BY DEF PathOK
<1>2. \A g \in Device : /\ Files(q)'[g] = Files(q)[g] /\ Entries(q)'[g] = Entries(q)[g]
                        /\ busy[g] = busy[g]
  OBVIOUS
<1>3. \A c \in Contents(index[q], Files(q)) : c \in deleted => c \in deleted
  OBVIOUS
<1>. QED
  BY <1>1, <1>2, <1>3, PathStays

(* A device that takes an answer of path p, where it sends X.              *)
LEMMA DeviceTakesOne ==
  ASSUME IInv, SInv, NetOK', NEW d \in Device, DeviceReceive(d), failure' = failure,
         now' \in Nat, now <= now',
         NEW m, m = Head(toDevice[d]), m.type # "list", NEW p \in Path, p = m.path,
         \A g \in Device \ {d} : fs'[g] = fs[g] /\ db'[g] = db[g],
         \A q \in Path \ {p} : fs'[d][q] = fs[d][q] /\ db'[d][q] = db[d][q],
         PathOK(index[p], Files(p)', Entries(p)', busy, deleted, now', edits),
         Contents(index[p], Files(p)') \subseteq Versions(p) \cup {-1},
         NEW X, Flying(d)' = Left(d) \cup X,
         \A x \in X : /\ x.type \notin {"list", "listRequest"} /\ x.path = p
                      /\ StillMeant(d, x),
         StillNewer(d, p) => \E x \in X : x.type \in PendingTypes
  PROVE  SInv'
<1>1. /\ ~Listing(d) /\ busy[d] /\ Flying(d) = {m} \cup Left(d)
      /\ \A w \in Left(d) : w.path # p /\ w.type \notin {"list", "listRequest"}
  BY DeviceFinds
<1>2. DeviceInv(d)
  BY DEF SInv
<1>3. ASSUME NEW q \in Path \ {p}
      PROVE  /\ PathOK(index[q], Files(q)', Entries(q)', busy, deleted, now', edits)
             /\ Contents(index[q], Files(q)') \subseteq Versions(q) \cup {-1}
  <2>1. PathOK(index[q], Files(q), Entries(q), busy, deleted, now, edits)
    BY DEF SInv, PathInv
  <2>2. \A g \in Device : Files(q)'[g] = Files(q)[g] /\ Entries(q)'[g] = Entries(q)[g]
    BY DEF Files, Entries
  <2>3. deleted \in SUBSET (1..edits) /\ edits \in Nat /\ edits <= edits
    BY <2>1 DEF PathOK
  <2>4. PathOK(index[q], Files(q)', Entries(q)', busy, deleted, now', edits)
    BY <2>1, <2>2, PathUntouched
  <2>. QED
    BY <2>2, <2>4 DEF Versions, Contents
<1>4. ASSUME NEW q \in Path, StillNewer(d, q)
      PROVE  Pending(d, q)'
  <2>1. CASE q = p
    BY <1>4, <2>1 DEF Pending
  <2>2. CASE q # p
    <3>1. Newer(d, q)
      BY <1>4, <2>2 DEF Newer, StillNewer
    <3>2. Pending(d, q)
      BY <1>1, <1>2, <3>1 DEF DeviceInv, Owes
    <3>3. PICK w \in Flying(d) : w.type \in PendingTypes /\ w.path = q
      BY <3>2 DEF Pending
    <3>4. w \in Left(d)
      BY <1>1, <2>2, <3>3
    <3>. QED
      BY <3>3, <3>4 DEF Pending
  <2>. QED
    BY <2>1, <2>2
<1>5. ASSUME NEW w \in Left(d)
      PROVE  w.path \in Path /\ StillMeant(d, w)
  <2>1. w.path \in Path \ {p} /\ PathMsg(d, w)
    BY <1>1, <1>2 DEF DeviceInv, MsgOK
  <2>. QED
    BY <2>1 DEF PathMsg, StillMeant
<1>. QED
  BY <1>1, <1>3, <1>4, <1>5, DeviceEnds

(* What is on the connection when the answer is taken.                     *)
LEMMA DeviceSends ==
  ASSUME IInv, SInv, NetOK', NEW d \in Device, DeviceReceive(d)
  PROVE  /\ \A x : toServer' = [toServer EXCEPT ![d] = Append(@, x)] =>
                     Flying(d)' = Left(d) \cup {x}
         /\ toServer' = toServer => Flying(d)' = Left(d) \cup {}
<1>1. toServer[d] \in Seq(ServerMsg) /\ toServer \in [Device -> Seq(ServerMsg)]
  BY DEF IInv, NetOK
<1>2. toDevice'[d] = Tail(toDevice[d])
  BY DeviceLeaves
<1>3. ASSUME NEW x, toServer' = [toServer EXCEPT ![d] = Append(@, x)]
      PROVE  Flying(d)' = Left(d) \cup {x}
  <2>. DEFINE T == ServerMsg \cup {x}
  <2>1. toServer[d] \in Seq(T) /\ x \in T
    BY <1>1
  <2>. HIDE DEF T
  <2>2. Sent(Tail(toDevice[d]), Append(toServer[d], x)) = Sent(Tail(toDevice[d]), toServer[d]) \cup {x}
    BY <2>1, SentAnswered
  <2>3. toServer'[d] = Append(toServer[d], x)
    BY <1>1, <1>3
  <2>4. /\ Sent(Append(toServer[d], x), Tail(toDevice[d]))
             = Sent(Tail(toDevice[d]), Append(toServer[d], x))
        /\ Left(d) = Sent(Tail(toDevice[d]), toServer[d])
    BY SentSwaps DEF Left
  <2>. QED
    BY <1>2, <2>2, <2>3, <2>4 DEF Flying
<1>4. toServer' = toServer => Flying(d)' = Left(d) \cup {}
  BY <1>2 DEF Flying, Left
<1>. QED
  BY <1>3, <1>4

LEMMA UploadSizeSettled ==
  ASSUME IInv, SInv, NetOK', NEW d \in Device, DeviceReceive(d),
         NEW m, m = Head(toDevice[d]), ReceiveUploadSize(d, m)
  PROVE  SInv'
<1>1. m.type = "uploadSize" /\ UNCHANGED <<now, edits, deleted, fs, db>>
  BY DEF ReceiveUploadSize, userVars
<1>2. PICK p : p = m.path
  OBVIOUS
<1>3. MsgOK(d, m) /\ Fits(m, uploading[d], downloading[d])
  BY <1>1, DeviceFinds
<1>4. p \in Path /\ PathMsg(d, m) /\ p \in uploading[d]
  BY <1>1, <1>2, <1>3 DEF MsgOK, Fits, UploadTypes
<1>5. /\ WrittenAt(fs[d][p], db[d][p], busy[d], index[p], deleted) /\ m.chunks = 1
      /\ p \in saving
      /\ uploadMeta[d][p] = [mtime |-> fs[d][p].mtime, hash |-> fs[d][p].content]
  BY <1>1, <1>2, <1>4 DEF PathMsg, PathMsgAt
<1>6. PICK x : x = [type |-> "chunk", path |-> m.path, content |-> fs[d][p].content]
  OBVIOUS
<1>7. x.type = "chunk" /\ x.path = p /\ x.content = fs[d][p].content
  BY <1>2, <1>6
<1>8. toServer' = [toServer EXCEPT ![d] = Append(@, x)] /\ failure' = failure
  <2>1. Present(fs[d][m.path])
    BY <1>2, <1>5 DEF WrittenAt
  <2>2. m.path \in uploading[d] /\ m.chunks # 0
    BY <1>2, <1>4, <1>5
  <2>3. /\ toServer' = [toServer EXCEPT ![d] = Append(@,
              [type |-> "chunk", path |-> m.path, content |-> fs[d][m.path].content])]
        /\ failure' = failure
    BY <2>1, <2>2 DEF ReceiveUploadSize
  <2>. QED
    BY <1>2, <1>6, <2>3
<1>9. Flying(d)' = Left(d) \cup {x}
  BY <1>8, DeviceSends
<1>10. StillMeant(d, x)
  <2>1. PathMsgAt(x, fs[d][p], db[d][p], busy[d], index[p], deleted,
                  p \in saving, uploadMeta[d][p])
    BY <1>5, <1>7 DEF PathMsgAt
  <2>. QED
    BY <1>1, <1>7, <2>1 DEF StillMeant
<1>11. /\ PathOK(index[p], Files(p)', Entries(p)', busy, deleted, now', edits)
       /\ Contents(index[p], Files(p)') \subseteq Versions(p) \cup {-1}
       /\ now' \in Nat /\ now <= now'
  BY <1>1, <1>4 DEF SInv, PathInv, Versions, Files, Entries
<1>12. /\ \A g \in Device \ {d} : fs'[g] = fs[g] /\ db'[g] = db[g]
       /\ \A q \in Path \ {p} : fs'[d][q] = fs[d][q] /\ db'[d][q] = db[d][q]
  BY <1>1
<1>13. /\ m.type # "list" /\ x.type \notin {"list", "listRequest"} /\ x.type \in PendingTypes
  BY <1>1, <1>7 DEF PendingTypes
<1>14. PICK X : X = {x}
  OBVIOUS
<1>15. /\ Flying(d)' = Left(d) \cup X
       /\ \A y \in X : /\ y.type \notin {"list", "listRequest"} /\ y.path = p
                      /\ StillMeant(d, y)
       /\ StillNewer(d, p) => \E y \in X : y.type \in PendingTypes
  BY <1>7, <1>9, <1>10, <1>13, <1>14
<1>16. p \in Path /\ p = m.path /\ m.type # "list" /\ failure' = failure
  BY <1>2, <1>4, <1>8, <1>13
<1>. QED
  BY <1>11, <1>12, <1>15, <1>16, DeviceTakesOne, SMTT(120)

LEMMA UploadAckSettled ==
  ASSUME IInv, SInv, NetOK', NEW d \in Device, DeviceReceive(d),
         NEW m, m = Head(toDevice[d]), ReceiveUploadAck(d, m)
  PROVE  SInv'
<1>1. m.type = "uploadAck" /\ UNCHANGED <<now, edits, deleted, fs, db, toServer>>
  BY DEF ReceiveUploadAck, userVars
<1>2. PICK p : p = m.path
  OBVIOUS
<1>3. /\ MsgOK(d, m) /\ Fits(m, uploading[d], downloading[d])
      /\ busy[d] /\ ~Listing(d) /\ Flying(d) = {m} \cup Left(d)
      /\ \A w \in Left(d) : w.path # p
  BY <1>1, <1>2, DeviceFinds
<1>4. p \in Path /\ p \in uploading[d]
  BY <1>1, <1>2, <1>3 DEF MsgOK, Fits, UploadTypes
<1>5. failure' = failure
  BY <1>2, <1>4 DEF ReceiveUploadAck
<1>6. Flying(d)' = Left(d) \cup {}
  BY <1>1, DeviceSends
<1>7. ~StillNewer(d, p)
  <2>. SUFFICES ASSUME StillNewer(d, p) PROVE FALSE
    OBVIOUS
  <2>1. Newer(d, p)
    BY <1>1 DEF Newer, StillNewer
  <2>2. Pending(d, p)
    BY <1>3, <1>4, <2>1 DEF SInv, DeviceInv, Owes
  <2>. QED
    BY <1>1, <1>3, <2>2 DEF Pending, PendingTypes
<1>8. /\ PathOK(index[p], Files(p)', Entries(p)', busy, deleted, now', edits)
      /\ Contents(index[p], Files(p)') \subseteq Versions(p) \cup {-1}
      /\ now' \in Nat /\ now <= now'
  BY <1>1, <1>4 DEF SInv, PathInv, Versions, Files, Entries
<1>9. /\ \A g \in Device \ {d} : fs'[g] = fs[g] /\ db'[g] = db[g]
      /\ \A q \in Path \ {p} : fs'[d][q] = fs[d][q] /\ db'[d][q] = db[d][q]
  BY <1>1
<1>10. PICK X : X = {}
  OBVIOUS
<1>11. /\ Flying(d)' = Left(d) \cup X
       /\ \A y \in X : /\ y.type \notin {"list", "listRequest"} /\ y.path = p
                      /\ StillMeant(d, y)
       /\ StillNewer(d, p) => \E y \in X : y.type \in PendingTypes
  BY <1>6, <1>7, <1>10
<1>12. p \in Path /\ p = m.path /\ m.type # "list" /\ failure' = failure
  BY <1>1, <1>2, <1>4, <1>5
<1>. QED
  BY <1>8, <1>9, <1>11, <1>12, DeviceTakesOne, SMTT(120)

(* A file that has come is what the server has.                            *)
LEMMA PathDownloads ==
  ASSUME NEW x, NEW F, NEW E, NEW B, NEW del, NEW n, NEW k, PathOK(x, F, E, B, del, n, k),
         NEW d \in Device, Tracked(x), BehindAt(F[d], E[d], x, del),
         NEW F2, NEW E2, Except(F, E, B, F2, E2, B, d), NEW n2, n2 = n + 1,
         F2[d] = [content |-> x.hash, mtime |-> n2],
         E2[d] = RecordFile(E[d], x.mtime, x.hash)
  PROVE  /\ PathOK(x, F2, E2, B, del, n2, k)
         /\ Contents(x, F2) \subseteq Contents(x, F) \cup {-1}
         /\ CurrentAt(F2[d], E2[d], x) /\ SideOK(F2[d], E2[d], B[d], n2, k)
<1>1. /\ n \in Nat /\ k \in Nat /\ n2 \in Nat /\ n <= n2
      /\ EntryShape(x, n, k) /\ EntryOK(x, n, k)
      /\ FileShape(F[d], n, k) /\ EntryShape(E[d], n, k)
      /\ SideOK(F[d], E[d], B[d], n, k) /\ EntryOK(E[d], n, k)
  <2>1. /\ n \in Nat /\ k \in Nat /\ EntryShape(x, n, k)
        /\ FileShape(F[d], n, k) /\ EntryShape(E[d], n, k)
    BY PathShapes
  <2>. QED
    BY <2>1 DEF PathOK, SideOK
<1>2. x.hash \in Int /\ x.hash >= 1 /\ x.hash <= k /\ x.mtime \in Int
      /\ x.mtime >= 1 /\ x.mtime <= n
  BY <1>1 DEF EntryShape
<1>3. E[d].tomb = NoTime
  <2>1. CASE F[d] = NoFile /\ E[d] = Untracked
    BY <2>1 DEF Untracked
  <2>2. CASE OlderAt(F[d], E[d], x.mtime)
    BY <1>1, <2>2 DEF OlderAt, EntryShape, FileShape, NoTime
  <2>. QED
    BY <2>1, <2>2 DEF BehindAt, Buried
<1>4. E2[d] = [mtime |-> x.mtime, hash |-> x.hash, tomb |-> NoTime]
  BY <1>1, <1>2, <1>3, RecordedFields
<1>5. Present(F2[d]) /\ F2[d].content = x.hash /\ F2[d].mtime = n2 /\ E2[d].hash = x.hash
  <2>1. F2[d].content = x.hash /\ F2[d].mtime = n2 /\ E2[d].hash = x.hash
    BY <1>4
  <2>. QED
    BY <1>2, <2>1, NoFileShape DEF Present
<1>6. CurrentAt(F2[d], E2[d], x)
  BY <1>5 DEF CurrentAt
<1>7. SideOK(F2[d], E2[d], B[d], n2, k)
  <2>1. FileOK(F2[d], n2, k)
    <3>1. x.hash \in 1..k /\ n2 \in 1..n2
      BY <1>1, <1>2
    <3>. QED
      BY <3>1 DEF FileOK
  <2>2. EntryOK(E2[d], n2, k)
    <3>1. x.hash \in 1..k /\ x.mtime \in 1..n2
      BY <1>1, <1>2
    <3>. QED
      BY <1>4, <3>1 DEF EntryOK
  <2>. QED
    BY <1>5, <2>1, <2>2 DEF SideOK
<1>8. ~CurrentAt(F[d], E[d], x)
  BY <1>1, CurrentAlone
<1>9. /\ PathOK(x, F2, E2, B, del, n2, k)
      /\ Contents(x, F2) \subseteq Contents(x, F) \cup {-1}
  BY <1>1, <1>6, <1>7, <1>8, PathCatchesUp
<1>. QED
  BY <1>6, <1>7, <1>9

LEMMA DownloadSettled ==
  ASSUME IInv, SInv, NetOK', NEW d \in Device, DeviceReceive(d),
         NEW m, m = Head(toDevice[d]), ReceiveDownload(d, m)
  PROVE  SInv'
<1>1. m.type = "download" /\ UNCHANGED <<edits, deleted, toServer>>
  BY DEF ReceiveDownload
<1>2. PICK p : p = m.path
  OBVIOUS
<1>3. MsgOK(d, m) /\ Fits(m, uploading[d], downloading[d])
  BY <1>1, DeviceFinds
<1>4. p \in Path /\ PathMsg(d, m) /\ p \in downloading[d]
  BY <1>1, <1>2, <1>3 DEF MsgOK, Fits, DownloadTypes
<1>5. /\ Tracked(index[p]) /\ BehindAt(fs[d][p], db[d][p], index[p], deleted)
      /\ m.mtime = index[p].mtime /\ m.hash = index[p].hash /\ m.content = index[p].hash
  BY <1>1, <1>2, <1>4 DEF PathMsg, PathMsgAt
<1>6. PathOK(index[p], Files(p), Entries(p), busy, deleted, now, edits) /\ now \in Nat
      /\ EntryShape(index[p], now, edits)
  BY <1>4, AtPath DEF SInv, PathInv
<1>7. m.content # Empty /\ m.path \in downloading[d]
  <2>1. index[p].hash >= 1 /\ index[p].hash \in Int
    BY <1>5, <1>6 DEF EntryShape
  <2>. QED
    BY <1>2, <1>4, <1>5, <2>1 DEF Empty
<1>8. /\ now' = now + 1 /\ failure' = failure
      /\ fs' = [fs EXCEPT ![d][p] = [content |-> m.content, mtime |-> now + 1]]
      /\ db' = [db EXCEPT ![d][p] = RecordFile(@, m.mtime, m.hash)]
  BY <1>2, <1>7 DEF ReceiveDownload
<1>9. /\ fs \in [Device -> [Path -> FileState]] /\ db \in [Device -> [Path -> Entry]]
  BY DEF IInv, DevicesOK
<1>10. /\ fs'[d][p] = [content |-> index[p].hash, mtime |-> now + 1]
       /\ db'[d][p] = RecordFile(db[d][p], index[p].mtime, index[p].hash)
       /\ \A g \in Device \ {d} : fs'[g] = fs[g] /\ db'[g] = db[g]
       /\ \A q \in Path \ {p} : fs'[d][q] = fs[d][q] /\ db'[d][q] = db[d][q]
  BY <1>4, <1>5, <1>8, <1>9
<1>11. /\ \A g \in Device : Files(p)[g] = fs[g][p] /\ Entries(p)[g] = db[g][p]
       /\ \A g \in Device : Files(p)'[g] = fs'[g][p] /\ Entries(p)'[g] = db'[g][p]
  BY DEF Files, Entries
<1>12. /\ PathOK(index[p], Files(p)', Entries(p)', busy, deleted, now', edits)
       /\ Contents(index[p], Files(p)') \subseteq Contents(index[p], Files(p)) \cup {-1}
       /\ CurrentAt(Files(p)'[d], Entries(p)'[d], index[p])
       /\ SideOK(Files(p)'[d], Entries(p)'[d], busy[d], now', edits)
  <2>1. Except(Files(p), Entries(p), busy, Files(p)', Entries(p)', busy, d)
    BY <1>4, <1>10, <1>11 DEF Except
  <2>2. /\ BehindAt(Files(p)[d], Entries(p)[d], index[p], deleted)
        /\ Files(p)'[d] = [content |-> index[p].hash, mtime |-> now']
        /\ Entries(p)'[d] = RecordFile(Entries(p)[d], index[p].mtime, index[p].hash)
    BY <1>5, <1>8, <1>10, <1>11
  <2>3. PathOK(index[p], Files(p)', Entries(p)', busy, deleted, now', edits)
    BY <1>5, <1>6, <1>8, <2>1, <2>2, PathDownloads, SMTT(60)
  <2>4. Contents(index[p], Files(p)') \subseteq Contents(index[p], Files(p)) \cup {-1}
    BY <1>5, <1>6, <1>8, <2>1, <2>2, PathDownloads, SMTT(60)
  <2>5. CurrentAt(Files(p)'[d], Entries(p)'[d], index[p])
    BY <1>5, <1>6, <1>8, <2>1, <2>2, PathDownloads, SMTT(60)
  <2>6. SideOK(Files(p)'[d], Entries(p)'[d], busy[d], now', edits)
    BY <1>5, <1>6, <1>8, <2>1, <2>2, PathDownloads, SMTT(60)
  <2>. QED
    BY <2>3, <2>4, <2>5, <2>6
<1>13. /\ PathOK(index[p], Files(p)', Entries(p)', busy, deleted, now', edits)
       /\ Contents(index[p], Files(p)') \subseteq Versions(p) \cup {-1}
       /\ now' \in Nat /\ now <= now'
  BY <1>6, <1>8, <1>12 DEF Versions
<1>14. ~StillNewer(d, p)
  <2>1. /\ CurrentAt(fs'[d][p], db'[d][p], index[p])
        /\ SideOK(fs'[d][p], db'[d][p], busy[d], now', edits)
    BY <1>8, <1>11, <1>12
  <2>2. EntryOK(index[p], now', edits) /\ now' \in Nat /\ edits \in Nat
    BY <1>13 DEF PathOK
  <2>. QED
    BY <2>1, <2>2, CurrentAlone DEF StillNewer
<1>15. Flying(d)' = Left(d) \cup {}
  BY <1>1, DeviceSends
<1>16. PICK X : X = {}
  OBVIOUS
<1>17. /\ Flying(d)' = Left(d) \cup X
       /\ \A y \in X : /\ y.type \notin {"list", "listRequest"} /\ y.path = p
                      /\ StillMeant(d, y)
       /\ StillNewer(d, p) => \E y \in X : y.type \in PendingTypes
  BY <1>14, <1>15, <1>16
<1>18. p \in Path /\ p = m.path /\ m.type # "list" /\ failure' = failure
  BY <1>1, <1>2, <1>4, <1>8
<1>. QED
  BY <1>10, <1>13, <1>17, <1>18, DeviceTakesOne, SMTT(120)

LEMMA DeletedAnswerSettled ==
  ASSUME IInv, SInv, NetOK', NEW d \in Device, DeviceReceive(d), failure' = failure,
         NEW m, m = Head(toDevice[d]), ReceiveDeleteAnswer(d, m), m.done
  PROVE  SInv'
<1>1. /\ m.type = "deleteAnswer" /\ UNCHANGED <<now, edits, deleted, fs, toServer>>
      /\ db' = IF m.done THEN [db EXCEPT ![d][m.path] = RecordDeletion(@, 0)] ELSE db
  BY DEF ReceiveDeleteAnswer, userVars
<1>2. PICK p : p = m.path
  OBVIOUS
<1>3. MsgOK(d, m)
  BY <1>1, DeviceFinds
<1>4. p \in Path /\ PathMsg(d, m)
  BY <1>1, <1>2, <1>3 DEF MsgOK
<1>5. Buried(index[p]) /\ fs[d][p] = NoFile /\ ~Tracked(db[d][p])
  BY <1>1, <1>2, <1>4 DEF PathMsg, PathMsgAt
<1>6. /\ PathOK(index[p], Files(p), Entries(p), busy, deleted, now, edits)
      /\ now \in Nat /\ edits \in Nat
      /\ SideOK(fs[d][p], db[d][p], busy[d], now, edits)
  BY <1>4, AtPath DEF SInv, PathInv
<1>7. fs \in [Device -> [Path -> FileState]] /\ db \in [Device -> [Path -> Entry]]
  BY DEF IInv, DevicesOK
<1>8. /\ fs'[d][p] = NoFile
      /\ db'[d][p] = db[d][p] \/ db'[d][p] = [mtime |-> NoTime, hash |-> NoHash, tomb |-> 0]
      /\ \A g \in Device \ {d} : fs'[g] = fs[g] /\ db'[g] = db[g]
      /\ \A q \in Path \ {p} : fs'[d][q] = fs[d][q] /\ db'[d][q] = db[d][q]
  BY <1>1, <1>2, <1>4, <1>5, <1>7 DEF RecordDeletion
<1>9. /\ \A g \in Device : Files(p)[g] = fs[g][p] /\ Entries(p)[g] = db[g][p]
      /\ \A g \in Device : Files(p)'[g] = fs'[g][p] /\ Entries(p)'[g] = db'[g][p]
  BY DEF Files, Entries
<1>10. CurrentAt(fs'[d][p], db'[d][p], index[p])
  BY <1>5, <1>8 DEF CurrentAt, Buried
<1>11. SideOK(fs'[d][p], db'[d][p], busy[d], now, edits)
  <2>1. EntryOK(db'[d][p], now, edits) /\ ~Tracked(db'[d][p])
    <3>1. CASE db'[d][p] = db[d][p]
      BY <1>5, <1>6, <3>1 DEF SideOK
    <3>2. CASE db'[d][p] = [mtime |-> NoTime, hash |-> NoHash, tomb |-> 0]
      <4>1. 0 \in -1..now
        BY <1>6
      <4>. QED
        BY <3>2, <4>1 DEF EntryOK, Tracked
    <3>. QED
      BY <1>8, <3>1, <3>2
  <2>. QED
    BY <1>8, <2>1, NoFileShape DEF SideOK, FileOK
<1>12. /\ PathOK(index[p], Files(p)', Entries(p)', busy, deleted, now, edits)
       /\ Contents(index[p], Files(p)') \subseteq Contents(index[p], Files(p)) \cup {-1}
  <2>1. Except(Files(p), Entries(p), busy, Files(p)', Entries(p)', busy, d)
    BY <1>4, <1>8, <1>9 DEF Except
  <2>2. /\ CurrentAt(Files(p)'[d], Entries(p)'[d], index[p])
        /\ SideOK(Files(p)'[d], Entries(p)'[d], busy[d], now, edits)
        /\ ~CurrentAt(Files(p)[d], Entries(p)[d], index[p]) \/ Buried(index[p])
        /\ now <= now
    BY <1>5, <1>6, <1>9, <1>10, <1>11
  <2>. QED
    BY <1>6, <2>1, <2>2, PathCatchesUp, SMTT(60)
<1>13. /\ PathOK(index[p], Files(p)', Entries(p)', busy, deleted, now', edits)
       /\ Contents(index[p], Files(p)') \subseteq Versions(p) \cup {-1}
       /\ now' \in Nat /\ now <= now'
  BY <1>1, <1>6, <1>12 DEF Versions
<1>14. ~StillNewer(d, p)
  BY <1>5, <1>8, NoFileShape DEF StillNewer, WrittenAt, RemovedAt, Buried
<1>15. Flying(d)' = Left(d) \cup {}
  BY <1>1, DeviceSends
<1>16. PICK X : X = {}
  OBVIOUS
<1>17. /\ Flying(d)' = Left(d) \cup X
       /\ \A y \in X : /\ y.type \notin {"list", "listRequest"} /\ y.path = p
                      /\ StillMeant(d, y)
       /\ StillNewer(d, p) => \E y \in X : y.type \in PendingTypes
  BY <1>14, <1>15, <1>16
<1>18. p \in Path /\ p = m.path /\ m.type # "list"
  BY <1>1, <1>2, <1>4
<1>. QED
  BY <1>8, <1>13, <1>17, <1>18, DeviceTakesOne, SMTT(120)

(* The file stays on the server, and the device has its tombstone.         *)
LEMMA FailedAnswerSettled ==
  ASSUME IInv, SInv, NetOK', NEW d \in Device, DeviceReceive(d), failure' = failure,
         NEW m, m = Head(toDevice[d]), ReceiveDeleteAnswer(d, m), ~m.done
  PROVE  SInv'
<1>1. m.type = "deleteAnswer" /\ UNCHANGED <<now, edits, deleted, fs, db, toServer>>
  BY DEF ReceiveDeleteAnswer, userVars
<1>2. PICK p : p = m.path
  OBVIOUS
<1>3. MsgOK(d, m)
  BY <1>1, DeviceFinds
<1>4. p \in Path /\ PathMsg(d, m)
  BY <1>1, <1>2, <1>3 DEF MsgOK
<1>5. fs[d][p] = NoFile
  BY <1>1, <1>2, <1>4 DEF PathMsg, PathMsgAt
<1>6. ~StillNewer(d, p)
  BY <1>1, <1>5, NoFileShape DEF StillNewer, WrittenAt
<1>7. /\ PathOK(index[p], Files(p)', Entries(p)', busy, deleted, now', edits)
      /\ Contents(index[p], Files(p)') \subseteq Versions(p) \cup {-1}
      /\ now' \in Nat /\ now <= now'
  BY <1>1, <1>4 DEF SInv, PathInv, Versions, Files, Entries
<1>8. /\ \A g \in Device \ {d} : fs'[g] = fs[g] /\ db'[g] = db[g]
      /\ \A q \in Path \ {p} : fs'[d][q] = fs[d][q] /\ db'[d][q] = db[d][q]
  BY <1>1
<1>9. Flying(d)' = Left(d) \cup {}
  BY <1>1, DeviceSends
<1>10. PICK X : X = {}
  OBVIOUS
<1>11. /\ Flying(d)' = Left(d) \cup X
       /\ \A y \in X : /\ y.type \notin {"list", "listRequest"} /\ y.path = p
                      /\ StillMeant(d, y)
       /\ StillNewer(d, p) => \E y \in X : y.type \in PendingTypes
  BY <1>6, <1>9, <1>10
<1>12. p \in Path /\ p = m.path /\ m.type # "list"
  BY <1>1, <1>2, <1>4
<1>. QED
  BY <1>7, <1>8, <1>11, <1>12, DeviceTakesOne, SMTT(120)

LEMMA DeleteAnswerSettled ==
  ASSUME IInv, SInv, NetOK', NEW d \in Device, DeviceReceive(d), failure' = failure,
         NEW m, m = Head(toDevice[d]), ReceiveDeleteAnswer(d, m)
  PROVE  SInv'
BY DeletedAnswerSettled, FailedAnswerSettled

(* What a sequence holds.                                                  *)
Held(q) == {q[i] : i \in DOMAIN q}

LEMMA HeldJoined ==
  ASSUME NEW S, NEW q \in Seq(S), NEW r \in Seq(S)
  PROVE  Held(q \o r) = Held(q) \cup Held(r) /\ q \o r \in Seq(S)
<1>1. /\ \A i \in DOMAIN q : i \in DOMAIN (q \o r) /\ (q \o r)[i] = q[i]
      /\ \A i \in DOMAIN r : /\ i + Len(q) \in DOMAIN (q \o r)
                             /\ (q \o r)[i + Len(q)] = r[i]
      /\ \A i \in DOMAIN (q \o r) :
            \/ i \in DOMAIN q /\ (q \o r)[i] = q[i]
            \/ i - Len(q) \in DOMAIN r /\ (q \o r)[i] = r[i - Len(q)]
  OBVIOUS
<1>2. q \o r \in Seq(S)
  OBVIOUS
<1>3. \A x \in Held(q \o r) : x \in Held(q) \cup Held(r)
  BY <1>1 DEF Held
<1>4. \A x \in Held(q) : x \in Held(q \o r)
  BY <1>1 DEF Held
<1>5. \A x \in Held(r) : x \in Held(q \o r)
  <2>. SUFFICES ASSUME NEW i \in DOMAIN r PROVE r[i] \in Held(q \o r)
    BY DEF Held
  <2>1. i + Len(q) \in DOMAIN (q \o r) /\ (q \o r)[i + Len(q)] = r[i]
    BY <1>1
  <2>. QED
    BY <2>1 DEF Held
<1>. QED
  BY <1>2, <1>3, <1>4, <1>5

(* The sequence of a finite set leaves nothing of it out.                  *)
LEMMA SetToSeqHolds ==
  ASSUME NEW S, IsFiniteSet(S)
  PROVE  SetToSeq(S) \in Seq(S) /\ Held(SetToSeq(S)) = S
<1>1. Cardinality(S) \in Nat /\ ExistsBijection(1..Cardinality(S), S)
  BY FS_CardinalityType
<1>2. PICK f \in [1..Cardinality(S) -> S] : IsInjective(f)
  BY <1>1 DEF ExistsBijection, Bijection, Injection, IsInjective
<1>3. SetToSeq(S) \in [1..Cardinality(S) -> S] /\ IsInjective(SetToSeq(S))
  BY <1>2 DEF SetToSeq
<1>4. SetToSeq(S) \in Injection(1..Cardinality(S), S)
  BY <1>3 DEF Injection, IsInjective
<1>5. Cardinality(1..Cardinality(S)) = Cardinality(S)
  <2>. DEFINE n == Cardinality(S)
  <2>1. n \in Nat
    BY <1>1
  <2>. HIDE DEF n
  <2>2. Cardinality(1..n) = IF 1 > n THEN 0 ELSE n - 1 + 1
    <3>1. 1 \in Int /\ n \in Int
      BY <2>1
    <3>. QED
      BY <3>1, FS_Interval, Zenon
  <2>3. Cardinality(1..n) = n
    BY <2>1, <2>2
  <2>. QED
    BY <2>3 DEF n
<1>6. SetToSeq(S) \in Surjection(1..Cardinality(S), S)
  BY <1>4, <1>5, FS_Injection, Zenon
<1>7. \A t \in S : \E i \in 1..Cardinality(S) : SetToSeq(S)[i] = t
  BY <1>6 DEF Surjection
<1>8. SetToSeq(S) \in Seq(S) /\ DOMAIN SetToSeq(S) = 1..Cardinality(S)
  BY <1>1, <1>3
<1>. QED
  BY <1>3, <1>7, <1>8 DEF Held

LEMMA InBucketHolds ==
  ASSUME NEW d \in Device, NEW entries, NEW bucket
  PROVE  LET ps == InBucket(d, entries, bucket)
         IN /\ ps \in Seq(Path \X {1, 2})
            /\ {ps[i][1] : i \in DOMAIN ps} = InBucketOf(d, entries, bucket)
<1>. DEFINE S == {pk \in Path \X {1, 2} : /\ Buckets(d, entries)[pk[1]] = bucket
                                        /\ pk[2] <= Listings(d, entries[pk[1]])}
            ps == SetToSeq(S)
<1>1. InBucket(d, entries, bucket) = ps
  BY DEF InBucket
<1>2. IsFiniteSet(S)
  <2>1. IsFiniteSet({1, 2})
    <3>1. IsFiniteSet({1} \cup {2}) /\ {1, 2} = {1} \cup {2}
      BY FS_Singleton, FS_AddElement, Zenon
    <3>. QED
      BY <3>1, Zenon
  <2>2. IsFiniteSet(Path \X {1, 2})
    BY <2>1, PathAssumption, FS_Product
  <2>. QED
    BY <2>2, FS_Subset
<1>3. ps \in Seq(S) /\ Held(ps) = S
  BY <1>2, SetToSeqHolds
<1>4. S \subseteq Path \X {1, 2}
  OBVIOUS
<1>5. {pk[1] : pk \in S} = InBucketOf(d, entries, bucket)
  <2>1. \A p \in InBucketOf(d, entries, bucket) : <<p, 1>> \in S /\ <<p, 1>>[1] = p
    BY DEF InBucketOf, Listings
  <2>2. \A pk \in S : pk[1] \in InBucketOf(d, entries, bucket)
    BY DEF InBucketOf
  <2>. HIDE DEF S
  <2>. QED
    BY <2>1, <2>2
<1>. HIDE DEF S, ps
<1>6. {ps[i][1] : i \in DOMAIN ps} = {pk[1] : pk \in S}
  BY <1>3 DEF Held
<1>7. ps \in Seq(Path \X {1, 2})
  BY <1>3, <1>4
<1>. QED
  BY <1>1, <1>5, <1>6, <1>7

(* What a device sends upon a list.                                        *)
LEMMA ListSends ==
  ASSUME DevicesOK, NEW d \in Device, NEW entries
  PROVE  LET q == TransferRequests(d, entries) \o DeleteRequests(d, entries)
             P(bucket) == InBucketOf(d, entries, bucket)
         IN /\ << >> \o TransferRequests(d, entries) \o DeleteRequests(d, entries) = q
            /\ Held(q) = {UploadRequest(d, p) : p \in P("OnlyInLeft") \cup P("ModifiedWinsLeft")}
                           \cup {DownloadRequest(p) :
                                   p \in P("OnlyInRight") \cup P("ModifiedWinsRight")}
                           \cup {DeleteRequest(d, p) : p \in P("DeletionWinsLeft")}
<1>. DEFINE P(bucket) == InBucketOf(d, entries, bucket)
            a == Uploads(d, entries, "OnlyInLeft")
            b == Downloads(d, entries, "OnlyInRight")
            c == Uploads(d, entries, "ModifiedWinsLeft")
            e == Downloads(d, entries, "ModifiedWinsRight")
            D == DeleteRequests(d, entries)
<1>1. ASSUME NEW bucket
      PROVE  /\ Uploads(d, entries, bucket) \in Seq(ServerMsg)
             /\ Held(Uploads(d, entries, bucket)) = {UploadRequest(d, p) : p \in P(bucket)}
  <2>. DEFINE ps == InBucket(d, entries, bucket)
  <2>1. ps \in Seq(Path \X {1, 2}) /\ {ps[i][1] : i \in DOMAIN ps} = P(bucket)
    BY InBucketHolds
  <2>. HIDE DEF ps, P
  <2>2. Uploads(d, entries, bucket) = [i \in 1..Len(ps) |-> UploadRequest(d, ps[i][1])]
    BY DEF Uploads, ps
  <2>3. \A i \in DOMAIN ps : UploadRequest(d, ps[i][1]) \in ServerMsg
    BY <2>1, UploadRequestTyped
  <2>4. DOMAIN ps = 1..Len(ps) /\ Len(ps) \in Nat
    BY <2>1
  <2>5. PICK u : u = Uploads(d, entries, bucket)
    OBVIOUS
  <2>6. u \in Seq(ServerMsg) /\ DOMAIN u = DOMAIN ps
    BY <2>2, <2>3, <2>4, <2>5
  <2>7. \A i \in DOMAIN ps : u[i] = UploadRequest(d, ps[i][1])
    BY <2>2, <2>4, <2>5
  <2>8. Held(u) = {UploadRequest(d, ps[i][1]) : i \in DOMAIN ps}
    BY <2>6, <2>7 DEF Held
  <2>9. {UploadRequest(d, ps[i][1]) : i \in DOMAIN ps} = {UploadRequest(d, p) : p \in P(bucket)}
    <3>1. \A i \in DOMAIN ps : ps[i][1] \in P(bucket)
      BY <2>1
    <3>2. \A p \in P(bucket) : \E i \in DOMAIN ps : ps[i][1] = p
      BY <2>1
    <3>. QED
      BY <3>1, <3>2
  <2>. QED
    BY <2>5, <2>6, <2>8, <2>9
<1>2. ASSUME NEW bucket
      PROVE  /\ Downloads(d, entries, bucket) \in Seq(ServerMsg)
             /\ Held(Downloads(d, entries, bucket)) = {DownloadRequest(p) : p \in P(bucket)}
  <2>. DEFINE ps == InBucket(d, entries, bucket)
  <2>1. ps \in Seq(Path \X {1, 2}) /\ {ps[i][1] : i \in DOMAIN ps} = P(bucket)
    BY InBucketHolds
  <2>. HIDE DEF ps, P
  <2>2. Downloads(d, entries, bucket) = [i \in 1..Len(ps) |-> DownloadRequest(ps[i][1])]
    BY DEF Downloads, ps
  <2>3. \A i \in DOMAIN ps : DownloadRequest(ps[i][1]) \in ServerMsg
    BY <2>1 DEF DownloadRequest, ServerMsg, DownloadMsg
  <2>4. DOMAIN ps = 1..Len(ps) /\ Len(ps) \in Nat
    BY <2>1
  <2>5. PICK u : u = Downloads(d, entries, bucket)
    OBVIOUS
  <2>6. u \in Seq(ServerMsg) /\ DOMAIN u = DOMAIN ps
    BY <2>2, <2>3, <2>4, <2>5
  <2>7. \A i \in DOMAIN ps : u[i] = DownloadRequest(ps[i][1])
    BY <2>2, <2>4, <2>5
  <2>8. Held(u) = {DownloadRequest(ps[i][1]) : i \in DOMAIN ps}
    BY <2>6, <2>7 DEF Held
  <2>9. {DownloadRequest(ps[i][1]) : i \in DOMAIN ps} = {DownloadRequest(p) : p \in P(bucket)}
    <3>1. \A i \in DOMAIN ps : ps[i][1] \in P(bucket)
      BY <2>1
    <3>2. \A p \in P(bucket) : \E i \in DOMAIN ps : ps[i][1] = p
      BY <2>1
    <3>. QED
      BY <3>1, <3>2
  <2>. QED
    BY <2>5, <2>6, <2>8, <2>9
<1>3. D \in Seq(ServerMsg) /\ Held(D) = {DeleteRequest(d, p) : p \in P("DeletionWinsLeft")}
  <2>. DEFINE ps == SetToSeq(P("DeletionWinsLeft"))
  <2>1. IsFiniteSet(P("DeletionWinsLeft"))
    BY PathAssumption, FS_Subset DEF InBucketOf
  <2>2. ps \in Seq(P("DeletionWinsLeft")) /\ Held(ps) = P("DeletionWinsLeft")
    BY <2>1, SetToSeqHolds
  <2>3. D = [i \in 1..Len(ps) |-> DeleteRequest(d, ps[i])]
    BY DEF DeleteRequests, InBucketOf
  <2>. HIDE DEF ps, P
  <2>4. D \in Seq(ServerMsg)
    BY RequestsTyped
  <2>5. DOMAIN ps = 1..Len(ps)
    BY <2>2
  <2>. QED
    BY <2>2, <2>3, <2>4, <2>5 DEF Held
<1>4. /\ a \in Seq(ServerMsg) /\ Held(a) = {UploadRequest(d, p) : p \in P("OnlyInLeft")}
      /\ b \in Seq(ServerMsg) /\ Held(b) = {DownloadRequest(p) : p \in P("OnlyInRight")}
      /\ c \in Seq(ServerMsg) /\ Held(c) = {UploadRequest(d, p) : p \in P("ModifiedWinsLeft")}
      /\ e \in Seq(ServerMsg) /\ Held(e) = {DownloadRequest(p) : p \in P("ModifiedWinsRight")}
  BY <1>1, <1>2
<1>5. TransferRequests(d, entries) = a \o b \o c \o e
  BY DEF TransferRequests
<1>. HIDE DEF a, b, c, e, D
<1>6. Held(a \o b) = Held(a) \cup Held(b) /\ a \o b \in Seq(ServerMsg)
  BY <1>4, HeldJoined
<1>7. Held(a \o b \o c) = Held(a \o b) \cup Held(c) /\ a \o b \o c \in Seq(ServerMsg)
  BY <1>4, <1>6, HeldJoined
<1>8. Held(a \o b \o c \o e) = Held(a \o b \o c) \cup Held(e) /\ a \o b \o c \o e \in Seq(ServerMsg)
  BY <1>4, <1>7, HeldJoined
<1>9. Held(a \o b \o c \o e \o D) = Held(a \o b \o c \o e) \cup Held(D)
  <2>1. PICK t : t = a \o b \o c \o e
    OBVIOUS
  <2>2. t \in Seq(ServerMsg)
    BY <1>8, <2>1
  <2>3. Held(t \o D) = Held(t) \cup Held(D)
    BY <1>3, <2>2, HeldJoined
  <2>. QED
    BY <2>1, <2>3
<1>10. Held(a \o b \o c \o e \o D)
         = {UploadRequest(d, p) : p \in P("OnlyInLeft") \cup P("ModifiedWinsLeft")}
             \cup {DownloadRequest(p) : p \in P("OnlyInRight") \cup P("ModifiedWinsRight")}
             \cup {DeleteRequest(d, p) : p \in P("DeletionWinsLeft")}
  <2>. HIDE DEF P
  <2>1. Held(a \o b \o c \o e \o D) = Held(a) \cup Held(b) \cup Held(c) \cup Held(e) \cup Held(D)
    BY <1>6, <1>7, <1>8, <1>9, Zenon
  <2>. QED
    BY <1>3, <1>4, <2>1
<1>11. << >> \o TransferRequests(d, entries) \o D = TransferRequests(d, entries) \o D
  BY <1>5, <1>8
<1>. QED
  BY <1>5, <1>10, <1>11 DEF D

(* What a device makes of a path of the list.                              *)
LEMMA ListFinds ==
  ASSUME IInv, SInv, NEW d \in Device, busy[d], NEW entries, Listed(d, entries), NEW p \in Path
  PROVE  Decided(Buckets(d, entries)[p], entries[p], fs[d][p], db[d][p], busy[d], index[p],
                 deleted)
<1>1. /\ now \in Nat /\ edits \in Nat /\ EntryOK(index[p], now, edits)
      /\ SideOK(fs[d][p], db[d][p], busy[d], now, edits)
      /\ Stands(fs[d][p], db[d][p], busy[d], index[p], deleted)
  BY AtPath DEF SInv
<1>2. ListedAt(entries[p], d, fs[d][p], db[d][p], busy[d], index[p], deleted, now, edits)
  BY DEF Listed
<1>3. Decided(ClassifyPath(SideOf(d, db[d][p]), SideOf(d, entries[p])), entries[p],
              fs[d][p], db[d][p], busy[d], index[p], deleted)
  <2>1. \A f, e, b, x, s, del : b /\ SideOK(f, e, b, now, edits) /\ EntryOK(x, now, edits)
           /\ Stands(f, e, b, x, del) /\ ListedAt(s, d, f, e, b, x, del, now, edits)
           => Decided(ClassifyPath(SideOf(d, e), SideOf(d, s)), s, f, e, b, x, del)
    BY <1>1, ListDecides, ZenonT(60)
  <2>2. busy[d] /\ SideOK(fs[d][p], db[d][p], busy[d], now, edits)
    BY <1>1
  <2>. QED
    BY <1>1, <1>2, <2>1, <2>2, ZenonT(60)
<1>4. Buckets(d, entries)[p] = ClassifyPath(SideOf(d, db[d][p]), SideOf(d, entries[p]))
  BY DEF Buckets
<1>. QED
  BY <1>3, <1>4

(* A device deletes its file of a path the server has buried.              *)
LEMMA PathFollows ==
  ASSUME NEW x, NEW F, NEW E, NEW B, NEW del, NEW n, NEW k, PathOK(x, F, E, B, del, n, k),
         NEW d \in Device, Buried(x),
         NEW F2, NEW E2, Except(F, E, B, F2, E2, B, d),
         F2[d] = NoFile, E2[d] = RecordDeletion(E[d], x.tomb)
  PROVE  /\ PathOK(x, F2, E2, B, del, n, k)
         /\ Contents(x, F2) \subseteq Contents(x, F) \cup {-1}
<1>1. n \in Nat /\ k \in Nat /\ EntryShape(x, n, k) /\ n <= n
  BY PathShapes
<1>2. E2[d] = [mtime |-> NoTime, hash |-> NoHash, tomb |-> x.tomb]
  BY DEF RecordDeletion
<1>3. SideOK(F2[d], E2[d], B[d], n, k) /\ CurrentAt(F2[d], E2[d], x)
  <2>1. EntryOK(E2[d], n, k) /\ ~Tracked(E2[d])
    <3>1. x.tomb \in -1..n
      BY <1>1 DEF EntryShape
    <3>. QED
      BY <1>2, <3>1 DEF EntryOK, Tracked
  <2>. QED
    BY <2>1, NoFileShape DEF SideOK, FileOK, CurrentAt, Buried
<1>. QED
  BY <1>1, <1>3, PathCatchesUp

LEMMA ListSettled ==
  ASSUME IInv, SInv, NetOK', NEW d \in Device, DeviceReceive(d),
         NEW m, m = Head(toDevice[d]), ReceiveList(d, m)
  PROVE  SInv'
<1>. DEFINE entries == m.entries
            gone == DeletedHere(d, entries)
            q == TransferRequests(d, entries) \o DeleteRequests(d, entries)
            c(p) == Buckets(d, entries)[p]
<1>1. m.type = "list" /\ UNCHANGED <<now, edits, deleted, failure>>
  BY DEF ReceiveList, userVars
<1>2. /\ busy[d] /\ MsgOK(d, m) /\ toServer[d] = << >> /\ Tail(toDevice[d]) = << >>
  BY <1>1, DeviceFinds
<1>3. Listed(d, entries)
  BY <1>1, <1>2 DEF MsgOK
<1>4. /\ fs \in [Device -> [Path -> FileState]] /\ db \in [Device -> [Path -> Entry]]
      /\ DevicesOK /\ toServer \in [Device -> Seq(ServerMsg)]
  BY DEF IInv, DevicesOK, NetOK
<1>5. UNCHANGED <<store, index, saving, uploadMeta>> /\ toDevice'[d] = << >>
  BY <1>2, DeviceLeaves
<1>6. /\ << >> \o TransferRequests(d, entries) \o DeleteRequests(d, entries) = q
      /\ Held(q) = {UploadRequest(d, p) : p \in InBucketOf(d, entries, "OnlyInLeft")
                                                  \cup InBucketOf(d, entries, "ModifiedWinsLeft")}
                     \cup {DownloadRequest(p) :
                             p \in InBucketOf(d, entries, "OnlyInRight")
                                     \cup InBucketOf(d, entries, "ModifiedWinsRight")}
                     \cup {DeleteRequest(d, p) : p \in InBucketOf(d, entries, "DeletionWinsLeft")}
  BY <1>4, ListSends
<1>7. toServer'[d] = q
  BY <1>2, <1>4, <1>6 DEF ReceiveList
<1>8. Flying(d)' = Held(q)
  BY <1>5, <1>7 DEF Flying, Sent, Held
<1>9. /\ \A p \in Path : /\ fs'[d][p] = (IF p \in gone THEN NoFile ELSE fs[d][p])
                         /\ db'[d][p] = (IF p \in gone
                                         THEN RecordDeletion(db[d][p], entries[p].tomb)
                                         ELSE db[d][p])
      /\ \A g \in Device \ {d} : fs'[g] = fs[g] /\ db'[g] = db[g]
  BY <1>4 DEF ReceiveList
<1>. HIDE DEF q, gone, entries, c
<1>10. \A p \in gone : p \in Path /\ c(p) = "DeletionWinsRight"
  BY DEF gone, DeletedHere, c
<1>11. ASSUME NEW p \in Path
       PROVE  /\ c(p) \in {"OnlyInLeft", "ModifiedWinsLeft"} <=>
                   WrittenAt(fs[d][p], db[d][p], busy[d], index[p], deleted)
              /\ c(p) = "DeletionWinsLeft" <=> RemovedAt(fs[d][p], db[d][p], busy[d], index[p])
              /\ c(p) \in {"OnlyInRight", "ModifiedWinsRight"} =>
                   BehindAt(fs[d][p], db[d][p], index[p], deleted) /\ Tracked(index[p])
              /\ c(p) = "DeletionWinsRight" =>
                   /\ BehindAt(fs[d][p], db[d][p], index[p], deleted) /\ Buried(index[p])
                   /\ entries[p].tomb = index[p].tomb /\ Present(fs[d][p])
  <2>1. Decided(Buckets(d, entries)[p], entries[p], fs[d][p], db[d][p], busy[d], index[p],
                deleted)
    BY <1>2, <1>3, ListFinds
  <2>. QED
    BY <2>1 DEF Decided, c
<1>12. ASSUME NEW p \in Path
       PROVE  /\ PathOK(index[p], Files(p)', Entries(p)', busy, deleted, now, edits)
              /\ Contents(index[p], Files(p)') \subseteq Versions(p) \cup {-1}
  <2>1. PathOK(index[p], Files(p), Entries(p), busy, deleted, now, edits)
    BY DEF SInv, PathInv
  <2>2. /\ \A g \in Device : Files(p)[g] = fs[g][p] /\ Entries(p)[g] = db[g][p]
        /\ \A g \in Device : Files(p)'[g] = fs'[g][p] /\ Entries(p)'[g] = db'[g][p]
    BY DEF Files, Entries
  <2>3. CASE p \in gone
    <3>1. Buried(index[p]) /\ entries[p].tomb = index[p].tomb
      BY <1>10, <1>11, <2>3
    <3>2. /\ Files(p)'[d] = NoFile
          /\ Entries(p)'[d] = RecordDeletion(Entries(p)[d], index[p].tomb)
      BY <1>9, <2>2, <2>3, <3>1
    <3>3. Except(Files(p), Entries(p), busy, Files(p)', Entries(p)', busy, d)
      BY <1>9, <2>2 DEF Except
    <3>4. PathOK(index[p], Files(p)', Entries(p)', busy, deleted, now, edits)
      BY <2>1, <3>1, <3>2, <3>3, PathFollows, SMTT(60)
    <3>5. Contents(index[p], Files(p)') \subseteq Contents(index[p], Files(p)) \cup {-1}
      BY <2>1, <3>1, <3>2, <3>3, PathFollows, SMTT(60)
    <3>. QED
      BY <3>4, <3>5 DEF Versions
  <2>4. CASE p \notin gone
    <3>1. \A g \in Device : Files(p)'[g] = Files(p)[g] /\ Entries(p)'[g] = Entries(p)[g]
      BY <1>9, <2>2, <2>4
    <3>2. Files(p)' = Files(p) /\ Entries(p)' = Entries(p)
      BY <3>1 DEF Files, Entries
    <3>. QED
      BY <2>1, <3>2 DEF Versions
  <2>. QED
    BY <2>3, <2>4
<1>13. ASSUME NEW p \in Path, p \notin gone
       PROVE  fs'[d][p] = fs[d][p] /\ db'[d][p] = db[d][p]
  BY <1>9, <1>13
<1>14. ASSUME NEW p \in Path, StillNewer(d, p)
       PROVE  Pending(d, p)'
  <2>1. p \notin gone
    <3>. SUFFICES ASSUME p \in gone PROVE FALSE
      OBVIOUS
    <3>1. fs'[d][p] = NoFile /\ Buried(index[p])
      BY <1>9, <1>10, <1>11
    <3>. QED
      BY <1>14, <3>1, NoFileShape DEF StillNewer, WrittenAt, RemovedAt, Buried
  <2>2. \/ WrittenAt(fs[d][p], db[d][p], busy[d], index[p], deleted)
        \/ RemovedAt(fs[d][p], db[d][p], busy[d], index[p])
    BY <1>13, <1>14, <2>1 DEF StillNewer
  <2>3. c(p) \in {"OnlyInLeft", "ModifiedWinsLeft", "DeletionWinsLeft"}
    BY <1>11, <2>2
  <2>4. CASE c(p) \in {"OnlyInLeft", "ModifiedWinsLeft"}
    <3>1. UploadRequest(d, p) \in Flying(d)'
      BY <1>6, <1>8, <2>4 DEF InBucketOf, c
    <3>2. UploadRequest(d, p).type = "uploadRequest" /\ UploadRequest(d, p).path = p
      BY DEF UploadRequest
    <3>. QED
      BY <3>1, <3>2 DEF Pending, PendingTypes
  <2>5. CASE c(p) = "DeletionWinsLeft"
    <3>1. DeleteRequest(d, p) \in Flying(d)'
      BY <1>6, <1>8, <2>5 DEF InBucketOf, c
    <3>2. DeleteRequest(d, p).type = "deleteRequest" /\ DeleteRequest(d, p).path = p
      BY DEF DeleteRequest
    <3>. QED
      BY <3>1, <3>2 DEF Pending, PendingTypes
  <2>. QED
    BY <2>3, <2>4, <2>5
<1>15. ASSUME NEW w \in Flying(d)'
       PROVE  w.type \notin {"list", "listRequest"} /\ w.path \in Path /\ StillMeant(d, w)
  <2>1. \/ \E p \in Path : w = UploadRequest(d, p) /\ c(p) \in {"OnlyInLeft", "ModifiedWinsLeft"}
        \/ \E p \in Path : w = DownloadRequest(p) /\ c(p) \in {"OnlyInRight", "ModifiedWinsRight"}
        \/ \E p \in Path : w = DeleteRequest(d, p) /\ c(p) = "DeletionWinsLeft"
    BY <1>6, <1>8, <1>15 DEF InBucketOf, c
  <2>2. ASSUME NEW p \in Path, w = UploadRequest(d, p),
               c(p) \in {"OnlyInLeft", "ModifiedWinsLeft"}
        PROVE  w.type \notin {"list", "listRequest"} /\ w.path \in Path /\ StillMeant(d, w)
    <3>1. /\ fs'[d][p] = fs[d][p] /\ db'[d][p] = db[d][p]
          /\ WrittenAt(fs[d][p], db[d][p], busy[d], index[p], deleted)
      BY <1>10, <1>11, <1>13, <2>2
    <3>2. /\ EntryShape(db[d][p], now, edits) /\ FileShape(fs[d][p], now, edits)
          /\ Present(fs[d][p]) /\ db[d][p].mtime = fs[d][p].mtime
          /\ db[d][p].hash = fs[d][p].content
      BY <1>2, <3>1, AtPath DEF SInv, WrittenAt
    <3>3. fs[d][p].content \notin {Gone, Empty} /\ Tracked(db[d][p])
      BY <3>2 DEF FileShape, EntryShape, Gone, Empty, Tracked, NoTime
    <3>4. /\ w.type = "uploadRequest" /\ w.path = p /\ w.size = 1
          /\ w.mtime = fs[d][p].mtime /\ w.hash = fs[d][p].content
      BY <2>2, <3>2, <3>3 DEF UploadRequest, FileSize
    <3>5. PathMsgAt(w, fs'[d][p], db'[d][p], busy[d], index[p], deleted,
                    p \in saving, uploadMeta[d][p])
      BY <3>1, <3>4 DEF PathMsgAt
    <3>. QED
      BY <3>4, <3>5 DEF StillMeant
  <2>3. ASSUME NEW p \in Path, w = DownloadRequest(p),
               c(p) \in {"OnlyInRight", "ModifiedWinsRight"}
        PROVE  w.type \notin {"list", "listRequest"} /\ w.path \in Path /\ StillMeant(d, w)
    <3>1. /\ fs'[d][p] = fs[d][p] /\ db'[d][p] = db[d][p]
          /\ BehindAt(fs[d][p], db[d][p], index[p], deleted) /\ Tracked(index[p])
      BY <1>10, <1>11, <1>13, <2>3
    <3>2. w.type = "downloadRequest" /\ w.path = p
      BY <2>3 DEF DownloadRequest
    <3>3. PathMsgAt(w, fs'[d][p], db'[d][p], busy[d], index[p], deleted,
                    p \in saving, uploadMeta[d][p])
      BY <3>1, <3>2 DEF PathMsgAt
    <3>. QED
      BY <3>2, <3>3 DEF StillMeant
  <2>4. ASSUME NEW p \in Path, w = DeleteRequest(d, p), c(p) = "DeletionWinsLeft"
        PROVE  w.type \notin {"list", "listRequest"} /\ w.path \in Path /\ StillMeant(d, w)
    <3>1. /\ fs'[d][p] = fs[d][p] /\ db'[d][p] = db[d][p]
          /\ RemovedAt(fs[d][p], db[d][p], busy[d], index[p])
      BY <1>10, <1>11, <1>13, <2>4
    <3>2. w.type = "deleteRequest" /\ w.path = p /\ w.time = db[d][p].tomb
      BY <2>4 DEF DeleteRequest
    <3>3. PathMsgAt(w, fs'[d][p], db'[d][p], busy[d], index[p], deleted,
                    p \in saving, uploadMeta[d][p])
      BY <3>1, <3>2 DEF PathMsgAt
    <3>. QED
      BY <3>2, <3>3 DEF StillMeant
  <2>. QED
    BY <2>1, <2>2, <2>3, <2>4
<1>16. now' \in Nat /\ now <= now' /\ now' = now /\ failure' = failure
  BY <1>1 DEF SInv
<1>. QED
  BY <1>9, <1>12, <1>14, <1>15, <1>16, DeviceEnds

LEMMA DeviceSettled ==
  ASSUME IInv, SInv, NetOK', NEW d \in Device, DeviceReceive(d)
  PROVE  SInv'
<1>1. PICK m : /\ m = Head(toDevice[d])
               /\ \/ ReceiveList(d, m)
                  \/ ReceiveUploadSize(d, m)
                  \/ ReceiveUploadAck(d, m)
                  \/ ReceiveDownload(d, m)
                  \/ ReceiveDeleteAnswer(d, m) /\ failure' = failure
  BY DEF DeviceReceive
<1>. QED
  BY <1>1, ListSettled, UploadSizeSettled, UploadAckSettled, DownloadSettled,
     DeleteAnswerSettled

-----------------------------------------------------------------------------
(* The regime, and what holds in it                                        *)

(* Users edit a path while the copies agree, write no path again that was  *)
(* deleted, and no program is stopped.                                     *)
SettledRegime ==
  EditsWhenSettled /\ ~Recreate /\ MaxDeviceStops = 0 /\ MaxServerStops = 0

LEMMA InitSettled == Init => SInv
<1> SUFFICES ASSUME Init PROVE SInv
  OBVIOUS
<1>1. AInv /\ SyncOK
  BY InitAccounts DEF AInv
<1>2. /\ now = 0 /\ edits = 0 /\ deleted = {}
      /\ \A d \in Device, p \in Path : fs[d][p] = NoFile /\ db[d][p] = Untracked
      /\ \A d \in Device : busy[d] = FALSE /\ toServer[d] = << >> /\ toDevice[d] = << >>
      /\ \A d \in Device : pendingMessages[d] = 0 /\ outstandingTransfers[d] = 0
                           /\ uploading[d] = {} /\ downloading[d] = {}
      /\ \A p \in Path : store[p] = Gone /\ index[p] = Untracked
      /\ \A n \in Device \cup {Server} : Running(n)
  BY DEF Init, Running
<1>3. EntryOK(Untracked, 0, 0) /\ ~Tracked(Untracked) /\ Untracked.tomb = -1 /\ Untracked.hash = -1
  BY DEF EntryOK, Untracked, Tracked, NoTime, NoHash
<1>4. ASSUME NEW p \in Path
      PROVE  PathInv(p) /\ Versions(p) \subseteq {-1}
  <2>1. \A d \in Device : Files(p)[d] = NoFile /\ Entries(p)[d] = Untracked
    BY <1>2 DEF Files, Entries
  <2>2. \A d \in Device : SideOK(Files(p)[d], Entries(p)[d], busy[d], 0, 0)
    BY <1>3, <2>1, NoFileShape DEF SideOK, FileOK
  <2>3. \A d \in Device : CurrentAt(Files(p)[d], Entries(p)[d], Untracked)
    BY <1>3, <2>1 DEF CurrentAt
  <2>4. PathOK(Untracked, Files(p), Entries(p), busy, {}, 0, 0)
    BY <1>3, <2>2, <2>3 DEF PathOK
  <2>. QED
    BY <1>2, <1>3, <2>1, <2>4, NoFileShape DEF PathInv, Versions, Contents, Gone
<1>5. Disjoint
  BY <1>4 DEF Disjoint
<1>6. ASSUME NEW d \in Device
      PROVE  DeviceInv(d)
  <2>1. Flying(d) = {}
    BY <1>2, SentNothing DEF Flying
  <2>2. Accounted(d)
    BY <1>2, RoundOfNothing DEF Accounted, Working, Drained
  <2>. QED
    BY <1>2, <2>1, <2>2 DEF DeviceInv, Owes
<1>. QED
  BY <1>1, <1>2, <1>4, <1>5, <1>6 DEF SInv, NothingFails

LEMMA IdleSettled ==
  ASSUME SInv, UNCHANGED vars
  PROVE  SInv'
<1>1. /\ UNCHANGED <<now, edits, deleted, fs, db, store, index, saving, uploadMeta, failure>>
      /\ UNCHANGED <<busy, pendingMessages, outstandingTransfers, uploading, downloading>>
      /\ UNCHANGED <<toServer, toDevice>>
  BY DEF vars, userVars, syncVars, serverVars, netVars
<1>2. \A p \in Path : PathInv(p)' /\ Versions(p)' = Versions(p)
  BY <1>1 DEF SInv, PathInv, Versions, Contents, Files, Entries
<1>3. ASSUME NEW d \in Device
      PROVE  DeviceInv(d)'
  <2>1. Same(d)
    BY <1>1 DEF Same
  <2>2. \A m \in Flying(d) : MsgOK(d, m)'
    BY <1>1 DEF SInv, DeviceInv, MsgOK, Listed, PathMsg
  <2>3. \A p \in Path : Newer(d, p)' => Newer(d, p)
    BY <1>1 DEF Newer
  <2>. QED
    BY <2>1, <2>2, <2>3, QuietDevice DEF SInv
<1>4. SyncOK' /\ NothingFails'
  BY <1>1 DEF SInv, SyncOK, NothingFails, Running
<1>. QED
  BY <1>1, <1>2, <1>3, <1>4 DEF SInv, Disjoint

(* Nothing is stopped in this regime, and so nothing is started again.     *)
LEMMA NothingStops ==
  ASSUME SettledRegime, IInv, SInv
  PROVE  ~RestartServer /\ \A d \in Device : ~StopDevice(d) /\ ~StartDevice(d)
<1>1. stops.device \in Nat /\ stops.server \in Nat
  BY DEF IInv, ServerOK
<1>2. ~(stops.device < 0) /\ ~(stops.server < 0)
  BY <1>1
<1>3. \A d \in Device : failure[d] = "none"
  BY DEF SInv, NothingFails, Running
<1>. QED
  BY <1>2, <1>3 DEF SettledRegime, StopDevice, StartDevice, RestartServer

LEMMA NextSettled ==
  ASSUME SettledRegime, IInv, IInv', SInv, [Next]_vars
  PROVE  SInv'
<1>1. NetOK' /\ EditsWhenSettled /\ ~Recreate
  BY DEF IInv, SettledRegime
<1>2. CASE UNCHANGED vars
  BY <1>2, IdleSettled
<1>3. CASE Next
  <2>1. ASSUME NEW d \in Device, NEW p \in Path, Write(d, p) \/ Delete(d, p)
        PROVE  SInv'
    BY <1>1, <2>1, WriteSettled, DeleteSettled
  <2>2. ASSUME NEW d \in Device, Tick(d) \/ DeviceReceive(d) \/ ServerReceive(d)
        PROVE  SInv'
    BY <1>1, <2>2, TickSettled, DeviceSettled, ServerSettled
  <2>. QED
    BY <1>3, <2>1, <2>2, NothingStops DEF Next
<1>. QED
  BY <1>2, <1>3

(* The invariant of the regime.                                            *)
THEOREM Settled ==
  ASSUME SettledRegime
  PROVE  Spec => []SInv
<1>1. IInv /\ IInv' /\ SInv /\ [Next]_vars => SInv'
  BY NextSettled
<1>2. QED
  BY InitSettled, Invariance, <1>1, PTL DEF Spec

(* No assertion stops a device or the server, whatever naive and Merkle    *)
(* devices do together: no transfer is started twice, none of a file that  *)
(* is gone, none of no chunks (the Q_ASSERTs of ChunkingClient,            *)
(* FileTransferServer and LocalFileStorage).                               *)
THEOREM SettledNothingFails ==
  ASSUME SettledRegime
  PROVE  Spec => []NothingFails
<1>1. SInv => NothingFails
  BY DEF SInv
<1>2. QED
  BY Settled, <1>1, PTL

(* The hash the server lists for a file is that of the file it stores      *)
(* (FileServer.cpp onTransferCompleted).                                   *)
THEOREM SettledHashDescribesStore ==
  ASSUME SettledRegime
  PROVE  Spec => []HashDescribesStore
<1>1. SInv => HashDescribesStore
  BY DEF SInv, PathInv, HashDescribesStore
<1>2. QED
  BY Settled, <1>1, PTL

(* What a scan of an idle device would find in sync is equal.              *)
LEMMA InSyncEqual ==
  ASSUME SInv, NEW d \in Device, NEW p \in Path, ~busy[d],
         ClassifyPath(SideOf(d, Scanned(d)[p]), SideOf(d, index[p])) = "InSync"
  PROVE  fs[d][p].content = store[p]
<1>. DEFINE F == Files(p)
            E == Entries(p)
            E2 == [E EXCEPT ![d] = ScannedAt(F[d], E[d], now)]
            B2 == [g \in Device |-> g = d \/ busy[g]]
            f == fs[d][p]
            e == ScannedAt(fs[d][p], db[d][p], now)
            x == index[p]
<1>1. PathOK(x, F, E, busy, deleted, now, edits) /\ store[p] = x.hash /\ now \in Nat
  BY DEF SInv, PathInv
<1>2. F[d] = f /\ E2[d] = e /\ B2[d] /\ \A g \in Device \ {d} : E2[g] = E[g] /\ (B2[g] <=> busy[g])
  BY DEF Files, Entries
<1>3. Except(F, E, busy, F, E2, B2, d)
  <2>1. \A g \in Device \ {d} : B2[g] = busy[g]
    BY DEF SInv, SyncOK
  <2>. QED
    BY <1>2, <2>1 DEF Except
<1>4. E2[d] = ScannedAt(F[d], E[d], now) /\ F[d] = F[d]
  BY DEF Entries
<1>5. Scanned(d)[p] = e
  BY ScannedIs
<1>. HIDE DEF F, E, E2, B2, f, e, x
<1>6. PICK n : n = now + 1
  OBVIOUS
<1>7. PathOK(x, F, E2, B2, deleted, n, edits)
  BY <1>1, <1>2, <1>3, <1>4, <1>6, PathTick, SMTT(60)
<1>8. /\ n \in Nat /\ edits \in Nat /\ EntryOK(x, n, edits) /\ EntryShape(x, n, edits)
      /\ SideOK(f, e, B2[d], n, edits)
      /\ Stands(f, e, B2[d], x, deleted)
  BY <1>2, <1>7, PathShapes DEF PathOK, AheadAt, Stands
<1>9. ClassifyPath(SideOf(d, e), SideOf(d, x)) = "InSync"
  BY <1>5 DEF x
<1>10. Chosen(ClassifyPath(SideOf(d, e), SideOf(d, x)), f, e, B2[d], x, deleted)
  BY <1>2, <1>8, Decides
<1>11. CurrentAt(f, e, x)
  BY <1>8, <1>9, <1>10 DEF Stands, Chosen
<1>12. f.content = x.hash
  BY <1>8, <1>11, NoFileShape DEF CurrentAt, EntryShape
<1>. QED
  BY <1>1, <1>12 DEF f

(* An idle device whose next scan would take a path for in sync with the   *)
(* server has the same content, or neither of the two has the file: no     *)
(* change goes unseen by the negotiation (naive and Merkle                 *)
(* ReconciliationState).                                                   *)
THEOREM SettledInSyncMeansEqual ==
  ASSUME SettledRegime
  PROVE  Spec => []InSyncMeansEqual
<1>1. SInv => InSyncMeansEqual
  BY InSyncEqual DEF InSyncMeansEqual
<1>2. QED
  BY Settled, <1>1, PTL

(* What the server stores of a path after a step.                          *)
LEMMA StoreMoves ==
  ASSUME SettledRegime, IInv, SInv, [Next]_vars, NEW p \in Path
  PROVE  \/ store'[p] = store[p]
         \/ store'[p] = Gone
         \/ store'[p] \notin deleted /\ store'[p] > store[p]
<1>1. CASE store' = store
  BY <1>1
<1>2. ASSUME NEW d \in Device, ServerReceive(d)
      PROVE  \/ store'[p] = store[p]
             \/ store'[p] = Gone
             \/ store'[p] \notin deleted /\ store'[p] > store[p]
  <2>1. PICK m : /\ m = Head(toServer[d])
                 /\ \/ ServeList(d, m) \/ ServeUploadRequest(d, m) \/ ServeChunk(d, m)
                    \/ ServeDownloadRequest(d, m)
                    \/ ServeDelete(d, m) \/ ServeFailedDelete(d, m)
    BY <1>2 DEF ServerReceive
  <2>2. store \in [Path -> Int]
    BY DEF IInv, ServerOK
  <2>3. CASE \/ ServeList(d, m) \/ ServeUploadRequest(d, m) \/ ServeDownloadRequest(d, m)
             \/ ServeFailedDelete(d, m)
    BY <2>3 DEF ServeList, ServeUploadRequest, ServeDownloadRequest, ServeFailedDelete, serverVars
  <2>4. CASE ServeDelete(d, m)
    <3>1. store' = store \/ store' = [store EXCEPT ![m.path] = Gone]
      BY <2>4 DEF ServeDelete, RemoveFile
    <3>. QED
      BY <2>2, <3>1
  <2>5. CASE ServeChunk(d, m)
    <3>1. PICK q : q = m.path
      OBVIOUS
    <3>2. m.type = "chunk" /\ m = Head(toServer[d])
      BY <2>1, <2>5 DEF ServeChunk
    <3>3. /\ q \in Path /\ m.content = fs[d][q].content
          /\ WrittenAt(fs[d][q], db[d][q], busy[d], index[q], deleted)
      <4>1. MsgOK(d, m)
        BY <1>2, <3>2, ServerFinds
      <4>2. q \in Path /\ PathMsg(d, m)
        BY <3>1, <3>2, <4>1 DEF MsgOK
      <4>. QED
        BY <3>1, <3>2, <4>2 DEF PathMsg, PathMsgAt
    <3>4. store[q] = index[q].hash
      BY <3>3 DEF SInv, PathInv
    <3>5. m.content \notin deleted /\ m.content > store[q]
      BY <3>3, <3>4 DEF WrittenAt
    <3>6. store' = store \/ store' = [store EXCEPT ![q] = m.content]
      BY <2>5, <3>1 DEF ServeChunk, serverVars
    <3>. QED
      BY <2>2, <3>5, <3>6
  <2>. QED
    BY <2>1, <2>3, <2>4, <2>5
<1>3. CASE UNCHANGED vars
  BY <1>3 DEF vars, serverVars
<1>4. CASE \E d \in Device : \/ \E q \in Path : Write(d, q) \/ Delete(d, q)
                             \/ Tick(d) \/ DeviceReceive(d)
  BY <1>4 DEF Write, Delete, Tick, DeviceReceive, serverVars
<1>. QED
  BY <1>1, <1>2, <1>3, <1>4, NothingStops DEF Next

(* Between two versions of a file the server only moves to the later one:  *)
(* no upload overwrites what the device has not seen (FileServer.cpp       *)
(* onTransferCompleted).                                                   *)
THEOREM SettledServerNeverGoesBack ==
  ASSUME SettledRegime
  PROVE  Spec => ServerNeverGoesBack
<1>1. IInv /\ IInv' /\ SInv /\ [Next]_vars =>
        [\A p \in Path : store[p] # Gone /\ store'[p] # Gone => store'[p] >= store[p]]_vars
  <2> SUFFICES ASSUME IInv, IInv', SInv, [Next]_vars, NEW p \in Path,
                      store[p] # Gone, store'[p] # Gone
               PROVE  store'[p] >= store[p]
    OBVIOUS
  <2>1. store[p] \in Int /\ store'[p] \in Int
    BY DEF IInv, ServerOK
  <2>2. store'[p] = store[p] \/ store'[p] > store[p]
    BY StoreMoves
  <2>. QED
    BY <2>1, <2>2
<1>2. QED
  BY Settled, Invariance, <1>1, PTL DEF Spec, ServerNeverGoesBack

(* What a device has of a path after a step.                               *)
LEMMA FileMoves ==
  ASSUME SettledRegime, IInv, SInv, [Next]_vars, NEW g \in Device, NEW p \in Path
  PROVE  \/ fs'[g][p].content = fs[g][p].content
         \/ fs'[g][p].content \notin deleted
<1>1. /\ fs \in [Device -> [Path -> FileState]]
      /\ deleted \subseteq 1..edits /\ edits \in Nat
  BY AtPath DEF IInv, DevicesOK, SInv
<1>2. edits + 1 \notin deleted /\ -1 \notin deleted
  BY <1>1
<1>3. ASSUME NEW d \in Device, NEW q \in Path, Write(d, q) \/ Delete(d, q)
      PROVE  \/ fs'[g][p].content = fs[g][p].content
             \/ fs'[g][p].content \notin deleted
  <2>1. CASE Write(d, q)
    BY <1>1, <1>2, <2>1 DEF Write
  <2>2. CASE Delete(d, q)
    BY <1>1, <1>2, <2>2, NoFileShape DEF Delete
  <2>. QED
    BY <1>3, <2>1, <2>2
<1>4. ASSUME NEW d \in Device, DeviceReceive(d)
      PROVE  \/ fs'[g][p].content = fs[g][p].content
             \/ fs'[g][p].content \notin deleted
  <2>1. PICK m : /\ m = Head(toDevice[d])
                 /\ \/ ReceiveList(d, m) \/ ReceiveUploadSize(d, m) \/ ReceiveUploadAck(d, m)
                    \/ ReceiveDownload(d, m) \/ ReceiveDeleteAnswer(d, m)
    BY <1>4 DEF DeviceReceive
  <2>2. CASE ReceiveUploadSize(d, m) \/ ReceiveUploadAck(d, m) \/ ReceiveDeleteAnswer(d, m)
    BY <2>2 DEF ReceiveUploadSize, ReceiveUploadAck, ReceiveDeleteAnswer
  <2>3. CASE ReceiveList(d, m)
    <3>1. fs' = [fs EXCEPT ![d] =
                   [q \in Path |-> IF q \in DeletedHere(d, m.entries) THEN NoFile ELSE @[q]]]
      BY <2>3 DEF ReceiveList
    <3>2. fs'[g][p] = fs[g][p] \/ fs'[g][p] = NoFile
      BY <1>1, <3>1
    <3>. QED
      BY <1>2, <3>2, NoFileShape
  <2>4. CASE ReceiveDownload(d, m)
    <3>1. PICK q : q = m.path
      OBVIOUS
    <3>2. m.type = "download" /\ m = Head(toDevice[d])
      BY <2>1, <2>4 DEF ReceiveDownload
    <3>3. MsgOK(d, m)
      BY <1>4, <3>2, DeviceFinds
    <3>4. q \in Path /\ PathMsg(d, m)
      BY <3>1, <3>2, <3>3 DEF MsgOK
    <3>5. m.content \notin deleted
      BY <3>2, <3>4 DEF PathMsg, PathMsgAt, BehindAt, Buried
    <3>6. \/ fs' = fs
          \/ fs' = [fs EXCEPT ![d][q] = [content |-> m.content, mtime |-> now + 1]]
      BY <2>4, <3>1 DEF ReceiveDownload
    <3>. QED
      BY <1>1, <3>5, <3>6
  <2>. QED
    BY <2>1, <2>2, <2>3, <2>4
<1>5. CASE UNCHANGED vars
  BY <1>5 DEF vars
<1>6. CASE \E d \in Device : Tick(d) \/ ServerReceive(d)
  BY <1>6 DEF Tick, ServerReceive
<1>. QED
  BY <1>3, <1>4, <1>5, <1>6, NothingStops DEF Next

(* A version some user has deleted does not come back to the server or to  *)
(* a device that had not got it (FileServer.cpp onFileDeletionRequest,     *)
(* FileClient.cpp handleListResponse).                                     *)
THEOREM SettledNoResurrection ==
  ASSUME SettledRegime
  PROVE  Spec => NoResurrection
<1>1. IInv /\ SInv /\ [Next]_vars =>
        [\A p \in Path :
           /\ store'[p] \in deleted => store[p] = store'[p]
           /\ \A d \in Device :
                fs'[d][p].content \in deleted => fs[d][p].content = fs'[d][p].content]_vars
  <2> SUFFICES ASSUME IInv, SInv, [Next]_vars, NEW p \in Path
               PROVE  /\ store'[p] \in deleted => store[p] = store'[p]
                      /\ \A d \in Device :
                           fs'[d][p].content \in deleted => fs[d][p].content = fs'[d][p].content
    OBVIOUS
  <2>1. ASSUME NEW d \in Device
        PROVE  fs'[d][p].content \in deleted => fs[d][p].content = fs'[d][p].content
    BY FileMoves
  <2>2. deleted \subseteq 1..edits /\ edits \in Nat
    BY DEF SInv, PathInv, PathOK
  <2>3. Gone \notin deleted
    BY <2>2 DEF Gone
  <2>. QED
    BY <2>1, <2>3, StoreMoves
<1>2. QED
  BY Settled, Invariance, <1>1, PTL DEF Spec, NoResurrection

(* The counters of every device of the regime, naive ones too, count what  *)
(* they stand for, and an idle one has nothing left on its connection.     *)
THEOREM SettledAccounts ==
  ASSUME SettledRegime
  PROVE  Spec => [](AccountsMatch /\ IdleMeansDrained)
<1>1. IInv /\ SInv => AccountsMatch /\ IdleMeansDrained
  BY AccountedMatches DEF IInv, SInv, DeviceInv, Accounted, Drained, IdleMeansDrained,
                          AccountsMatch, AccountsOf
<1>2. QED
  BY Settled, Invariance, <1>1, PTL
=============================================================================
