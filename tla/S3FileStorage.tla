---------------------------- MODULE S3FileStorage ----------------------------
(***************************************************************************)
(* A storage in an S3 bucket (subsystems/storage S3FileStorage): an open   *)
(* write is a multipart upload, and the program keeps the upload's id and  *)
(* the list of the parts it has sent.  The service answers every request   *)
(* it has carried out, but the answer may be lost: a request that the      *)
(* program sees fail was carried out, or not.                              *)
(*                                                                         *)
(* An object of the bucket is named by its key, the user and the path      *)
(* joined by a slash; an etag is what the part holds.                      *)
(***************************************************************************)
EXTENDS Naturals, Sequences, SequencesExt, FiniteSets

CONSTANTS User, Name, Data, Parts,
          MaxUploads,   \* bound: multipart uploads ever created
          MaxSent       \* bound: parts sent in one upload

ASSUME SizeAssumption == Parts \in Nat /\ MaxUploads \in Nat /\ MaxSent \in Nat

VARIABLES objects,      \* the contents of the objects in the bucket
          uploads,      \* the multipart uploads the service keeps, by id
          created,      \* how many it has created
          active,       \* activeMultipartUploads
          reply

s3Vars == <<objects, uploads, created, active, reply>>

Numbers(parts) == {part.number : part \in ToSet(parts)}

(* The parts of the list, of each number the one that was sent last.       *)
Sent(parts) ==
  [n \in Numbers(parts) |->
     LET last == CHOOSE i \in DOMAIN parts :
                   /\ parts[i].number = n
                   /\ \A j \in DOMAIN parts : parts[j].number = n => j <= i
     IN parts[last].etag]

Storage == INSTANCE FileStorage
             WITH file <- objects,
                  writing <- [f \in DOMAIN active |-> Sent(active[f].parts)]

-----------------------------------------------------------------------------
(* The service.  It refuses a list of parts that is empty, is not in       *)
(* ascending order or does not match what it has.                          *)
Accepts(upload, parts) ==
  /\ parts # << >>
  /\ \A i \in 1..(Len(parts) - 1) : parts[i].number < parts[i + 1].number
  /\ \A part \in ToSet(parts) :
       /\ part.number \in DOMAIN upload.parts
       /\ part.etag = upload.parts[part.number]

(* What of a request is carried out when the program sees it succeed or    *)
(* fail.                                                                   *)
Carried(ok) == IF ok THEN {TRUE} ELSE BOOLEAN

Sorted_AsSent(parts) == parts

(* parts.sort: by number, and parts of the same number in the order they   *)
(* had.                                                                    *)
Before(parts, i, j) ==
  \/ parts[i].number < parts[j].number
  \/ parts[i].number = parts[j].number /\ i < j

Sorted(parts) ==
  LET place == CHOOSE place \in [DOMAIN parts -> DOMAIN parts] :
                 \A i, j \in DOMAIN parts : i < j => Before(parts, place[i], place[j])
  IN [i \in DOMAIN parts |-> parts[place[i]]]


-----------------------------------------------------------------------------
S3Init ==
  /\ objects = [f \in {} |-> Storage!Nothing]
  /\ uploads = [id \in {} |-> {}]
  /\ created = 0
  /\ active = [f \in {} |-> {}]
  /\ reply = {}

BeginWrite_Again(f, ok) ==
  /\ created < MaxUploads
  /\ IF ok
     THEN /\ created' = created + 1
          /\ uploads' = Storage!With(uploads, created',
                                     [f |-> f, parts |-> Storage!Nothing])
          /\ active' = Storage!With(active, f, [id |-> created', parts |-> << >>])
     ELSE UNCHANGED <<created, uploads, active>>
  /\ reply' = {Storage!Reply("beginWrite", f, ok)}
  /\ UNCHANGED objects

(* An upload whose creation is not answered is never known to the program. *)
BeginWrite(f, ok) ==
  /\ f \notin DOMAIN active
  /\ created < MaxUploads
  /\ \E carried \in Carried(ok) :
       IF carried
       THEN /\ created' = created + 1
            /\ uploads' = Storage!With(uploads, created',
                                       [f |-> f, parts |-> Storage!Nothing])
       ELSE UNCHANGED <<created, uploads>>
  /\ active' = IF ok THEN Storage!With(active, f, [id |-> created', parts |-> << >>])
               ELSE active
  /\ reply' = {Storage!Reply("beginWrite", f, ok)}
  /\ UNCHANGED objects

(* The list gets the part once more each time it is sent.                  *)
WriteRange(f, p, x, ok) ==
  /\ f \in DOMAIN active
  /\ Len(active[f].parts) < MaxSent
  /\ LET id == active[f].id
     IN \E carried \in Carried(ok) :
          uploads' = IF carried
                     THEN [uploads EXCEPT ![id].parts = Storage!With(@, p, x)]
                     ELSE uploads
  /\ active' = IF ok THEN [active EXCEPT ![f].parts = Append(@, [number |-> p, etag |-> x])]
               ELSE active
  /\ reply' = {Storage!Reply("writeRange", f, ok)}
  /\ UNCHANGED <<objects, created>>

(* The program forgets the upload whatever the answer.                     *)
FinishWrite(f, ok) ==
  /\ f \in DOMAIN active
  /\ LET upload == uploads[active[f].id]
         parts  == Sorted(active[f].parts)
     IN /\ ok => Accepts(upload, parts)
        /\ \E carried \in Carried(ok) :
             IF carried /\ Accepts(upload, parts)
             THEN /\ objects' = Storage!With(objects, f,
                                  [n \in Numbers(parts) |-> upload.parts[n]])
                  /\ uploads' = Storage!Without(uploads, {active[f].id})
             ELSE UNCHANGED <<objects, uploads>>
  /\ active' = Storage!Without(active, {f})
  /\ reply' = {Storage!Reply("finishWrite", f, ok)}
  /\ UNCHANGED created

AbortWrite(f, ok) ==
  /\ f \in DOMAIN active
  /\ \E carried \in Carried(ok) :
       uploads' = IF carried THEN Storage!Without(uploads, {active[f].id}) ELSE uploads
  /\ active' = Storage!Without(active, {f})
  /\ reply' = {Storage!Reply("abortWrite", f, ok)}
  /\ UNCHANGED <<objects, created>>

WriteFile(f, c, ok) ==
  /\ \E carried \in Carried(ok) :
       objects' = IF carried THEN Storage!With(objects, f, c) ELSE objects
  /\ reply' = {Storage!Reply("writeFile", f, ok)}
  /\ UNCHANGED <<uploads, created, active>>

(* The deletion of an object that is not there succeeds.                   *)
DeleteFile(f, ok) ==
  /\ \E carried \in Carried(ok) :
       objects' = IF carried THEN Storage!Without(objects, {f}) ELSE objects
  /\ reply' = {Storage!Reply("deleteFile", f, ok)}
  /\ UNCHANGED <<uploads, created, active>>

Cleanup_KeepsUploads(u) ==
  /\ \E kept \in SUBSET (Storage!Filed(u) \cap DOMAIN objects) :
       objects' = Storage!Without(objects, Storage!Filed(u) \ kept)
  /\ reply' = {}
  /\ UNCHANGED <<created, active, uploads>>

(* Any of the requests that abort the user's uploads and delete his files  *)
(* may fail, and nothing is told of it.                                    *)
Cleanup(u) ==
  LET mine == Storage!Filed(u) \cap DOMAIN active
  IN /\ \E left \in SUBSET {active[f].id : f \in mine} :
          uploads' = Storage!Without(uploads, {active[f].id : f \in mine} \ left)
     /\ active' = Storage!Without(active, mine)
     /\ \E kept \in SUBSET (Storage!Filed(u) \cap DOMAIN objects) :
          objects' = Storage!Without(objects, Storage!Filed(u) \ kept)
     /\ reply' = {}
     /\ UNCHANGED created

(* The ids of the open uploads are kept nowhere else.                      *)
Restart ==
  /\ active' = [f \in {} |-> {}]
  /\ reply' = {}
  /\ UNCHANGED <<objects, uploads, created>>

S3Next ==
  \/ \E f \in Storage!File, ok \in BOOLEAN :
       \/ BeginWrite(f, ok) \/ FinishWrite(f, ok) \/ AbortWrite(f, ok)
       \/ DeleteFile(f, ok)
       \/ \E p \in 1..Parts, x \in Data : WriteRange(f, p, x, ok)
       \/ \E c \in Storage!Contents : WriteFile(f, c, ok)
  \/ \E u \in User : Cleanup(u)
  \/ Restart

S3Spec == S3Init /\ [][S3Next]_s3Vars

-----------------------------------------------------------------------------
(* Every upload the program knows is one the service keeps for the same    *)
(* object: an upload that the service has completed or aborted, though the *)
(* answer was lost, is never used again (activeMultipartUploads.remove     *)
(* whatever the response).                                                 *)
S3TypeOK ==
  /\ \A f \in DOMAIN objects : f \in Storage!File /\ objects[f] \in Storage!Contents
  /\ created \in 0..MaxUploads
  /\ \A id \in DOMAIN uploads : id \in 1..created
  /\ \A f \in DOMAIN active :
       active[f].id \in DOMAIN uploads /\ uploads[active[f].id].f = f

(* In whatever order the parts have succeeded, the service accepts the     *)
(* list that finishWrite sends it, unless a part was sent again: the sort  *)
(* in finishWrite.                                                         *)
CompletionIsAccepted ==
  \A f \in DOMAIN active :
    LET parts  == active[f].parts
        upload == uploads[active[f].id]
        again  == \/ Cardinality(Numbers(parts)) < Len(parts)
                  \/ \E part \in ToSet(parts) : part.etag # upload.parts[part.number]
    IN parts # << >> /\ ~again => Accepts(upload, Sorted(parts))

(* A call that succeeds leaves nothing at the service that the program     *)
(* has forgotten (and the bucket's owner pays for): beginWrite's           *)
(* assertion, and the abort and the completion by the upload's own id.     *)
Orphans == DOMAIN uploads \ {active[f].id : f \in DOMAIN active}
SuccessLeavesNoOrphans ==
  [][(\E r \in reply' : r.ok) => Orphans' \subseteq Orphans]_s3Vars

(* Whatever the service refuses and whatever answers are lost, a storage   *)
(* in a bucket keeps what FileStorage promises: an object changes only     *)
(* when its upload is completed, and by the parts that succeeded.          *)
S3Implements == Storage!Spec
=============================================================================
