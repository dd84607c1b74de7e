-------------------------- MODULE LocalFileStorage --------------------------
(***************************************************************************)
(* A storage in a directory (subsystems/storage LocalFileStorage): an open *)
(* write is a QSaveFile, a temporary file that its commit renames over the *)
(* file.  A QSaveFile that remembers a failed write refuses to commit; it  *)
(* remembers neither a failed seek nor a short write.  Every operation may *)
(* fail where the file system may; ok is the result it returns.            *)
(***************************************************************************)
EXTENDS Naturals

CONSTANTS User, Name, Data, Parts

VARIABLES disk,         \* the files
          saves,        \* activeSaveFiles: what is written and whether it failed
          reply

localVars == <<disk, saves, reply>>

Storage == INSTANCE FileStorage WITH file <- disk,
                                     writing <- [f \in DOMAIN saves |-> saves[f].parts]

NewSave == [parts |-> Storage!Nothing, error |-> FALSE]

LocalInit ==
  /\ disk = [f \in {} |-> Storage!Nothing]
  /\ saves = [f \in {} |-> NewSave]
  /\ reply = {}

BeginWrite(f, ok) ==
  /\ f \notin DOMAIN saves
  /\ saves' = IF ok THEN Storage!With(saves, f, NewSave) ELSE saves
  /\ reply' = {Storage!Reply("beginWrite", f, ok)}
  /\ UNCHANGED disk

(* A seek that fails writes nothing; a write that fails may have written   *)
(* the beginning of the part over what was there.                          *)
WriteRange(f, p, x, ok) ==
  /\ f \in DOMAIN saves
  /\ \E remembered, spoiled \in BOOLEAN :
       LET parts == saves[f].parts
           save  == IF ok THEN [saves[f] EXCEPT !.parts = Storage!With(parts, p, x)]
                    ELSE [parts |-> IF spoiled THEN Storage!Without(parts, {p}) ELSE parts,
                          error |-> saves[f].error \/ remembered]
       IN saves' = Storage!With(saves, f, save)
  /\ reply' = {Storage!Reply("writeRange", f, ok)}
  /\ UNCHANGED disk

FinishWrite_InPlace(f, ok) ==
  /\ f \in DOMAIN saves
  /\ disk' = Storage!With(disk, f, IF ok THEN saves[f].parts ELSE Storage!Nothing)
  /\ saves' = Storage!Without(saves, {f})
  /\ reply' = {Storage!Reply("finishWrite", f, ok)}

(* The save file is gone whatever commit says.                             *)
FinishWrite(f, ok) ==
  /\ f \in DOMAIN saves
  /\ ok => ~saves[f].error
  /\ disk' = IF ok THEN Storage!With(disk, f, saves[f].parts) ELSE disk
  /\ saves' = Storage!Without(saves, {f})
  /\ reply' = {Storage!Reply("finishWrite", f, ok)}

AbortWrite(f) ==
  /\ f \in DOMAIN saves
  /\ saves' = Storage!Without(saves, {f})
  /\ reply' = {Storage!Reply("abortWrite", f, TRUE)}
  /\ UNCHANGED disk

(* The file is truncated when it is opened, and nobody looks at what write *)
(* returns: only the failure to open the file is one of the call, and a    *)
(* disk that gets full leaves the beginning that had room.                 *)
WriteFile(f, c, ok) ==
  /\ \/ ok /\ \E left \in Storage!Beginnings(c) : disk' = Storage!With(disk, f, left)
     \/ ~ok /\ UNCHANGED disk
  /\ reply' = {Storage!Reply("writeFile", f, ok)}
  /\ UNCHANGED saves

(* A file that is not there is not deleted.                                *)
DeleteFile(f, ok) ==
  /\ ok => f \in DOMAIN disk
  /\ disk' = IF ok THEN Storage!Without(disk, {f}) ELSE disk
  /\ reply' = {Storage!Reply("deleteFile", f, ok)}
  /\ UNCHANGED saves

(* removeRecursively may leave some of the files.                          *)
Cleanup(u) ==
  /\ saves' = Storage!Without(saves, Storage!Filed(u))
  /\ \E kept \in SUBSET Storage!Filed(u) :
       disk' = Storage!Without(disk, Storage!Filed(u) \ kept)
  /\ reply' = {}

(* Nothing remembers the temporary files of the save files that were open. *)
Restart ==
  /\ saves' = [f \in {} |-> NewSave]
  /\ reply' = {}
  /\ UNCHANGED disk

(* The program stops in a writeFile, after the truncation: what it has     *)
(* written by then is left.                                                *)
RestartInWriteFile(f, c) ==
  /\ \E left \in Storage!Beginnings(c) : disk' = Storage!With(disk, f, left)
  /\ saves' = [g \in {} |-> NewSave]
  /\ reply' = {}

LocalNext ==
  \/ \E f \in Storage!File, ok \in BOOLEAN :
       \/ BeginWrite(f, ok) \/ FinishWrite(f, ok) \/ DeleteFile(f, ok)
       \/ \E p \in 1..Parts, x \in Data : WriteRange(f, p, x, ok)
       \/ \E c \in Storage!Contents : WriteFile(f, c, ok) \/ RestartInWriteFile(f, c)
  \/ \E f \in Storage!File : AbortWrite(f)
  \/ \E u \in User : Cleanup(u)
  \/ Restart

LocalSpec == LocalInit /\ [][LocalNext]_localVars

(* Files are contents, and so is what is written.                          *)
LocalTypeOK ==
  /\ DOMAIN disk \subseteq Storage!File
  /\ \A f \in DOMAIN disk : disk[f] \in Storage!Contents
  /\ DOMAIN saves \subseteq Storage!File
  /\ \A f \in DOMAIN saves : saves[f] \in [parts : Storage!Contents, error : BOOLEAN]

(* Whatever fails, and wherever the program stops, a local storage keeps   *)
(* what FileStorage promises: a file written in parts is never seen in     *)
(* between (QSaveFile's rename and its cancelWriting), cleanup gives up    *)
(* the writes below the prefix it compares and no others, and only         *)
(* writeFile, which uses no save file, may leave a beginning.              *)
LocalImplements == Storage!Spec
=============================================================================
