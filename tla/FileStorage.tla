---------------------------- MODULE FileStorage ----------------------------
(***************************************************************************)
(* What a storage of users' files promises (subsystems/storage             *)
(* FileStorage): a file changes as a whole.  A file that is written in     *)
(* parts stays as it was until the write is finished, and then holds the   *)
(* parts that were written last with success; a write that is aborted, or  *)
(* lost in a crash, leaves it alone.  A call that succeeds has all of its  *)
(* effect, one that fails has all of it or none, but for a part, whose     *)
(* place it may spoil.  So two storages given the same calls hold the same *)
(* files (isEqualTo) as long as all calls succeed and none is writeFile.   *)
(*                                                                         *)
(* writeFile promises nothing of the kind: the file may hold any beginning *)
(* of the contents, although the call succeeds, or because the program     *)
(* stops in it.                                                            *)
(*                                                                         *)
(* A content is a function from the numbers of its parts to what they      *)
(* hold; what stands in the place of a missing part is left open.          *)
(***************************************************************************)
EXTENDS Naturals, SequencesExt

CONSTANTS User, Name,   \* users' names and paths: sequences of what slashes separate
          Data,         \* what a part may hold
          Parts         \* the largest number of parts

VARIABLES file,         \* the contents of the files there are
          writing,      \* the parts of the open writes
          reply         \* the last call, and the result it returned

vars == <<file, writing, reply>>

(* A file is named by its key, the user and the path joined by a slash.  A *)
(* key belongs to every user whose name and a slash it begins with: the    *)
(* server refuses no user name, so there may be several.                   *)
File     == {u \o n : u \in User, n \in Name}
Filed(u) == {f \in File : IsStrictPrefix(u, f)}

Contents == UNION {[S -> Data] : S \in SUBSET (1..Parts)}
Nothing  == [p \in {} |-> 0]

(* What a write that was cut short has left of a content.                  *)
Beginnings(c) == {[p \in DOMAIN c \cap 1..n |-> c[p]] : n \in 0..Parts}

(* Functions as tables of what there is.                                   *)
With(table, k, v) == [j \in DOMAIN table \cup {k} |-> IF j = k THEN v ELSE table[j]]
Without(table, S) == [j \in DOMAIN table \ S |-> table[j]]

Reply(op, f, ok) == [op |-> op, f |-> f, ok |-> ok]

TypeOK ==
  /\ DOMAIN file \subseteq File /\ \A f \in DOMAIN file : file[f] \in Contents
  /\ DOMAIN writing \subseteq File /\ \A f \in DOMAIN writing : writing[f] \in Contents

-----------------------------------------------------------------------------
Init ==
  /\ file = [f \in {} |-> Nothing]
  /\ writing = [f \in {} |-> Nothing]
  /\ reply = {}

(* A write may not be open for the file already: the assertion of          *)
(* beginWrite.                                                             *)
BeginWrite(f, ok) ==
  /\ f \notin DOMAIN writing
  /\ writing' = IF ok THEN With(writing, f, Nothing) ELSE writing
  /\ reply' = {Reply("beginWrite", f, ok)}
  /\ UNCHANGED file

(* A part that fails is left out, and may have overwritten what was there. *)
WriteRange(f, p, x, ok) ==
  /\ f \in DOMAIN writing
  /\ \/ ok /\ writing' = With(writing, f, With(writing[f], p, x))
     \/ ~ok /\ writing' = With(writing, f, Without(writing[f], {p}))
     \/ ~ok /\ UNCHANGED writing
  /\ reply' = {Reply("writeRange", f, ok)}
  /\ UNCHANGED file

(* The write is over whatever the result.                                  *)
FinishWrite(f, ok) ==
  /\ f \in DOMAIN writing
  /\ \/ file' = With(file, f, writing[f])
     \/ ~ok /\ UNCHANGED file
  /\ writing' = Without(writing, {f})
  /\ reply' = {Reply("finishWrite", f, ok)}

AbortWrite(f, ok) ==
  /\ f \in DOMAIN writing
  /\ writing' = Without(writing, {f})
  /\ reply' = {Reply("abortWrite", f, ok)}
  /\ UNCHANGED file

WriteFile(f, c, ok) ==
  /\ \/ \E left \in Beginnings(c) : file' = With(file, f, left)
     \/ ~ok /\ UNCHANGED file
  /\ reply' = {Reply("writeFile", f, ok)}
  /\ UNCHANGED writing

DeleteFile(f, ok) ==
  /\ \/ file' = Without(file, {f})
     \/ ~ok /\ UNCHANGED file
  /\ reply' = {Reply("deleteFile", f, ok)}
  /\ UNCHANGED writing

(* All writes of the user are given up and his files deleted, but for      *)
(* those whose deletion fails: cleanup has no result.                      *)
Cleanup(u) ==
  /\ \E kept \in SUBSET Filed(u) : file' = Without(file, Filed(u) \ kept)
  /\ writing' = Without(writing, Filed(u))
  /\ reply' = {}

(* The program stops and starts again.                                     *)
Restart ==
  /\ writing' = [f \in {} |-> Nothing]
  /\ reply' = {}
  /\ UNCHANGED file

(* It stops in a writeFile.                                                *)
RestartInWriteFile(f, c) ==
  /\ \E left \in Beginnings(c) : file' = With(file, f, left)
  /\ writing' = [g \in {} |-> Nothing]
  /\ reply' = {}

Next ==
  \/ \E f \in File, ok \in BOOLEAN :
       \/ BeginWrite(f, ok) \/ FinishWrite(f, ok) \/ AbortWrite(f, ok)
       \/ DeleteFile(f, ok)
       \/ \E p \in 1..Parts, x \in Data : WriteRange(f, p, x, ok)
       \/ \E c \in Contents : WriteFile(f, c, ok) \/ RestartInWriteFile(f, c)
  \/ \E u \in User : Cleanup(u)
  \/ Restart

Spec == Init /\ [][Next]_vars
=============================================================================
