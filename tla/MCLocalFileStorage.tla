------------------------- MODULE MCLocalFileStorage -------------------------
(***************************************************************************)
(* A storage in a directory with the files of two users, one of whom has   *)
(* a name that begins with the other's and a slash.                        *)
(***************************************************************************)
EXTENDS LocalFileStorage

CONSTANTS user, team, name  \* what slashes separate

MCUser == {<<user>>, <<user, team>>}
MCName == {<<name>>}
=============================================================================
