-------------------------- MODULE MCS3FileStorage ---------------------------
(***************************************************************************)
(* A storage in a bucket with one object.                                  *)
(***************************************************************************)
EXTENDS S3FileStorage

CONSTANTS user, name  \* what slashes separate

MCUser == {<<user>>}
MCName == {<<name>>}
=============================================================================
