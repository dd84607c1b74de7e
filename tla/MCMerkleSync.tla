---------------------------- MODULE MCMerkleSync ----------------------------
(***************************************************************************)
(* MerkleSync over a directory of two files and a file beside it.          *)
(***************************************************************************)
EXTENDS MerkleSync

CONSTANTS dir, file, other  \* names

MCName == {dir, file, other}
MCPath == {<<dir, file>>, <<dir, other>>, <<file>>}

Devices == Permutations(Device)
=============================================================================
