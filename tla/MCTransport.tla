----------------------------- MODULE MCTransport -----------------------------
(* Two kinds of messages, with payloads of one byte and of two, and a      *)
(* header of two bytes, so that both can be cut off in the middle.         *)
EXTENDS Transport

CONSTANTS short, long

MCMessage == {short, long}
MCSize(m) == IF m = short THEN 1 ELSE 2
=============================================================================
