----------------------------- MODULE MCHostSync ------------------------------
(* Two sections; two byte strings of one length and one of another; a      *)
(* block that fits them all next to one that fits only the short ones, so  *)
(* that a second change of length already exhausts the pool.               *)
EXTENDS HostSync

CONSTANTS k1, k2, a1, b1, c2

MCVsIds == {k1, k2}
MCData == {a1, b1, c2}
MCDataLen == [d \in MCData |-> IF d = c2 THEN 60 ELSE 21]
MCSize == <<32, 80>>
MCNum == <<2, 1>>
==============================================================================
