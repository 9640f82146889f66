--------------------------- MODULE MCVirtualNvram ----------------------------
(* Three sections; bytes that just fill the smallest block (21 with the    *)
(* entry's own fields), the same number of other bytes, and two bytes more,*)
(* which would run over its end.  The sizes are those of platform_mem_cfg. *)
EXTENDS VirtualNvram

CONSTANTS k1, k2, k3, a21, b21, c23

MCVsIds == {k1, k2, k3}
MCData == {a21, b21, c23}
MCDataLen == [d \in MCData |-> IF d = c23 THEN 23 ELSE 21]
MCLengths == {0, 21, 22, 23}
MCOthers == {32}
MCSize == <<32, 80>>
MCNum == <<2, 2>>
==============================================================================
