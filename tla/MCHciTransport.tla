--------------------------- MODULE MCHciTransport ----------------------------
(* Three sections; bytes that just fill the smallest block (21 with the    *)
(* entry's own fields), the same number of other bytes, and two bytes more,*)
(* which would run over its end.  One small and two larger blocks hold all *)
(* three sections and no fourth entry; the sizes are of platform_mem_cfg.  *)
(* Sections, the two strings of one length, handlers and opcodes are alike *)
(* to every action and property: only invariants and action properties are *)
(* checked, so their permutations may be taken for one state.              *)
EXTENDS HciTransport, TLC

CONSTANTS k1, k2, k3, a21, b21, c23, h1, h2, m1, m2

MCVsIds == {k1, k2, k3}
MCData == {a21, b21, c23, Huge}
MCDataLen ==
  [d \in MCData |-> CASE d = c23 -> 23 [] d = Huge -> 65535 [] OTHER -> 21]
MCLengths == {21, 23}
MCOthers == {32}
MCSize == <<32, 80>>
MCNum == <<1, 2>>
MCHandlers == {h1, h2}
MCCodes == {m1, m2}

MCSymmetry ==
  Permutations(MCVsIds) \cup Permutations({a21, b21})
    \cup Permutations(MCHandlers) \cup Permutations(MCCodes)
==============================================================================
