------------------------------- MODULE MCSubDs -------------------------------
(* Six sections that fit together, run over a segment, need two chunks, or *)
(* do not fit; an object raises the alignment of .data and one that of     *)
(* .text.  Chunk, line and segment are in the order of the real ones, and  *)
(* a chunk is a whole number of lines.  The firmware has two sections of   *)
(* its own, one of them in two records; DS with and without padding.       *)
EXTENDS SubDs

MCNames == <<".bss", ".rodata", ".data", ".setup", ".app_entry", ".text">>
MCAlign == <<32, 32, 8, 4, 32, 2>>
MCSizes == {0, 1, 70}

Record(addr, from, len) ==
  [addr |-> addr, section |-> "patch", from |-> from, len |-> len]

MCFwRecords == <<Record(0, 0, 6), Record(6, 6, 5), Record(16, 11, 4)>>

==============================================================================
