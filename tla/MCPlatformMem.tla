---------------------------- MODULE MCPlatformMem ----------------------------
(* Three categories of different sizes and numbers, one of them with a     *)
(* single block as in platform_mem_cfg; requests that fit the first, that  *)
(* fit only the largest, and that fit none.                                *)
(*                                                                         *)
(* What platform_mem_free makes of a pointer depends on the table only, so *)
(* its arithmetic is tried before the pool is in use: with the table of    *)
(* platform_mem.c, and with one of ten blocks, so that the use map has a   *)
(* second byte, and a block smaller than a pointer.                        *)
EXTENDS PlatformMem, PoolLayout

CONSTANTS t1, t2

MCThreads == {t1, t2}
MCSize == <<1, 2, 3>>
MCNum == <<2, 1, 1>>
MCRequests == {1, 2, 4}

Category(s, n) == [size |-> s, num |-> n]

MCTables ==
  { <<Category(32, 2), Category(80, 2), Category(284, 2), Category(572, 1)>>,
    <<Category(2, 3), Category(3, 6), Category(9, 1)>> }

MCInit == Init /\ LayoutInit

MCNext ==
  \/ walk = "idle" /\ Next /\ UNCHANGED layoutVars
  \/ state = "cold" /\ LayoutNext /\ UNCHANGED vars

MCSpec == MCInit /\ [][MCNext]_<<vars, layoutVars>> /\ Fairness
==============================================================================
