------------------------------ MODULE BlockPool ------------------------------
(***************************************************************************)
(* What a pool of fixed-size blocks promises its clients, whatever the     *)
(* free lists, bitmaps and locks below look like: a block is available, or *)
(* it is in the hands of exactly one client, or it has been given up and   *)
(* waits to be reclaimed.  platform_mem.c is shown to implement this       *)
(* (PlatformMem!Pool).                                                     *)
(***************************************************************************)

CONSTANTS
  Clients,   (* the threads that allocate and free                        *)
  Blocks     (* the blocks of all the categories                          *)

VARIABLES
  available, (* the blocks that the next request may be served with       *)
  owned      (* for each client, the blocks it has obtained and not freed *)

vars == <<available, owned>>

Owned == UNION {owned[t] : t \in Clients}

TypeOK ==
  /\ available \in SUBSET Blocks
  /\ owned \in [Clients -> SUBSET Blocks]

Init ==
  /\ available = {}                   \* and so it stays when set-up fails
  /\ owned = [t \in Clients |-> {}]

-----------------------------------------------------------------------------

(* A request of client t is served with block b. *)
Grant(t, b) ==
  /\ b \in available
  /\ available' = available \ {b}
  /\ owned' = [owned EXCEPT ![t] = @ \cup {b}]

(* Client t gives block b up.  The pool may take it back later. *)
Release(t, b) ==
  /\ b \in owned[t]
  /\ owned' = [owned EXCEPT ![t] = @ \ {b}]
  /\ UNCHANGED available

(* Blocks that nobody owns are made available: all of them when the pool   *)
(* is set up, one that was given up when it is taken back.                 *)
Supply(S) ==
  /\ S # {} /\ S \cap (available \cup Owned) = {}
  /\ available' = available \cup S
  /\ UNCHANGED owned

Next ==
  \/ \E t \in Clients, b \in Blocks : Grant(t, b) \/ Release(t, b)
  \/ \E S \in SUBSET Blocks : Supply(S)

Spec == Init /\ [][Next]_vars

==============================================================================
