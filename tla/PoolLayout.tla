----------------------------- MODULE PoolLayout ------------------------------
(***************************************************************************)
(* The address arithmetic of platforms/platform_mem.c.  Module PlatformMem *)
(* speaks of blocks; the code speaks of pointers into one buffer that      *)
(* platform_mem_init carves into blocks, and of bits in p_use_map.  Modelled*)
(* is the way platform_mem_free goes from a pointer to a block and its     *)
(* bit, step by step, next to the layout and the bits that the other two   *)
(* functions use.  Addresses count from p_memory_min.                      *)
(***************************************************************************)
EXTENDS Integers, Sequences

CONSTANTS
  Tables,    (* values of platform_mem_cfg: sequences of [size, num]      *)
  Ctrl,      (* sizeof(platform_mem_buf_ctrl_t)                           *)
  Beyond,    (* bound: how far outside the buffer a pointer is tried      *)
  HeapSize   (* PLATFORM_HEAP_SIZE                                        *)

(* A size of 0 would put the pointer to a block where the next one starts. *)
PoolLayoutAssumption ==
  /\ Ctrl \in Nat \ {0} /\ Beyond \in Nat /\ HeapSize \in Nat
  /\ \A t \in Tables : t \in Seq([size : Nat \ {0}, num : Nat \ {0}]) /\ t # <<>>

ASSUME PoolLayoutAssumption

VARIABLES
  table,     (* platform_mem_cfg                                          *)
  p,         (* platform_mem_free's p_target_to_be_free                   *)
  i,         (* its loop variable                                         *)
  base,      (* its p_target_cat_base                                     *)
  shift,     (* its use_map_shift                                         *)
  walk       (* "idle", or where platform_mem_free is                     *)

layoutVars == <<table, p, i, base, shift, walk>>

-----------------------------------------------------------------------------

(* A slip: the blocks are carved without their control field. *)
StrideBare(c) == table[c].size

(* What a block of category c takes with its control field. *)
Stride(c) == Ctrl + table[c].size

(* What the categories up to the d-th take of the buffer, and how many     *)
(* blocks they have.                                                       *)
Bytes ==
  LET upTo[d \in 0..Len(table)] ==
        IF d = 0 THEN 0 ELSE upTo[d - 1] + table[d].num * Stride(d)
  IN  upTo

Buffers ==
  LET upTo[d \in 0..Len(table)] ==
        IF d = 0 THEN 0 ELSE upTo[d - 1] + table[d].num
  IN  upTo

(* Where platform_mem_init's p_index is when it reaches category c. *)
CatBase(c) == Bytes[c - 1]

Total == Bytes[Len(table)]

Carved == UNION {{<<c, j>> : j \in 1..table[c].num} : c \in DOMAIN table}

(* The start of a block, and what platform_mem_allocate returns for it. *)
Address(b) == CatBase(b[1]) + (b[2] - 1) * Stride(b[1])
Payload(b) == Address(b) + Ctrl

(* The bit platform_mem_allocate sets: its search has added up the blocks  *)
(* of the categories before.                                               *)
AllocBit(b) == Buffers[b[1] - 1] + (Address(b) - CatBase(b[1])) \div Stride(b[1])

MapBytes == (Buffers[Len(table)] + 7) \div 8

-----------------------------------------------------------------------------

LayoutInit ==
  /\ table \in Tables
  /\ p = 0 /\ i = 1 /\ base = 0 /\ shift = 0
  /\ walk = "idle"

(* A call, with any pointer into the buffer or near it. *)
FreeThis(target) ==
  /\ walk = "idle" /\ walk' = "locate"
  /\ p' = target
  /\ UNCHANGED <<table, i, base, shift>>

CatMax == base + table[i].num * Stride(i)

Inside == p >= base /\ p < CatMax

LocateHere ==
  /\ walk = "locate" /\ i <= Len(table) /\ Inside
  /\ walk' = "split"
  /\ UNCHANGED <<table, p, i, base, shift>>

(* A slip: the bits of the categories before are not counted. *)
LocateNextBare ==
  /\ walk = "locate" /\ i <= Len(table) /\ ~Inside
  /\ i' = i + 1
  /\ base' = CatMax
  /\ UNCHANGED <<table, p, shift, walk>>

LocateNext ==
  /\ walk = "locate" /\ i <= Len(table) /\ ~Inside
  /\ i' = i + 1
  /\ base' = CatMax
  /\ shift' = shift + table[i].num
  /\ UNCHANGED <<table, p, walk>>

LocateNone ==
  /\ walk = "locate" /\ i > Len(table)
  /\ walk' = "none"
  /\ UNCHANGED <<table, p, i, base, shift>>

(* A slip: the pointer is compared with the start of the block. *)
AtPayloadBare == (p - base) % Stride(i) = 0

(* tmp2: the pointer is just behind a control field. *)
AtPayload == (p - base) % Stride(i) = Ctrl

SplitBlock ==
  /\ walk = "split" /\ AtPayload
  /\ shift' = shift + (p - base) \div Stride(i)
  /\ walk' = "block"
  /\ UNCHANGED <<table, p, i, base>>

SplitNone ==
  /\ walk = "split" /\ ~AtPayload
  /\ walk' = "none"
  /\ UNCHANGED <<table, p, i, base, shift>>

(* The call ends; its locals go. *)
Leave ==
  /\ walk \in {"block", "none"}
  /\ walk' = "idle"
  /\ p' = 0 /\ i' = 1 /\ base' = 0 /\ shift' = 0
  /\ UNCHANGED table

LayoutNext ==
  \/ \E target \in (-Beyond)..(Total + Beyond) : FreeThis(target)
  \/ LocateHere \/ LocateNext \/ LocateNone
  \/ SplitBlock \/ SplitNone
  \/ Leave

LayoutSpec == LayoutInit /\ [][LayoutNext]_layoutVars

-----------------------------------------------------------------------------
(* Properties. *)

(* What platform_mem_free takes for a block is one, and the bit it tests is*)
(* the one platform_mem_allocate set for that block.                       *)
FreeFindsTheBit ==
  walk = "block" => \E b \in Carved : Payload(b) = p /\ AllocBit(b) = shift

(* No pointer that platform_mem_allocate returns is turned away. *)
FreeKnowsEveryBlock ==
  walk = "none" => \A b \in Carved : Payload(b) # p

(* The blocks do not run into each other or out of the buffer, no two have *)
(* one bit, and map and buffer are within the platform heap.               *)
LayoutSound ==
  /\ \A b \in Carved :
       /\ 0 <= Address(b) /\ Payload(b) + table[b[1]].size <= Total
       /\ AllocBit(b) < 8 * MapBytes
  /\ \A b, d \in Carved :
       b # d => /\ AllocBit(b) # AllocBit(d)
                /\ \/ Payload(b) + table[b[1]].size <= Address(d)
                   \/ Payload(d) + table[d[1]].size <= Address(b)
  /\ MapBytes + Total <= HeapSize

==============================================================================
