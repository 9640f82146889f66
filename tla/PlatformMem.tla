----------------------------- MODULE PlatformMem -----------------------------
(***************************************************************************)
(* The block allocator of platforms/platform_mem.c: platform_mem_init,     *)
(* platform_mem_allocate and platform_mem_free, called by threads that     *)
(* share one RTOS mutex.                                                   *)
(*                                                                         *)
(* A block is the pair <<category, index in the category>>.  The address   *)
(* arithmetic that turns a pointer into such a pair, and a pair into a bit *)
(* of p_use_map, is the subject of module PoolLayout.                      *)
(***************************************************************************)
EXTENDS Naturals, Sequences, FiniteSets

CONSTANTS
  Threads,   (* the threads that call the allocator                       *)
  Size,      (* platform_mem_cfg[].size, smallest first                   *)
  Num,       (* platform_mem_cfg[].num                                    *)
  Requests,  (* the sizes that are asked for                              *)
  NoBlock,   (* NULL as a block pointer                                   *)
  NoThread   (* the mutex has no holder                                   *)

Cats == DOMAIN Num

Blocks == UNION {{<<c, j>> : j \in 1..Num[c]} : c \in Cats}

PlatformMemAssumption ==
  /\ Num \in Seq(Nat \ {0})
  /\ Size \in [Cats -> Nat]
  /\ \A c, d \in Cats : c < d => Size[c] < Size[d]
  /\ Requests \subseteq Nat
  /\ NoBlock \notin Blocks
  /\ NoThread \notin Threads

ASSUME PlatformMemAssumption

VARIABLES
  state,     (* "cold" until platform_mem_init returns, then "ready" if it  *)
             (* returned TRUE and "failed" if it returned FALSE             *)
  locking,   (* the mutex was created and initialised                     *)
  free_num,  (* platform_mem_info.cat[].free_num                          *)
  p_first,   (* platform_mem_info.cat[].p_first                           *)
  p_next,    (* the p_next field in front of every block                  *)
  use_map,   (* the blocks whose bit of p_use_map is set                  *)
  holder,    (* the thread that holds p_mutex                             *)
  pc,        (* where each thread is in the allocator                     *)
  size,      (* allocate's argument                                       *)
  cat,       (* allocate's i once the search has ended                    *)
  target,    (* allocate's p_target, free's p_target                      *)
  held       (* the blocks each thread has been given and has not freed   *)

pool == <<free_num, p_first, p_next, use_map>>
local == <<size, cat, target>>
vars == <<state, locking, pool, holder, pc, local, held>>

PC == {"idle", "alloc_lock", "alloc_search", "alloc_read", "alloc_take",
       "free_lock", "free_check", "unlock"}

InPool == {"alloc_search", "alloc_read", "alloc_take", "free_check", "unlock"}

TypeOK ==
  /\ state \in {"cold", "ready", "failed"} /\ locking \in BOOLEAN
  /\ free_num \in [Cats -> Nat]
  /\ p_first \in [Cats -> Blocks \cup {NoBlock}]
  /\ p_next \in [Blocks -> Blocks \cup {NoBlock}]
  /\ use_map \in SUBSET Blocks
  /\ holder \in Threads \cup {NoThread}
  /\ pc \in [Threads -> PC]
  /\ size \in [Threads -> Requests \cup {0}]
  /\ cat \in [Threads -> Cats \cup {0}]
  /\ target \in [Threads -> Blocks \cup {NoBlock}]
  /\ held \in [Threads -> SUBSET Blocks]

-----------------------------------------------------------------------------

(* The block that j follows when a category is carved front to back. *)
Nth(c, j) == IF j \in 1..Num[c] THEN <<c, j>> ELSE NoBlock

(* platform_mem_info is zeroed; nobody calls the allocator before          *)
(* wiced_platform_init has returned.                                       *)
Init ==
  /\ state = "cold" /\ locking = FALSE
  /\ free_num = [c \in Cats |-> 0]
  /\ p_first = [c \in Cats |-> NoBlock]
  /\ p_next = [b \in Blocks |-> NoBlock]
  /\ use_map = {}
  /\ holder = NoThread
  /\ pc = [t \in Threads |-> "idle"]
  /\ size = [t \in Threads |-> 0]
  /\ cat = [t \in Threads |-> 0]
  /\ target = [t \in Threads |-> NoBlock]
  /\ held = [t \in Threads |-> {}]

(* A slip: the loop that links the blocks stops one category early. *)
BuildListsShort ==
  /\ p_first' = [c \in Cats |-> IF c = Len(Num) THEN NoBlock ELSE Nth(c, 1)]
  /\ p_next' = [b \in Blocks |-> Nth(b[1], b[2] + 1)]

(* Every category's blocks are linked front to back. *)
BuildLists ==
  /\ p_first' = [c \in Cats |-> Nth(c, 1)]
  /\ p_next' = [b \in Blocks |-> Nth(b[1], b[2] + 1)]

(* A slip: the lists are built before the buffers are looked at. *)
ListsAnyway == BuildLists

(* A buffer is missing: return before anything is linked. *)
SkipLists == UNCHANGED <<p_first, p_next>>

(* platform_mem_init.  wiced_platform_init ignores its result, so the      *)
(* application runs whichever step failed: the counters may already be set *)
(* when the lists are not.  (The sizes are in increasing order, see the    *)
(* assumption, so the check of platform_mem_cfg does not fail.)            *)
InitNoHeap ==
  /\ state = "cold" /\ state' = "failed"
  /\ UNCHANGED <<locking, pool, holder, pc, local, held>>

InitNoMutex ==
  /\ state = "cold" /\ state' = "failed"
  /\ free_num' = Num
  /\ UNCHANGED <<locking, p_first, p_next, use_map, holder, pc, local, held>>

InitNoBuffers ==
  /\ state = "cold" /\ state' = "failed"
  /\ free_num' = Num
  /\ locking' = TRUE
  /\ SkipLists
  /\ UNCHANGED <<use_map, holder, pc, local, held>>

InitDone ==
  /\ state = "cold" /\ state' = "ready"
  /\ free_num' = Num
  /\ locking' = TRUE
  /\ BuildLists
  /\ UNCHANGED <<use_map, holder, pc, local, held>>

-----------------------------------------------------------------------------

Goto(t, from, to) ==
  /\ pc[t] = from
  /\ pc' = [pc EXCEPT ![t] = to]

(* A slip: the mutex is not waited for. *)
LockNotTaken(t) == UNCHANGED holder

(* wiced_rtos_lock_mutex: waits for the holder to leave.  Without a mutex  *)
(* the call fails and its result is not looked at.                         *)
Lock(t) ==
  IF locking THEN holder = NoThread /\ holder' = t ELSE UNCHANGED holder

AllocCall(t, n) ==
  /\ state # "cold"
  /\ Goto(t, "idle", "alloc_lock")
  /\ size' = [size EXCEPT ![t] = n]
  /\ UNCHANGED <<state, locking, pool, holder, cat, target, held>>

AllocLock(t) ==
  /\ Goto(t, "alloc_lock", "alloc_search")
  /\ Lock(t)
  /\ UNCHANGED <<state, locking, pool, local, held>>

(* The first category that is large enough and has a free block. *)
Candidates(t) == {c \in Cats : Size[c] >= size[t] /\ free_num[c] > 0}

AllocSearch(t) ==
  /\ Goto(t, "alloc_search", "alloc_read")
  /\ \E c \in Candidates(t) :
       /\ \A d \in Candidates(t) : c <= d
       /\ cat' = [cat EXCEPT ![t] = c]
  /\ UNCHANGED <<state, locking, pool, holder, size, target, held>>

(* Slips: the search's end is not tested; it returns past the unlock. *)
AllocNoneUntested(t) ==
  /\ Goto(t, "alloc_search", "alloc_read")
  /\ Candidates(t) = {}
  /\ cat' = [cat EXCEPT ![t] = Len(Num) + 1]
  /\ UNCHANGED <<state, locking, pool, holder, size, target, held>>

AllocNoneReturns(t) ==
  /\ Goto(t, "alloc_search", "idle")
  /\ Candidates(t) = {}
  /\ UNCHANGED <<state, locking, pool, holder, local, held>>

AllocNone(t) ==
  /\ Goto(t, "alloc_search", "unlock")
  /\ Candidates(t) = {}
  /\ UNCHANGED <<state, locking, pool, holder, local, held>>

(* p_first is read before it is written: the target is a local from here. *)
AllocRead(t) ==
  /\ Goto(t, "alloc_read", "alloc_take")
  /\ p_first[cat[t]] # NoBlock
  /\ target' = [target EXCEPT ![t] = p_first[cat[t]]]
  /\ UNCHANGED <<state, locking, pool, holder, size, cat, held>>

(* The branch marked "Unexpected": a free block is counted, none is listed. *)
AllocUnexpected(t) ==
  /\ Goto(t, "alloc_read", "unlock")
  /\ p_first[cat[t]] = NoBlock
  /\ UNCHANGED <<state, locking, pool, holder, local, held>>

(* Slips: the free block is still counted; it is not marked in use. *)
StillCounted(c) == UNCHANGED free_num

NotMarked(b) == UNCHANGED use_map

CountDown(c) == free_num' = [free_num EXCEPT ![c] = @ - 1]

MarkUsed(b) == use_map' = use_map \cup {b}

AllocTake(t) ==
  /\ Goto(t, "alloc_take", "unlock")
  /\ p_first' = [p_first EXCEPT ![cat[t]] = p_next[target[t]]]
  /\ CountDown(cat[t])
  /\ MarkUsed(target[t])
  /\ held' = [held EXCEPT ![t] = @ \cup {target[t]}]
  /\ UNCHANGED <<state, locking, p_next, holder, local>>

(* Both functions leave through their END label. *)
Unlock(t) ==
  /\ Goto(t, "unlock", "idle")
  /\ holder' = IF locking THEN NoThread ELSE holder
  /\ size' = [size EXCEPT ![t] = 0]
  /\ cat' = [cat EXCEPT ![t] = 0]
  /\ target' = [target EXCEPT ![t] = NoBlock]
  /\ UNCHANGED <<state, locking, pool, held>>

-----------------------------------------------------------------------------

(* A thread frees a block it holds, or a pointer that is not the pool's.   *)
FreeCall(t, b) ==
  /\ state # "cold"
  /\ b \in held[t] \cup {NoBlock}
  /\ Goto(t, "idle", "free_lock")
  /\ target' = [target EXCEPT ![t] = b]
  /\ held' = [held EXCEPT ![t] = @ \ {b}]
  /\ UNCHANGED <<state, locking, pool, holder, size, cat>>

FreeLock(t) ==
  /\ Goto(t, "free_lock", "free_check")
  /\ Lock(t)
  /\ UNCHANGED <<state, locking, pool, local, held>>

(* What platform_mem_free links back: its check lets a block through when  *)
(* the bit of use_map is clear.                                            *)
Returned(t) == {b \in Blocks : b = target[t] /\ b \notin use_map}

FreeCheck(t) ==
  LET back == Returned(t) IN
  /\ Goto(t, "free_check", "unlock")
  /\ use_map' = use_map \ back
  /\ p_next' = [b \in Blocks |-> IF b \in back THEN p_first[b[1]] ELSE p_next[b]]
  /\ p_first' = [c \in Cats |-> IF \E b \in back : b[1] = c THEN target[t]
                                                           ELSE p_first[c]]
  /\ free_num' = [c \in Cats |-> IF \E b \in back : b[1] = c THEN free_num[c] + 1
                                                            ELSE free_num[c]]
  /\ UNCHANGED <<state, locking, holder, local, held>>

-----------------------------------------------------------------------------

Startup == InitNoHeap \/ InitNoMutex \/ InitNoBuffers \/ InitDone

Allocate(t) ==
  \/ AllocLock(t) \/ AllocSearch(t) \/ AllocNone(t)
  \/ AllocRead(t) \/ AllocUnexpected(t) \/ AllocTake(t)

Free(t) == FreeLock(t) \/ FreeCheck(t)

Call(t) ==
  \/ \E n \in Requests : AllocCall(t, n)
  \/ \E b \in Blocks \cup {NoBlock} : FreeCall(t, b)

Next ==
  \/ Startup
  \/ \E t \in Threads : Call(t) \/ Allocate(t) \/ Free(t) \/ Unlock(t)

Spec == Init /\ [][Next]_vars

(* A thread that is inside the functions keeps running: nothing it does     *)
(* there waits.  Nothing is assumed of who gets the mutex next.            *)
Fairness ==
  \A t \in Threads :
    WF_vars(AllocSearch(t) \/ AllocNone(t) \/ AllocRead(t) \/ AllocUnexpected(t)
            \/ AllocTake(t) \/ FreeCheck(t) \/ Unlock(t))

FairSpec == Spec /\ Fairness

-----------------------------------------------------------------------------
(* Properties. *)

(* The list of category c, followed from p_first along p_next for as many  *)
(* links as the category can have.                                         *)
Walk(c) ==
  LET at[n \in 0..Num[c]] ==
        IF n = 0 THEN p_first[c]
        ELSE IF at[n - 1] = NoBlock THEN NoBlock ELSE p_next[at[n - 1]]
  IN  at

Listed(c) == {Walk(c)[n] : n \in 0..Num[c]} \ {NoBlock}

(* The three records platform_mem.c keeps of the same fact agree: the list *)
(* of a category, its free_num and the bits of p_use_map.  A block that is *)
(* lost from a list, or is on it twice, breaks it.                         *)
FreeListSound ==
  state = "ready" =>
    \A c \in Cats :
      /\ Listed(c) = {b \in Blocks : b[1] = c} \ use_map
      /\ Cardinality(Listed(c)) = free_num[c]

(* A block has one holder at most, and the map knows that it is in use:    *)
(* no two callers of platform_mem_allocate get the same memory.            *)
NoSharedBlock ==
  /\ \A t1, t2 \in Threads : t1 # t2 => held[t1] \cap held[t2] = {}
  /\ \A t \in Threads : held[t] \subseteq use_map

(* The "Unexpected" branch of platform_mem_allocate is not reached in a    *)
(* pool that was initialised.                                              *)
UnexpectedUnreached ==
  state = "ready" =>
    \A t \in Threads : pc[t] = "alloc_read" => p_first[cat[t]] # NoBlock

(* Initialisation that fails half way hands nothing out, although free_num *)
(* already counts blocks and nobody looks at the result.                   *)
FailedInitGrantsNothing ==
  state = "failed" => \A t \in Threads : held[t] = {} /\ pc[t] # "alloc_take"

(* Before initialisation, and for ever if it failed, there is nothing to   *)
(* hand out.                                                               *)
NothingListed ==
  state # "ready" =>
    /\ \A c \in Cats : p_first[c] = NoBlock
    /\ use_map = {}
    /\ \A t \in Threads :
         held[t] = {} /\ pc[t] # "alloc_take" /\ target[t] = NoBlock

(* The shape of an initialised pool: a category's blocks go front to back, *)
(* Num - free_num of them are gone, the rest is the list in its original   *)
(* order.  No block ever comes back: the check of platform_mem_free lets   *)
(* only blocks through that were never handed out.                         *)
FreeListIsSuffix ==
  state = "ready" =>
    /\ \A b \in Blocks : p_next[b] = Nth(b[1], b[2] + 1)
    /\ \A c \in Cats : /\ free_num[c] <= Num[c]
                       /\ p_first[c] = Nth(c, Num[c] - free_num[c] + 1)
    /\ \A b \in Blocks : b \in use_map <=> b[2] <= Num[b[1]] - free_num[b[1]]

(* The mutex is held by the one thread that is inside. *)
LockInv ==
  /\ state = "cold" => \A t \in Threads : pc[t] = "idle"
  /\ state = "ready" => locking
  /\ ~locking => holder = NoThread
  /\ locking => \A t \in Threads : pc[t] \in InPool <=> holder = t

(* What the locals of a thread are worth at each point. *)
LocalInv ==
  \A t \in Threads :
    /\ pc[t] = "alloc_read" => cat[t] \in Cats /\ free_num[cat[t]] > 0
    /\ pc[t] = "alloc_take" => /\ cat[t] \in Cats /\ free_num[cat[t]] > 0
                               /\ target[t] = p_first[cat[t]]
                               /\ target[t] # NoBlock
    /\ pc[t] \in {"free_lock", "free_check"} => target[t] \in use_map \cup {NoBlock}

(* The inductive invariant: the properties above follow from it. *)
IInv ==
  /\ TypeOK
  /\ NothingListed
  /\ FreeListIsSuffix
  /\ LockInv
  /\ LocalInv
  /\ NoSharedBlock

(* platform_mem.c implements the promise of module BlockPool. *)
Available == IF state = "ready" THEN Blocks \ use_map ELSE {}

Pool == INSTANCE BlockPool WITH Clients <- Threads, available <- Available,
                                owned <- held

ImplementsPool == Pool!Spec

(* Every way through allocate and free ends at the unlock: who enters the  *)
(* pool leaves it, with the mutex free for others.                         *)
CallsLeave ==
  \A t \in Threads : pc[t] \in InPool ~> (pc[t] = "idle" /\ holder # t)

(* "Reset the allocation flag" and "Add the target block back to the head  *)
(* of the available block list": a free of a block leaves it available.    *)
FreeReturnsBlock ==
  [][\A t \in Threads :
       pc[t] = "free_check" /\ pc'[t] = "unlock" /\ target[t] # NoBlock
         => target[t] \notin use_map']_vars

==============================================================================
