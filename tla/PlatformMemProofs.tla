-------------------------- MODULE PlatformMemProofs --------------------------
(***************************************************************************)
(* Proofs about the allocator of PlatformMem, for every number of threads, *)
(* every table of categories and every set of requests, and about the      *)
(* address arithmetic of PoolLayout, for every table and every pointer.    *)
(*                                                                         *)
(* What the recursive functions of the two modules are is proved by way of *)
(* a least counterexample.                                                 *)
(***************************************************************************)
EXTENDS PlatformMem, PoolLayout, FiniteSetTheorems, TLAPS

-----------------------------------------------------------------------------
(* Induction over the numbers. *)

(* The intervals from 0 are finite sets, and strict inclusion of finite    *)
(* sets is well founded.                                                   *)
LEMMA LeastNumber ==
  ASSUME NEW S \in SUBSET Nat, S # {}
  PROVE  \E m \in S : \A n \in S : m <= n
<1> DEFINE R == StrictSubsetOrdering(Nat)
           F == {0..n : n \in S}
<1>1. IsWellFoundedOn(R, FiniteSubsetsOf(Nat))
  BY FS_StrictSubsetOrderingWellFounded
<1>2. F \subseteq FiniteSubsetsOf(Nat) /\ F # {}
  <2>1. ASSUME NEW n \in S PROVE 0..n \in FiniteSubsetsOf(Nat)
    <3>1. IsFiniteSet(0..n)
      BY FS_Interval
    <3> QED BY <3>1 DEF FiniteSubsetsOf
  <2> QED BY <2>1
<1> HIDE DEF F, R
<1>3. PICK X \in F : \A Y \in F : ~(<<Y, X>> \in R)
  BY <1>1, <1>2, WFMin
<1>4. PICK m \in S : X = 0..m
  BY <1>3 DEF F
<1>5. ASSUME NEW n \in S, n < m PROVE FALSE
  <2>1. 0..n \in F
    BY DEF F
  <2>2. m \in 0..m /\ m \notin 0..n
    BY <1>5
  <2>3. <<0..n, 0..m>> \in R
    BY <2>2, <1>5 DEF R, StrictSubsetOrdering
  <2> QED BY <1>3, <1>4, <2>1, <2>3
<1> QED BY <1>4, <1>5

(* A set that has 0, and with a number below N the next one, has them all. *)
LEMMA UpTo ==
  ASSUME NEW N \in Nat, NEW S, 0 \in S,
         \A n \in 0..(N - 1) : n \in S => n + 1 \in S
  PROVE  \A n \in 0..N : n \in S
<1> SUFFICES ASSUME (0..N) \ S # {} PROVE FALSE
  OBVIOUS
<1>1. PICK m \in (0..N) \ S : \A n \in (0..N) \ S : m <= n
  <2>1. (0..N) \ S \in SUBSET Nat
    OBVIOUS
  <2> QED BY <2>1, LeastNumber
<1>2. m # 0 /\ m - 1 \in 0..(N - 1) /\ m - 1 \in S
  BY <1>1
<1>3. (m - 1) + 1 = m
  BY <1>1
<1> QED BY <1>1, <1>2, <1>3

(* A block is a category and an index in it. *)
LEMMA BlockShape ==
  ASSUME NEW b \in Blocks
  PROVE  /\ b[1] \in Cats /\ b[2] \in 1..Num[b[1]] /\ b = <<b[1], b[2]>>
         /\ Num[b[1]] \in Nat
<1>0. PICK c \in Cats : b \in {<<c, j>> : j \in 1..Num[c]}
  BY DEF Blocks
<1>1. PICK j \in 1..Num[c] : b = <<c, j>>
  BY <1>0
<1>2. Num[c] \in Nat
  BY PlatformMemAssumption DEF PlatformMemAssumption, Cats
<1> QED BY <1>1, <1>2

LEMMA PairIsBlock ==
  ASSUME NEW c \in Cats, NEW j \in 1..Num[c]
  PROVE  <<c, j>> \in Blocks
BY DEF Blocks

LEMMA NumIsNat ==
  ASSUME NEW c \in Cats
  PROVE  Num[c] \in Nat /\ Num[c] > 0 /\ c \in Nat /\ c # 0
BY PlatformMemAssumption DEF PlatformMemAssumption, Cats

LEMMA NumIsFunction == Num \in [Cats -> Nat]
BY PlatformMemAssumption DEF PlatformMemAssumption, Cats

LEMMA NoThreadIsNoThread == NoThread \notin Threads
BY PlatformMemAssumption DEF PlatformMemAssumption

LEMMA NthIsBlock ==
  ASSUME NEW c \in Cats, NEW j
  PROVE  /\ Nth(c, j) \in Blocks \cup {NoBlock}
         /\ Nth(c, j) # NoBlock => Nth(c, j) = <<c, j>> /\ j \in 1..Num[c]
BY PairIsBlock DEF Nth

LEMMA InitIInv == Init => IInv
<1> SUFFICES ASSUME Init PROVE IInv
  OBVIOUS
<1> USE DEF Init
<1>1. TypeOK
  BY PlatformMemAssumption DEF TypeOK, PC
<1>2. NothingListed /\ FreeListIsSuffix
  BY DEF NothingListed, FreeListIsSuffix
<1>3. LockInv /\ LocalInv
  BY PlatformMemAssumption DEF LockInv, LocalInv, InPool
<1>4. NoSharedBlock
  BY DEF NoSharedBlock
<1> QED BY <1>1, <1>2, <1>3, <1>4 DEF IInv

-----------------------------------------------------------------------------
(* Each kind of step preserves the invariant. *)

LEMMA StartupIInv ==
  ASSUME IInv, Startup
  PROVE  IInv'
<1> USE DEF IInv
<1>1. CASE InitNoHeap
  BY <1>1 DEF InitNoHeap, pool, local, TypeOK, NothingListed, FreeListIsSuffix,
     LockInv, LocalInv, NoSharedBlock, InPool
<1>2. CASE InitNoMutex \/ InitNoBuffers
  <2>1. /\ free_num' = Num /\ state' = "failed" /\ state = "cold"
        /\ UNCHANGED <<p_first, p_next, use_map, holder, pc, local, held>>
        /\ locking' \in BOOLEAN
    BY <1>2 DEF InitNoMutex, InitNoBuffers, SkipLists, TypeOK
  <2>2. TypeOK'
    BY <2>1, NumIsFunction DEF TypeOK, local
  <2> QED
    BY <2>1, <2>2, NoThreadIsNoThread DEF local, NothingListed, FreeListIsSuffix, LockInv, LocalInv,
       NoSharedBlock, InPool, TypeOK
<1>3. CASE InitDone
  <2>1. /\ free_num' = Num /\ state' = "ready" /\ state = "cold" /\ locking' = TRUE
        /\ p_first' = [c \in Cats |-> Nth(c, 1)]
        /\ p_next' = [b \in Blocks |-> Nth(b[1], b[2] + 1)]
        /\ UNCHANGED <<use_map, holder, pc, size, cat, target, held>>
    BY <1>3 DEF InitDone, BuildLists, local
  <2>2. \A b \in Blocks : Nth(b[1], b[2] + 1) \in Blocks \cup {NoBlock}
    BY BlockShape, NthIsBlock
  <2>3. TypeOK'
    BY <2>1, <2>2, NumIsFunction, NthIsBlock DEF TypeOK
  <2>4. FreeListIsSuffix'
    <3>1. \A b \in Blocks : b \notin use_map'
      BY <2>1 DEF NothingListed
    <3>2. \A c \in Cats : Num[c] - free_num'[c] = 0
      BY <2>1, NumIsNat
    <3>3. \A b \in Blocks : ~ (b[2] <= 0)
      BY BlockShape
    <3>4. \A c \in Cats : free_num'[c] <= Num[c] /\ p_first'[c] = Nth(c, 0 + 1)
      BY <2>1, NumIsNat
    <3> QED
      BY <2>1, <3>1, <3>2, <3>3, <3>4, BlockShape DEF FreeListIsSuffix
  <2> QED
    BY <2>1, <2>3, <2>4, NoThreadIsNoThread DEF NothingListed, LockInv, LocalInv, NoSharedBlock, InPool,
       TypeOK
<1> QED BY <1>1, <1>2, <1>3 DEF Startup

(* The steps that leave the pool and the blocks held alone: entering,      *)
(* searching and leaving.                                                  *)
LEMMA MoveIInv ==
  ASSUME IInv, NEW t \in Threads,
         \/ \E n \in Requests : AllocCall(t, n)
         \/ AllocLock(t) \/ AllocSearch(t) \/ AllocNone(t) \/ AllocRead(t)
         \/ AllocUnexpected(t) \/ FreeLock(t) \/ Unlock(t)
  PROVE  IInv'
<1> USE DEF IInv
<1>1. UNCHANGED <<state, locking, free_num, p_first, p_next, use_map, held>>
  BY DEF AllocCall, AllocLock, AllocSearch, AllocNone, AllocRead, AllocUnexpected,
     FreeLock, Unlock, pool
<1>2. FreeListIsSuffix' /\ NoSharedBlock'
  BY <1>1 DEF FreeListIsSuffix, NoSharedBlock
<1> SUFFICES TypeOK' /\ NothingListed' /\ LockInv' /\ LocalInv'
  BY <1>2
<1> USE <1>1 DEF TypeOK, NothingListed, LockInv, LocalInv, InPool, PC, Goto
<1>3. CASE \E n \in Requests : AllocCall(t, n)
  BY <1>3 DEF AllocCall
<1>4. CASE AllocLock(t)
  BY <1>4, NoThreadIsNoThread DEF AllocLock, Lock, local
<1>5. CASE AllocSearch(t)
  BY <1>5 DEF AllocSearch, Candidates
<1>6. CASE AllocNone(t)
  BY <1>6 DEF AllocNone, local
<1>7. CASE AllocRead(t)
  BY <1>7 DEF AllocRead
<1>8. CASE AllocUnexpected(t)
  BY <1>8 DEF AllocUnexpected, local
<1>9. CASE FreeLock(t)
  BY <1>9, NoThreadIsNoThread DEF FreeLock, Lock, local
<1>10. CASE Unlock(t)
  BY <1>10, NoThreadIsNoThread DEF Unlock
<1> QED BY <1>3, <1>4, <1>5, <1>6, <1>7, <1>8, <1>9, <1>10

(* The first block of a category's list is taken off it. *)
LEMMA AllocTakeIInv ==
  ASSUME IInv, NEW t \in Threads, AllocTake(t)
  PROVE  IInv'
<1> DEFINE c == cat[t]
           b == target[t]
           n == Num[c] - free_num[c]
<1> USE DEF IInv
<1>1. /\ pc[t] = "alloc_take"
      /\ pc' = [pc EXCEPT ![t] = "unlock"]
      /\ p_first' = [p_first EXCEPT ![c] = p_next[b]]
      /\ free_num' = [free_num EXCEPT ![c] = free_num[c] - 1]
      /\ use_map' = use_map \cup {b}
      /\ held' = [held EXCEPT ![t] = held[t] \cup {b}]
      /\ UNCHANGED <<state, locking, p_next, holder, size, cat, target>>
  BY DEF AllocTake, Goto, CountDown, MarkUsed, local
<1>2. state = "ready" /\ locking
  BY <1>1 DEF NothingListed, LockInv, TypeOK
<1>3. c \in Cats /\ free_num[c] \in Nat /\ free_num[c] > 0 /\ b = p_first[c] /\ b # NoBlock
  BY <1>1 DEF LocalInv, TypeOK
<1>4. Num[c] \in Nat /\ n \in Nat /\ free_num[c] <= Num[c]
  BY <1>2, <1>3, NumIsNat DEF FreeListIsSuffix
<1>5. b = <<c, n + 1>> /\ n + 1 \in 1..Num[c] /\ b \in Blocks
  BY <1>2, <1>3, <1>4, NthIsBlock, PairIsBlock DEF FreeListIsSuffix
<1>6. b \notin use_map
  BY <1>2, <1>4, <1>5 DEF FreeListIsSuffix
<1>7. TypeOK'
  BY <1>1, <1>3, <1>5 DEF TypeOK, PC
<1>8. NothingListed'
  BY <1>1, <1>2 DEF NothingListed
<1>9. FreeListIsSuffix'
  <2>1. free_num'[c] = free_num[c] - 1 /\ p_first'[c] = Nth(c, n + 2)
    <3>1. p_next[b] = Nth(b[1], b[2] + 1)
      BY <1>2, <1>5 DEF FreeListIsSuffix
    <3>2. b[1] = c /\ b[2] + 1 = n + 2
      BY <1>4, <1>5
    <3> QED BY <1>1, <1>3, <3>1, <3>2 DEF TypeOK
  <2>2. ASSUME NEW d \in Cats
        PROVE  free_num'[d] <= Num[d] /\ p_first'[d] = Nth(d, Num[d] - free_num'[d] + 1)
    <3>1. CASE d = c
      <4>1. Num[c] - free_num'[c] + 1 = n + 2
        BY <1>3, <1>4, <2>1
      <4> QED BY <1>3, <1>4, <2>1, <3>1, <4>1
    <3>2. CASE d # c
      BY <1>1, <1>2, <3>2 DEF FreeListIsSuffix, TypeOK
    <3> QED BY <3>1, <3>2
  <2>3. ASSUME NEW a \in Blocks
        PROVE  a \in use_map' <=> a[2] <= Num[a[1]] - free_num'[a[1]]
    <3>1. CASE a[1] = c
      <4>1. a[2] \in Nat /\ a = <<c, a[2]>>
        BY <3>1, BlockShape
      <4>2. a \in use_map <=> a[2] <= n
        BY <1>2, <3>1 DEF FreeListIsSuffix
      <4>3. a = b <=> a[2] = n + 1
        BY <1>5, <4>1
      <4>4. Num[a[1]] - free_num'[a[1]] = n + 1
        BY <1>3, <1>4, <2>1, <3>1
      <4> QED BY <1>1, <1>4, <4>1, <4>2, <4>3, <4>4
    <3>2. CASE a[1] # c
      <4>1. a # b
        BY <1>5, <3>2
      <4>2. free_num'[a[1]] = free_num[a[1]]
        BY <1>1, <3>2, BlockShape DEF TypeOK
      <4> QED BY <1>1, <1>2, <4>1, <4>2 DEF FreeListIsSuffix
    <3> QED BY <3>1, <3>2
  <2>4. \A a \in Blocks : p_next'[a] = Nth(a[1], a[2] + 1)
    BY <1>1, <1>2 DEF FreeListIsSuffix
  <2> QED BY <2>2, <2>3, <2>4 DEF FreeListIsSuffix
<1>10. LockInv'
  BY <1>1, <1>2 DEF LockInv, InPool, TypeOK
<1>11. LocalInv'
  <2> SUFFICES ASSUME NEW u \in Threads
               PROVE  /\ pc'[u] = "alloc_read" => cat[u] \in Cats /\ free_num'[cat[u]] > 0
                      /\ pc'[u] # "alloc_take"
                      /\ pc'[u] \in {"free_lock", "free_check"} =>
                           target[u] \in use_map' \cup {NoBlock}
    BY <1>1 DEF LocalInv
  <2>1. u # t => pc[u] \notin InPool
    BY <1>1, <1>2 DEF LockInv, InPool
  <2>2. pc'[u] = IF u = t THEN "unlock" ELSE pc[u]
    BY <1>1 DEF TypeOK
  <2> QED BY <1>1, <2>1, <2>2 DEF LocalInv, InPool
<1>12. NoSharedBlock'
  BY <1>1, <1>6 DEF NoSharedBlock, TypeOK
<1> QED BY <1>7, <1>8, <1>9, <1>10, <1>11, <1>12

(* The caller gives up what it frees; the block stays marked in use. *)
LEMMA FreeCallIInv ==
  ASSUME IInv, NEW t \in Threads, NEW b \in Blocks \cup {NoBlock}, FreeCall(t, b)
  PROVE  IInv'
<1> USE DEF IInv
<1>1. /\ state # "cold" /\ b \in held[t] \cup {NoBlock}
      /\ pc[t] = "idle" /\ pc' = [pc EXCEPT ![t] = "free_lock"]
      /\ target' = [target EXCEPT ![t] = b]
      /\ held' = [held EXCEPT ![t] = held[t] \ {b}]
      /\ UNCHANGED <<state, locking, free_num, p_first, p_next, use_map, holder, size, cat>>
  BY DEF FreeCall, Goto, pool
<1>2. TypeOK'
  BY <1>1 DEF TypeOK, PC
<1>3. NothingListed'
  BY <1>1 DEF NothingListed, TypeOK
<1>4. FreeListIsSuffix'
  BY <1>1 DEF FreeListIsSuffix
<1>5. LockInv'
  BY <1>1 DEF LockInv, InPool, TypeOK
<1>6. b \in use_map \cup {NoBlock}
  BY <1>1 DEF NoSharedBlock
<1>7. LocalInv'
  BY <1>1, <1>6 DEF LocalInv, TypeOK
<1>8. NoSharedBlock'
  BY <1>1 DEF NoSharedBlock, TypeOK
<1> QED BY <1>2, <1>3, <1>4, <1>5, <1>7, <1>8

(* platform_mem_free has nothing to link back: whoever calls it holds the  *)
(* block, so its bit is set and the check sends it to the end.             *)
LEMMA NothingReturned ==
  ASSUME IInv, NEW t \in Threads, pc[t] = "free_check"
  PROVE  Returned(t) = {}
BY PlatformMemAssumption DEF IInv, LocalInv, Returned, PlatformMemAssumption

LEMMA FreeCheckIInv ==
  ASSUME IInv, NEW t \in Threads, FreeCheck(t)
  PROVE  /\ IInv'
         /\ UNCHANGED <<state, use_map, held>>
<1> USE DEF IInv
<1>1. pc[t] = "free_check" /\ pc' = [pc EXCEPT ![t] = "unlock"]
  BY DEF FreeCheck, Goto
<1>2. Returned(t) = {}
  BY <1>1, NothingReturned
<1>3. /\ UNCHANGED <<state, locking, use_map, holder, size, cat, target, held>>
      /\ p_next' = [b \in Blocks |-> p_next[b]]
      /\ p_first' = [c \in Cats |-> p_first[c]]
      /\ free_num' = [c \in Cats |-> free_num[c]]
  BY <1>2 DEF FreeCheck, local
<1>4. UNCHANGED <<p_next, p_first, free_num>>
  BY <1>3 DEF TypeOK
<1>5. TypeOK'
  BY <1>1, <1>3, <1>4 DEF TypeOK, PC
<1>6. NothingListed' /\ FreeListIsSuffix' /\ NoSharedBlock'
  BY <1>1, <1>3, <1>4 DEF NothingListed, FreeListIsSuffix, NoSharedBlock, TypeOK
<1>7. LockInv'
  BY <1>1, <1>3 DEF LockInv, InPool, TypeOK
<1>8. LocalInv'
  BY <1>1, <1>3, <1>4 DEF LocalInv, TypeOK
<1> QED BY <1>3, <1>5, <1>6, <1>7, <1>8

LEMMA StepIInv == IInv /\ [Next]_vars => IInv'
<1> SUFFICES ASSUME IInv, [Next]_vars PROVE IInv'
  OBVIOUS
<1>1. CASE Startup
  BY <1>1, StartupIInv
<1>2. ASSUME NEW t \in Threads, Call(t) \/ Allocate(t) \/ Free(t) \/ Unlock(t)
      PROVE  IInv'
  BY <1>2, MoveIInv, AllocTakeIInv, FreeCallIInv, FreeCheckIInv
     DEF Call, Allocate, Free
<1>3. CASE UNCHANGED vars
  BY <1>3 DEF vars, pool, local, IInv, TypeOK, NothingListed, FreeListIsSuffix,
     LockInv, LocalInv, NoSharedBlock
<1> QED BY <1>1, <1>2, <1>3 DEF Next

-----------------------------------------------------------------------------

(* The inductive invariant holds in every reachable state. *)
THEOREM Inductive == Spec => []IInv
BY InitIInv, StepIInv, PTL DEF Spec

(* Every variable of the allocator stays in its range: in particular       *)
(* free_num never goes below zero and the free lists only hold blocks.     *)
THEOREM TypeCorrect == Spec => []TypeOK
<1>1. IInv => TypeOK
  BY DEF IInv
<1> QED BY <1>1, Inductive, PTL

(* Two callers of platform_mem_allocate never hold the same block. *)
THEOREM BlocksNotShared == Spec => []NoSharedBlock
<1>1. IInv => NoSharedBlock
  BY DEF IInv
<1> QED BY <1>1, Inductive, PTL

(* The branch of platform_mem_allocate marked "Unexpected" is dead once    *)
(* platform_mem_init has succeeded.                                        *)
THEOREM UnexpectedIsDead == Spec => []UnexpectedUnreached
<1>1. ASSUME IInv PROVE UnexpectedUnreached
  <2> SUFFICES ASSUME state = "ready", NEW t \in Threads, pc[t] = "alloc_read"
               PROVE  p_first[cat[t]] # NoBlock
    BY DEF UnexpectedUnreached
  <2> DEFINE c == cat[t]
  <2>1. c \in Cats /\ free_num[c] \in Nat /\ free_num[c] > 0
    BY <1>1 DEF IInv, LocalInv, TypeOK
  <2>2. Num[c] - free_num[c] + 1 \in 1..Num[c] /\ p_first[c] = Nth(c, Num[c] - free_num[c] + 1)
    BY <1>1, <2>1, NumIsNat DEF IInv, FreeListIsSuffix
  <2>3. p_first[c] = <<c, Num[c] - free_num[c] + 1>> /\ p_first[c] \in Blocks
    BY <2>1, <2>2, PairIsBlock DEF Nth
  <2> QED BY <2>3, PlatformMemAssumption DEF PlatformMemAssumption
<1> QED BY <1>1, Inductive, PTL

(* An initialisation that failed half way never hands out a block. *)
THEOREM FailedInitIsHarmless == Spec => []FailedInitGrantsNothing
<1>1. IInv => FailedInitGrantsNothing
  BY DEF IInv, NothingListed, FailedInitGrantsNothing
<1> QED BY <1>1, Inductive, PTL

-----------------------------------------------------------------------------
(* The list, followed from p_first, is what FreeListIsSuffix says it is:   *)
(* its n-th element, counted from 0, is the n-th block from the first that *)
(* is left.                                                                *)

LEMMA WalkIs ==
  ASSUME IInv, state = "ready", NEW c \in Cats
  PROVE  Walk(c) = [n \in 0..Num[c] |-> Nth(c, Num[c] - free_num[c] + 1 + n)]
<1> DEFINE N == Num[c]
           first == N - free_num[c] + 1
           E == [n \in 0..N |-> Nth(c, first + n)]
           W(f) == f = [n \in 0..N |-> IF n = 0 THEN p_first[c]
                                       ELSE IF f[n - 1] = NoBlock THEN NoBlock
                                       ELSE p_next[f[n - 1]]]
<1>1. N \in Nat /\ free_num[c] \in Nat /\ first \in Nat /\ first > 0
  BY NumIsNat DEF IInv, TypeOK, FreeListIsSuffix
<1>2. p_first[c] = Nth(c, first)
  BY DEF IInv, FreeListIsSuffix
<1>3. ASSUME NEW j \in Nat, j > 0, Nth(c, j) # NoBlock
      PROVE  p_next[Nth(c, j)] = Nth(c, j + 1)
  <2>1. Nth(c, j) = <<c, j>> /\ <<c, j>> \in Blocks
    BY <1>3, NthIsBlock, PlatformMemAssumption DEF PlatformMemAssumption
  <2> QED BY <2>1 DEF IInv, FreeListIsSuffix
<1>4. ASSUME NEW j \in Nat, j > 0, Nth(c, j) = NoBlock
      PROVE  Nth(c, j + 1) = NoBlock
  <2>1. j \notin 1..N
    BY <1>4, PairIsBlock, PlatformMemAssumption DEF Nth, PlatformMemAssumption
  <2>2. j + 1 \notin 1..N
    BY <1>1, <1>4, <2>1
  <2> QED BY <2>2 DEF Nth
<1>5. W(E)
  <2>1. ASSUME NEW n \in 0..N
        PROVE  E[n] = IF n = 0 THEN p_first[c]
                      ELSE IF E[n - 1] = NoBlock THEN NoBlock ELSE p_next[E[n - 1]]
    <3>1. CASE n = 0
      BY <1>1, <1>2, <3>1
    <3>2. CASE n # 0
      <4> DEFINE j == first + (n - 1)
      <4>1. E[n - 1] = Nth(c, j) /\ E[n] = Nth(c, j + 1) /\ j \in Nat /\ j > 0
        BY <1>1, <3>2
      <4> HIDE DEF j, E
      <4>2. CASE Nth(c, j) = NoBlock
        BY <1>4, <3>2, <4>1, <4>2
      <4>3. CASE Nth(c, j) # NoBlock
        BY <1>3, <3>2, <4>1, <4>3
      <4> QED BY <4>2, <4>3
    <3> QED BY <3>1, <3>2
  <2> QED BY <2>1
<1>6. W(Walk(c))
  BY <1>5 DEF Walk
<1>7. \A n \in 0..N : Walk(c)[n] = E[n]
  <2> DEFINE S == {n \in 0..N : Walk(c)[n] = E[n]}
  <2> HIDE DEF E
  <2>1. 0 \in S
    BY <1>1, <1>5, <1>6
  <2>2. ASSUME NEW n \in 0..(N - 1), n \in S
        PROVE  n + 1 \in S
    <3>1. n + 1 \in 0..N /\ n + 1 # 0 /\ (n + 1) - 1 = n /\ Walk(c)[n] = E[n]
      BY <1>1, <2>2
    <3>2. Walk(c)[n + 1] = IF Walk(c)[n] = NoBlock THEN NoBlock ELSE p_next[Walk(c)[n]]
      BY <1>6, <3>1
    <3>3. E[n + 1] = IF E[n] = NoBlock THEN NoBlock ELSE p_next[E[n]]
      BY <1>5, <3>1
    <3> QED BY <3>1, <3>2, <3>3
  <2> HIDE DEF S
  <2>3. \A n \in 0..N : n \in S
    BY <1>1, <2>1, <2>2, UpTo
  <2> QED BY <2>3 DEF S
<1> QED BY <1>6, <1>7

(* In an initialised pool the list of a category, free_num and the bits of *)
(* p_use_map agree: the list has the free blocks, each of them once.       *)
THEOREM FreeListsSound == Spec => []FreeListSound
<1>1. ASSUME IInv PROVE FreeListSound
  <2> SUFFICES ASSUME state = "ready", NEW c \in Cats
               PROVE  /\ Listed(c) = {b \in Blocks : b[1] = c} \ use_map
                      /\ Cardinality(Listed(c)) = free_num[c]
    BY DEF FreeListSound
  <2> DEFINE N == Num[c]
             f == free_num[c]
             used == N - f
             L == {<<c, used + j>> : j \in 1..f}
  <2>1. N \in Nat /\ f \in Nat /\ used \in Nat
    BY <1>1, NumIsNat DEF IInv, TypeOK, FreeListIsSuffix
  <2>2. \A b \in Blocks : b \in use_map <=> b[2] <= Num[b[1]] - free_num[b[1]]
    BY <1>1 DEF IInv, FreeListIsSuffix
  <2>3. Listed(c) = L
    <3>1. ASSUME NEW b \in Listed(c) PROVE b \in L
      <4>1. PICK n \in 0..N : b = Nth(c, used + 1 + n) /\ b # NoBlock
        BY <1>1, WalkIs DEF Listed
      <4>2. b = <<c, used + 1 + n>> /\ used + 1 + n \in 1..N
        BY <4>1, NthIsBlock
      <4>3. n + 1 \in 1..f /\ used + 1 + n = used + (n + 1)
        BY <2>1, <4>1, <4>2
      <4> QED BY <4>2, <4>3
    <3>2. ASSUME NEW j \in 1..f PROVE <<c, used + j>> \in Listed(c)
      <4>1. used + j \in 1..N /\ j - 1 \in 0..N /\ used + 1 + (j - 1) = used + j
        BY <2>1
      <4>2. Nth(c, used + j) = <<c, used + j>> /\ <<c, used + j>> \in Blocks
        BY <4>1, PairIsBlock DEF Nth
      <4>3. Walk(c)[j - 1] = <<c, used + j>>
        BY <1>1, <4>1, <4>2, WalkIs
      <4> QED BY <4>1, <4>2, <4>3, PlatformMemAssumption DEF Listed, PlatformMemAssumption
    <3> QED BY <3>1, <3>2
  <2>4. L = {b \in Blocks : b[1] = c} \ use_map
    <3>1. ASSUME NEW j \in 1..f
          PROVE  <<c, used + j>> \in {b \in Blocks : b[1] = c} \ use_map
      <4>1. used + j \in 1..N /\ ~(used + j <= used)
        BY <2>1
      <4>2. <<c, used + j>> \in Blocks
        BY <4>1, PairIsBlock
      <4> QED BY <2>2, <4>1, <4>2
    <3>2. ASSUME NEW b \in Blocks, b[1] = c, b \notin use_map
          PROVE  b \in L
      <4>1. b = <<c, b[2]>> /\ b[2] \in 1..N
        BY <3>2, BlockShape
      <4>2. ~(b[2] <= used)
        BY <2>2, <3>2
      <4>3. b[2] - used \in 1..f /\ used + (b[2] - used) = b[2]
        BY <2>1, <4>1, <4>2
      <4> QED BY <4>1, <4>3
    <3> QED BY <3>1, <3>2
  <2>5. Cardinality(L) = f
    <3> DEFINE g == [j \in 1..f |-> <<c, used + j>>]
    <3>1. g \in Bijection(1..f, L)
      <4>1. g \in [1..f -> L]
        OBVIOUS
      <4>2. \A j, k \in 1..f : g[j] = g[k] => j = k
        BY <2>1
      <4>3. \A b \in L : \E j \in 1..f : g[j] = b
        OBVIOUS
      <4> HIDE DEF g, L
      <4> QED BY <4>1, <4>2, <4>3 DEF Bijection, Injection, Surjection, IsInjective
    <3>2. ExistsBijection(1..f, L)
      BY <3>1 DEF ExistsBijection
    <3> HIDE DEF L, f
    <3> QED BY <2>1, <3>2, FS_CountingElements
  <2> QED BY <2>3, <2>4, <2>5
<1> QED BY <1>1, Inductive, PTL

-----------------------------------------------------------------------------
(* The allocator implements the promise of BlockPool: the step that fills  *)
(* the lists supplies every block, AllocTake grants one, the call of free  *)
(* releases it, and every other step is invisible.                         *)

LEMMA InitPool == Init => Pool!Init
BY DEF Init, Pool!Init, Available

LEMMA StepPool ==
  ASSUME IInv, [Next]_vars
  PROVE  [Pool!Next]_(Pool!vars)
<1> USE DEF IInv
<1> SUFFICES \/ Pool!Next
             \/ UNCHANGED <<Available, held>>
  BY DEF Pool!vars
<1>1. CASE InitDone
  <2>1. Available = {} /\ Available' = Blocks /\ UNCHANGED held
    BY <1>1 DEF InitDone, Available, NothingListed
  <2>2. Pool!Owned = {}
    BY <1>1 DEF InitDone, NothingListed, Pool!Owned
  <2>3. Blocks # {} => Pool!Supply(Blocks)
    BY <2>1, <2>2 DEF Pool!Supply
  <2> QED BY <2>1, <2>3 DEF Pool!Next
<1>2. CASE InitNoHeap \/ InitNoMutex \/ InitNoBuffers
  BY <1>2 DEF InitNoHeap, InitNoMutex, InitNoBuffers, Available
<1>3. ASSUME NEW t \in Threads, AllocTake(t)
      PROVE  Pool!Next
  <2> DEFINE b == target[t]
  <2>1. /\ use_map' = use_map \cup {b} /\ held' = [held EXCEPT ![t] = held[t] \cup {b}]
        /\ state' = state /\ pc[t] = "alloc_take"
    BY <1>3 DEF AllocTake, Goto, MarkUsed
  <2>2. state = "ready"
    BY <2>1 DEF NothingListed
  <2>3. b \in Blocks /\ b \notin use_map
    <3>1. LET c == cat[t] IN
          /\ c \in Cats /\ free_num[c] \in Nat /\ free_num[c] > 0
          /\ b = Nth(c, Num[c] - free_num[c] + 1) /\ b # NoBlock
      BY <2>1, <2>2 DEF LocalInv, FreeListIsSuffix, TypeOK
    <3>2. LET c == cat[t] IN
          b = <<c, Num[c] - free_num[c] + 1>> /\ b \in Blocks /\ Num[c] \in Nat
      BY <3>1, NthIsBlock, NumIsNat
    <3> QED BY <2>2, <3>1, <3>2 DEF FreeListIsSuffix
  <2>4. Available' = Available \ {b} /\ b \in Available
    BY <2>1, <2>2, <2>3 DEF Available
  <2>5. Pool!Grant(t, b)
    BY <2>1, <2>4 DEF Pool!Grant
  <2> QED BY <2>3, <2>5 DEF Pool!Next
<1>4. ASSUME NEW t \in Threads, NEW b \in Blocks \cup {NoBlock}, FreeCall(t, b)
      PROVE  Pool!Next \/ UNCHANGED <<Available, held>>
  <2>1. /\ b \in held[t] \cup {NoBlock} /\ held' = [held EXCEPT ![t] = held[t] \ {b}]
        /\ UNCHANGED <<state, use_map>>
    BY <1>4 DEF FreeCall, pool
  <2>2. UNCHANGED Available
    BY <2>1 DEF Available
  <2>3. CASE b \in held[t]
    <3>1. b \in Blocks
      BY <2>3 DEF TypeOK
    <3>2. Pool!Release(t, b)
      BY <2>1, <2>2, <2>3 DEF Pool!Release
    <3> QED BY <3>1, <3>2 DEF Pool!Next
  <2>4. CASE b \notin held[t]
    BY <2>1, <2>2, <2>4 DEF TypeOK
  <2> QED BY <2>3, <2>4
<1>5. ASSUME NEW t \in Threads,
             \/ \E n \in Requests : AllocCall(t, n)
             \/ AllocLock(t) \/ AllocSearch(t) \/ AllocNone(t) \/ AllocRead(t)
             \/ AllocUnexpected(t) \/ FreeLock(t) \/ Unlock(t)
      PROVE  UNCHANGED <<Available, held>>
  BY <1>5 DEF AllocCall, AllocLock, AllocSearch, AllocNone, AllocRead, AllocUnexpected,
     FreeLock, Unlock, pool, Available
<1>6. ASSUME NEW t \in Threads, FreeCheck(t)
      PROVE  UNCHANGED <<Available, held>>
  BY <1>6, FreeCheckIInv DEF Available
<1>7. CASE UNCHANGED vars
  BY <1>7 DEF vars, pool, Available
<1> QED
  BY <1>1, <1>2, <1>3, <1>4, <1>5, <1>6, <1>7
     DEF Next, Startup, Call, Allocate, Free

(* platform_mem_init, platform_mem_allocate and platform_mem_free behave,  *)
(* towards their callers, like the pool of exclusive blocks of BlockPool.  *)
THEOREM PoolImplemented == Spec => ImplementsPool
<1>1. IInv /\ [Next]_vars => [Pool!Next]_(Pool!vars)
  BY StepPool
<1> QED BY InitPool, <1>1, Inductive, PTL DEF Spec, ImplementsPool, Pool!Spec

-----------------------------------------------------------------------------
(* The address arithmetic. *)

(* A function on numbers of which each value is the one before and w more  *)
(* exists.                                                                 *)
LEMMA SumsExist ==
  ASSUME NEW N \in Nat, NEW w \in [1..N -> Nat]
  PROVE  \E h \in [0..N -> Nat] : h = [d \in 0..N |-> IF d = 0 THEN 0 ELSE h[d - 1] + w[d]]
<1> DEFINE G(h, n) == h[0] = 0 /\ \A d \in 1..n : h[d] = h[d - 1] + w[d]
           S == {n \in 0..N : \E h \in [0..n -> Nat] : G(h, n)}
<1>1. 0 \in S
  <2> DEFINE e == [d \in 0..0 |-> 0]
  <2>1. e \in [0..0 -> Nat] /\ G(e, 0)
    OBVIOUS
  <2> HIDE DEF G, e
  <2> QED BY <2>1
<1>2. ASSUME NEW n \in 0..(N - 1), n \in S
      PROVE  n + 1 \in S
  <2> HIDE DEF G
  <2>1. PICK h \in [0..n -> Nat] : G(h, n)
    BY <1>2
  <2> DEFINE e == [d \in 0..(n + 1) |-> IF d = n + 1 THEN h[n] + w[n + 1] ELSE h[d]]
  <2>2. w[n + 1] \in Nat /\ h[n] \in Nat /\ n + 1 \in 0..N
    OBVIOUS
  <2>3. e \in [0..(n + 1) -> Nat]
    BY <2>2
  <2>4. ASSUME NEW d \in 1..(n + 1) PROVE e[d] = e[d - 1] + w[d]
    <3>1. CASE d = n + 1
      BY <3>1
    <3>2. CASE d # n + 1
      BY <3>2, <2>1 DEF G
    <3> QED BY <3>1, <3>2
  <2>5. e[0] = 0
    BY <2>1 DEF G
  <2>6. G(e, n + 1)
    BY <2>4, <2>5 DEF G
  <2> HIDE DEF e
  <2> QED BY <2>2, <2>3, <2>6
<1>3. N \in S
  <2> HIDE DEF S
  <2>1. \A n \in 0..N : n \in S
    BY <1>1, <1>2, UpTo
  <2> QED BY <2>1
<1>4. PICK h \in [0..N -> Nat] : G(h, N)
  <2> HIDE DEF G
  <2> QED BY <1>3
<1>5. h = [d \in 0..N |-> IF d = 0 THEN 0 ELSE h[d - 1] + w[d]]
  BY <1>4
<1> QED BY <1>5

(* And such a function has natural numbers as values, in increasing order. *)
LEMMA SumsGrow ==
  ASSUME NEW N \in Nat, NEW w \in [1..N -> Nat], NEW h,
         h = [d \in 0..N |-> IF d = 0 THEN 0 ELSE h[d - 1] + w[d]]
  PROVE  /\ h[0] = 0
         /\ \A d \in 0..N : h[d] \in Nat
         /\ \A d \in 1..N : h[d] = h[d - 1] + w[d]
         /\ \A d, e \in 0..N : d <= e => h[d] <= h[e]
<1>1. h[0] = 0 /\ \A d \in 1..N : h[d] = h[d - 1] + w[d]
  OBVIOUS
<1>2. \A d \in 0..N : h[d] \in Nat
  <2> DEFINE S == {d \in 0..N : h[d] \in Nat}
  <2>1. 0 \in S
    BY <1>1
  <2>2. ASSUME NEW d \in 0..(N - 1), d \in S PROVE d + 1 \in S
    <3>1. d + 1 \in 1..N /\ (d + 1) - 1 = d /\ h[d] \in Nat
      BY <2>2
    <3>2. h[d + 1] = h[d] + w[d + 1] /\ w[d + 1] \in Nat
      BY <1>1, <3>1
    <3> QED BY <3>1, <3>2
  <2> HIDE DEF S
  <2>3. \A d \in 0..N : d \in S
    BY <2>1, <2>2, UpTo
  <2> QED BY <2>3 DEF S
<1>3. ASSUME NEW d \in 0..N PROVE \A e \in 0..N : d <= e => h[d] <= h[e]
  <2> DEFINE S == {e \in 0..N : d <= e => h[d] <= h[e]}
  <2>1. 0 \in S
    BY <1>1
  <2>2. ASSUME NEW e \in 0..(N - 1), e \in S PROVE e + 1 \in S
    <3>1. e + 1 \in 1..N /\ (e + 1) - 1 = e /\ e \in 0..N
      OBVIOUS
    <3>2. h[e + 1] = h[e] + w[e + 1] /\ w[e + 1] \in Nat /\ h[e] \in Nat /\ h[d] \in Nat
      BY <1>1, <1>2, <3>1
    <3>3. CASE d <= e
      BY <2>2, <3>1, <3>2, <3>3
    <3>4. CASE d > e
      BY <3>1, <3>2, <3>4
    <3> QED BY <3>3, <3>4
  <2> HIDE DEF S
  <2>3. \A e \in 0..N : e \in S
    BY <2>1, <2>2, UpTo
  <2> QED BY <2>3 DEF S
<1> QED BY <1>1, <1>2, <1>3

(* Facts about products and remainders that the solvers do not find by     *)
(* themselves.                                                             *)
LEMMA BlockOfOffset ==
  ASSUME NEW s \in Nat \ {0}, NEW n \in Nat, NEW x \in Nat, x < n * s
  PROVE  /\ x \div s \in 0..(n - 1)
         /\ x = (x \div s) * s + (x % s)
         /\ x % s \in 0..(s - 1)
<1>1. x \div s \in Int /\ x % s \in 0..(s - 1) /\ x = (x \div s) * s + (x % s)
  OBVIOUS
<1> DEFINE q == x \div s
<1> HIDE DEF q
<1>2. q \in Int /\ q * s <= x /\ x < q * s + s
  BY <1>1 DEF q
<1>3. q >= 0
  BY <1>2
<1>4. q < n
  BY <1>2
<1> QED BY <1>1, <1>3, <1>4, <1>2 DEF q

LEMMA OffsetOfBlock ==
  ASSUME NEW s \in Nat \ {0}, NEW q \in Nat, NEW r \in 0..(s - 1)
  PROVE  /\ q * s + r \in Nat
         /\ (q * s + r) \div s = q
         /\ (q * s + r) % s = r
OBVIOUS

LEMMA BlocksInOrder ==
  ASSUME NEW s \in Nat, NEW q \in Nat, NEW n \in Nat, q < n
  PROVE  q * s \in Nat /\ q * s + s <= n * s
OBVIOUS

-----------------------------------------------------------------------------
(* What platform_mem_free knows at each point: base and shift belong to    *)
(* the category it looks at, and the pointer is in none of those before.   *)

LayoutInv ==
  /\ table \in Tables
  /\ p \in Int /\ i \in 1..(Len(table) + 1) /\ base = Bytes[i - 1]
  /\ walk \in {"idle", "locate", "split", "block", "none"}
  /\ walk = "idle" => i = 1 /\ shift = 0
  /\ walk \in {"locate", "split"} => shift = Buffers[i - 1]
  /\ walk = "locate" => p < 0 \/ p >= base
  /\ walk = "split" => i <= Len(table) /\ Inside
  /\ FreeFindsTheBit /\ FreeKnowsEveryBlock

LEMMA TableTyped ==
  ASSUME table \in Tables
  PROVE  /\ Len(table) \in Nat /\ DOMAIN table = 1..Len(table)
         /\ \A c \in 1..Len(table) :
              /\ table[c].size \in Nat \ {0} /\ table[c].num \in Nat \ {0}
              /\ Stride(c) \in Nat /\ Ctrl \in Nat /\ 0 < Ctrl /\ Ctrl < Stride(c)
              /\ table[c].num * Stride(c) \in Nat
<1>1. table \in Seq([size : Nat \ {0}, num : Nat \ {0}]) /\ Ctrl \in Nat \ {0}
  BY PoolLayoutAssumption DEF PoolLayoutAssumption
<1>2. ASSUME NEW c \in 1..Len(table)
      PROVE  /\ table[c].size \in Nat \ {0} /\ table[c].num \in Nat \ {0}
             /\ Stride(c) \in Nat /\ Ctrl < Stride(c)
  <2> DEFINE R == [size : Nat \ {0}, num : Nat \ {0}]
  <2>1. table \in Seq(R) /\ c \in 1..Len(table)
    BY <1>1
  <2>3. table[c] \in R
    <3> HIDE DEF R
    <3> QED BY <2>1
  <2>2. table[c].size \in Nat \ {0} /\ table[c].num \in Nat \ {0}
    BY <2>3
  <2> QED BY <1>1, <2>2 DEF Stride
<1>3. ASSUME NEW c \in 1..Len(table)
      PROVE  table[c].num * Stride(c) \in Nat
  BY <1>2
<1> QED BY <1>1, <1>2, <1>3

LEMMA BytesGrow ==
  ASSUME table \in Tables
  PROVE  /\ Bytes[0] = 0
         /\ \A d \in 0..Len(table) : Bytes[d] \in Nat
         /\ \A d \in 1..Len(table) : Bytes[d] = Bytes[d - 1] + table[d].num * Stride(d)
         /\ \A d, e \in 0..Len(table) : d <= e => Bytes[d] <= Bytes[e]
<1> DEFINE N == Len(table)
           w == [d \in 1..N |-> table[d].num * Stride(d)]
           W(h) == h = [d \in 0..N |-> IF d = 0 THEN 0 ELSE h[d - 1] + w[d]]
<1>1. N \in Nat /\ w \in [1..N -> Nat]
  BY TableTyped
<1>2. \E h : W(h)
  <2> HIDE DEF w, N
  <2> QED BY <1>1, SumsExist
<1>3. \A h : W(h) <=> h = [d \in 0..N |-> IF d = 0 THEN 0
                                       ELSE h[d - 1] + table[d].num * Stride(d)]
  <2> SUFFICES ASSUME NEW h
               PROVE  [d \in 0..N |-> IF d = 0 THEN 0 ELSE h[d - 1] + w[d]]
                        = [d \in 0..N |-> IF d = 0 THEN 0
                                        ELSE h[d - 1] + table[d].num * Stride(d)]
    OBVIOUS
  <2>1. \A d \in 0..N : d # 0 => w[d] = table[d].num * Stride(d)
    BY <1>1
  <2> HIDE DEF w
  <2> QED BY <2>1
<1>4. W(Bytes)
  <2> HIDE DEF W
  <2> QED BY <1>2, <1>3 DEF Bytes
<1>5. \A d \in 1..N : w[d] = table[d].num * Stride(d)
  OBVIOUS
<1> HIDE DEF w, N
<1>6. /\ Bytes[0] = 0
      /\ \A d \in 0..N : Bytes[d] \in Nat
      /\ \A d \in 1..N : Bytes[d] = Bytes[d - 1] + w[d]
      /\ \A d, e \in 0..N : d <= e => Bytes[d] <= Bytes[e]
  BY <1>1, <1>4, SumsGrow
<1> QED BY <1>5, <1>6 DEF N

LEMMA BuffersGrow ==
  ASSUME table \in Tables
  PROVE  /\ Buffers[0] = 0
         /\ \A d \in 0..Len(table) : Buffers[d] \in Nat
         /\ \A d \in 1..Len(table) : Buffers[d] = Buffers[d - 1] + table[d].num
         /\ \A d, e \in 0..Len(table) : d <= e => Buffers[d] <= Buffers[e]
<1> DEFINE N == Len(table)
           w == [d \in 1..N |-> table[d].num]
           W(h) == h = [d \in 0..N |-> IF d = 0 THEN 0 ELSE h[d - 1] + w[d]]
<1>1. N \in Nat /\ w \in [1..N -> Nat]
  BY TableTyped
<1>2. \E h : W(h)
  <2> HIDE DEF w, N
  <2> QED BY <1>1, SumsExist
<1>3. \A h : W(h) <=> h = [d \in 0..N |-> IF d = 0 THEN 0 ELSE h[d - 1] + table[d].num]
  <2> SUFFICES ASSUME NEW h
               PROVE  [d \in 0..N |-> IF d = 0 THEN 0 ELSE h[d - 1] + w[d]]
                        = [d \in 0..N |-> IF d = 0 THEN 0 ELSE h[d - 1] + table[d].num]
    OBVIOUS
  <2>1. \A d \in 0..N : d # 0 => w[d] = table[d].num
    BY <1>1
  <2> HIDE DEF w
  <2> QED BY <2>1
<1>4. W(Buffers)
  <2> HIDE DEF W
  <2> QED BY <1>2, <1>3 DEF Buffers
<1>5. \A d \in 1..N : w[d] = table[d].num
  OBVIOUS
<1> HIDE DEF w, N
<1>6. /\ Buffers[0] = 0
      /\ \A d \in 0..N : Buffers[d] \in Nat
      /\ \A d \in 1..N : Buffers[d] = Buffers[d - 1] + w[d]
      /\ \A d, e \in 0..N : d <= e => Buffers[d] <= Buffers[e]
  BY <1>1, <1>4, SumsGrow
<1> QED BY <1>5, <1>6 DEF N

(* A block lies within its category, at a whole number of strides.         *)
LEMMA CarvedShape ==
  ASSUME table \in Tables, NEW b \in Carved
  PROVE  /\ b[1] \in 1..Len(table) /\ b[2] \in 1..table[b[1]].num /\ b = <<b[1], b[2]>>
         /\ (b[2] - 1) * Stride(b[1]) \in Nat
         /\ (b[2] - 1) * Stride(b[1]) + Stride(b[1]) <= table[b[1]].num * Stride(b[1])
         /\ Address(b) = Bytes[b[1] - 1] + (b[2] - 1) * Stride(b[1])
         /\ Address(b) + Stride(b[1]) <= Bytes[b[1]]
         /\ AllocBit(b) = Buffers[b[1] - 1] + (b[2] - 1)
<1>1. PICK c \in DOMAIN table : b \in {<<c, j>> : j \in 1..table[c].num}
  BY DEF Carved
<1>2. PICK j \in 1..table[c].num : b = <<c, j>>
  BY <1>1
<1>3. /\ c \in 1..Len(table) /\ table[c].num \in Nat /\ Stride(c) \in Nat \ {0}
      /\ j - 1 \in Nat /\ j - 1 < table[c].num /\ b[1] = c /\ b[2] = j
  BY <1>1, <1>2, TableTyped
<1> DEFINE s == Stride(c)
           n == table[c].num
           q == j - 1
<1>4. q * s \in Nat /\ q * s + s <= n * s
  <2> HIDE DEF s, n, q
  <2> QED BY <1>3, BlocksInOrder DEF s, n, q
<1>5. (q * s) \div s = q
  <2>1. 0 \in 0..(s - 1)
    BY <1>3
  <2>2. (q * s + 0) \div s = q
    <3> HIDE DEF s, q
    <3> QED BY <1>3, <2>1, OffsetOfBlock DEF s, q
  <2> HIDE DEF s, q
  <2> QED BY <1>4, <2>2
<1>6. /\ Bytes[c - 1] \in Nat /\ Bytes[c] = Bytes[c - 1] + n * s /\ n * s \in Nat
      /\ Buffers[c - 1] \in Nat
  BY <1>3, BytesGrow, BuffersGrow, TableTyped
<1>7. Address(b) = Bytes[c - 1] + q * s
  BY <1>3 DEF Address, CatBase
<1>8. AllocBit(b) = Buffers[c - 1] + q
  <2>1. Address(b) - CatBase(c) = q * s
    <3> HIDE DEF s, q
    <3> QED BY <1>4, <1>6, <1>7 DEF CatBase
  <2> QED BY <1>3, <1>5, <2>1 DEF AllocBit
<1>9. Address(b) + s <= Bytes[c]
  <2> HIDE DEF s, n, q
  <2> QED BY <1>3, <1>4, <1>6, <1>7 DEF s
<1> QED BY <1>2, <1>3, <1>4, <1>7, <1>8, <1>9

(* The pointer to a block is behind its control field, in its category.    *)
LEMMA PayloadBetween ==
  ASSUME table \in Tables, NEW b \in Carved
  PROVE  /\ Payload(b) = Bytes[b[1] - 1] + ((b[2] - 1) * Stride(b[1]) + Ctrl)
         /\ Bytes[b[1] - 1] <= Payload(b) /\ Payload(b) < Bytes[b[1]]
         /\ Payload(b) \in Nat /\ Address(b) \in Nat
<1>1. /\ b[1] \in 1..Len(table) /\ Ctrl \in Nat /\ Stride(b[1]) \in Nat /\ Ctrl < Stride(b[1])
      /\ Bytes[b[1] - 1] \in Nat /\ Bytes[b[1]] \in Nat
  <2>1. b[1] \in 1..Len(table) /\ Len(table) \in Nat
    BY CarvedShape, TableTyped
  <2>2. Ctrl \in Nat /\ Stride(b[1]) \in Nat /\ Ctrl < Stride(b[1])
    BY <2>1, TableTyped
  <2>3. b[1] - 1 \in 0..Len(table) /\ b[1] \in 0..Len(table)
    BY <2>1
  <2>4. \A c \in 0..Len(table) : Bytes[c] \in Nat
    BY BytesGrow
  <2> QED BY <2>1, <2>2, <2>3, <2>4
<1> DEFINE x == (b[2] - 1) * Stride(b[1])
<1>2. /\ x \in Nat /\ Address(b) = Bytes[b[1] - 1] + x
      /\ Address(b) + Stride(b[1]) <= Bytes[b[1]]
  BY CarvedShape
<1> HIDE DEF x
<1>3. Payload(b) = Address(b) + Ctrl
  BY DEF Payload
<1> QED BY <1>1, <1>2, <1>3 DEF x

LEMMA InitLayout == LayoutInit => LayoutInv
<1> SUFFICES ASSUME LayoutInit PROVE LayoutInv
  OBVIOUS
<1>1. Len(table) \in Nat /\ Bytes[0] = 0
  BY TableTyped, BytesGrow DEF LayoutInit
<1> QED BY <1>1 DEF LayoutInit, LayoutInv, FreeFindsTheBit, FreeKnowsEveryBlock

(* The pointer is in the category that is looked at, or it is not. *)
LEMMA LocateKeeps ==
  ASSUME LayoutInv, LocateHere \/ LocateNext \/ LocateNone
  PROVE  LayoutInv'
<1>1. /\ walk = "locate" /\ UNCHANGED <<table, p>> /\ table \in Tables /\ p \in Int
      /\ i \in 1..(Len(table) + 1) /\ base = Bytes[i - 1] /\ shift = Buffers[i - 1]
      /\ p < 0 \/ p >= base
  BY DEF LocateHere, LocateNext, LocateNone, LayoutInv
<1>2. /\ Len(table) \in Nat
      /\ \A c \in 1..Len(table) : Bytes[c] = Bytes[c - 1] + table[c].num * Stride(c)
      /\ \A c \in 1..Len(table) : Buffers[c] = Buffers[c - 1] + table[c].num
      /\ \A c \in 0..Len(table) : Bytes[c] \in Nat
      /\ \A c, d \in 0..Len(table) : c <= d => Bytes[c] <= Bytes[d]
  BY <1>1, TableTyped, BytesGrow, BuffersGrow
<1>3. Bytes' = Bytes /\ Buffers' = Buffers /\ Carved' = Carved
  BY <1>1 DEF Bytes, Buffers, Carved, Stride
<1>4. CASE LocateHere
  BY <1>1, <1>3, <1>4 DEF LocateHere, LayoutInv, Inside, CatMax, Stride, FreeFindsTheBit,
     FreeKnowsEveryBlock
<1>5. CASE LocateNext
  <2>1. /\ i <= Len(table) /\ ~Inside /\ i' = i + 1 /\ base' = CatMax
        /\ shift' = shift + table[i].num /\ walk' = "locate"
    BY <1>1, <1>5 DEF LocateNext
  <2>2. CatMax = Bytes[i] /\ Bytes[i] \in Nat /\ Bytes[i - 1] \in Nat
    BY <1>1, <1>2, <2>1 DEF CatMax
  <2>3. i' \in 1..(Len(table) + 1) /\ i' - 1 = i /\ base' = Bytes[i] /\ shift' = Buffers[i]
    BY <1>1, <1>2, <2>1, <2>2
  <2>4. p < 0 \/ p >= base'
    BY <1>1, <2>1, <2>2, <2>3 DEF Inside
  <2> QED BY <1>1, <1>3, <2>1, <2>3, <2>4 DEF LayoutInv, FreeFindsTheBit, FreeKnowsEveryBlock
<1>6. CASE LocateNone
  <2>1. i - 1 = Len(table) /\ UNCHANGED <<i, base, shift>> /\ walk' = "none"
    BY <1>1, <1>2, <1>6 DEF LocateNone
  <2>2. ASSUME NEW b \in Carved PROVE Payload(b) # p
    <3>1. /\ b[1] \in 1..Len(table) /\ Payload(b) \in Nat /\ Payload(b) < Bytes[b[1]]
      BY <1>1, CarvedShape, PayloadBetween
    <3>2. Bytes[b[1]] <= base /\ Bytes[b[1]] \in Nat /\ base \in Nat
      BY <1>1, <1>2, <2>1, <3>1
    <3> QED BY <1>1, <3>1, <3>2
  <2>3. FreeKnowsEveryBlock'
    BY <1>1, <1>3, <2>2 DEF FreeKnowsEveryBlock, Payload, Address, CatBase, Stride
  <2> QED BY <1>1, <1>3, <2>1, <2>3 DEF LayoutInv, FreeFindsTheBit
<1> QED BY <1>4, <1>5, <1>6

(* The remainder tells whether the pointer is one to a block, the quotient *)
(* which block that is.                                                    *)
LEMMA SplitKeeps ==
  ASSUME LayoutInv, SplitBlock \/ SplitNone
  PROVE  LayoutInv'
<1> DEFINE s == Stride(i)
           n == table[i].num
           x == p - base
<1>1. /\ walk = "split" /\ UNCHANGED <<table, p, i, base>> /\ table \in Tables /\ p \in Int
      /\ i \in 1..Len(table) /\ base = Bytes[i - 1] /\ shift = Buffers[i - 1]
      /\ p >= base /\ p < base + n * s
  <2>1. walk = "split" /\ UNCHANGED <<table, p, i, base>>
    BY DEF SplitBlock, SplitNone
  <2> QED BY <2>1, TableTyped DEF LayoutInv, Inside, CatMax
<1>2. /\ Len(table) \in Nat /\ s \in Nat \ {0} /\ n \in Nat \ {0} /\ Ctrl \in 1..(s - 1)
      /\ n * s \in Nat /\ Bytes[i] = Bytes[i - 1] + n * s
      /\ \A c \in 0..Len(table) : Bytes[c] \in Nat
      /\ \A c, d \in 0..Len(table) : c <= d => Bytes[c] <= Bytes[d]
  BY <1>1, TableTyped, BytesGrow
<1>3. base \in Nat /\ x \in Nat /\ x < n * s
  <2> HIDE DEF s, n
  <2> QED BY <1>1, <1>2
<1>4. Bytes' = Bytes /\ Buffers' = Buffers /\ Carved' = Carved
  BY <1>1 DEF Bytes, Buffers, Carved, Stride
<1>5. CASE SplitBlock
  <2> DEFINE q == x \div s
             b == <<i, q + 1>>
  <2>1. x % s = Ctrl /\ shift' = Buffers[i - 1] + q /\ walk' = "block"
    BY <1>1, <1>5 DEF SplitBlock, AtPayload
  <2>2. q \in 0..(n - 1) /\ x = q * s + Ctrl
    <3> HIDE DEF s, n, x
    <3> QED BY <1>2, <1>3, <2>1, BlockOfOffset
  <2>3. b \in Carved
    <3>1. q + 1 \in 1..n
      <4> HIDE DEF q
      <4> QED BY <1>2, <2>2
    <3>2. b \in {<<i, j>> : j \in 1..n}
      <4> HIDE DEF q, n
      <4> QED BY <3>1
    <3>3. i \in DOMAIN table
      BY <1>1, TableTyped
    <3> HIDE DEF b
    <3> QED BY <3>2, <3>3 DEF Carved
  <2>4. Payload(b) = base + (q * s + Ctrl) /\ AllocBit(b) = Buffers[i - 1] + q
    <3>1. b[1] = i /\ b[2] - 1 = q
      <4> HIDE DEF q
      <4> QED BY <1>2, <2>2
    <3> HIDE DEF b, q
    <3> QED BY <1>1, <2>3, <3>1, PayloadBetween, CarvedShape
  <2>5. Payload(b) = p
    <3>1. p = base + x
      BY <1>1, <1>3
    <3> HIDE DEF x, b, q, s
    <3> QED BY <2>2, <2>4, <3>1
  <2>6. \E d \in Carved : Payload(d) = p /\ AllocBit(d) = Buffers[i - 1] + q
    <3> HIDE DEF b, q
    <3> QED BY <2>3, <2>4, <2>5
  <2>7. FreeFindsTheBit'
    <3> HIDE DEF q
    <3> QED BY <1>1, <1>4, <2>1, <2>6 DEF FreeFindsTheBit, Payload, Address, AllocBit, CatBase, Stride
  <2> QED BY <1>1, <1>2, <1>4, <2>1, <2>7 DEF LayoutInv, FreeKnowsEveryBlock
<1>6. CASE SplitNone
  <2>1. x % s # Ctrl /\ UNCHANGED shift /\ walk' = "none"
    BY <1>1, <1>6 DEF SplitNone, AtPayload
  <2>2. ASSUME NEW b \in Carved PROVE Payload(b) # p
    <3>1. /\ b[1] \in 1..Len(table) /\ Payload(b) \in Nat
          /\ Bytes[b[1] - 1] <= Payload(b) /\ Payload(b) < Bytes[b[1]]
      BY <1>1, CarvedShape, PayloadBetween
    <3>2. CASE b[1] < i
      <4>1. b[1] \in 0..Len(table) /\ i - 1 \in 0..Len(table) /\ b[1] <= i - 1
        BY <1>1, <1>2, <3>1, <3>2
      <4>2. Bytes[b[1]] <= base /\ Bytes[b[1]] \in Nat
        <5> HIDE DEF s, n
        <5> QED BY <1>1, <1>2, <4>1
      <4> QED BY <1>1, <1>3, <3>1, <4>2
    <3>3. CASE b[1] > i
      <4>3. b[1] - 1 \in 0..Len(table) /\ i \in 0..Len(table) /\ i <= b[1] - 1
        <5> HIDE DEF s, n
        <5> QED BY <1>1, <1>2, <3>1, <3>3
      <4>1. Bytes[i] <= Bytes[b[1] - 1] /\ Bytes[b[1] - 1] \in Nat /\ Bytes[i] \in Nat
        <5> HIDE DEF s, n
        <5> QED BY <1>2, <4>3
      <4>2. p < Bytes[i]
        <5> HIDE DEF s, n
        <5> QED BY <1>1, <1>2
      <4> QED BY <1>1, <3>1, <4>1, <4>2
    <3>4. CASE b[1] = i
      <4> DEFINE j == b[2] - 1
      <4>1. j \in Nat
        BY <1>1, <1>2, <3>4, CarvedShape
      <4>2. Payload(b) = base + (j * s + Ctrl)
        BY <1>1, <3>4, PayloadBetween
      <4>3. j * s + Ctrl \in Nat /\ (j * s + Ctrl) % s = Ctrl
        <5>1. Ctrl \in 0..(s - 1)
          BY <1>2
        <5> HIDE DEF s, j
        <5> QED BY <1>2, <4>1, <5>1, OffsetOfBlock
      <4>4. ASSUME Payload(b) = p PROVE FALSE
        <5> DEFINE y == j * s + Ctrl
        <5>1. y \in Nat /\ p = base + y
          BY <4>2, <4>3, <4>4
        <5> HIDE DEF y
        <5>2. y = x
          BY <1>3, <5>1
        <5> QED BY <2>1, <4>3, <5>2 DEF y
      <4> QED BY <4>4
    <3> QED BY <1>1, <3>1, <3>2, <3>3, <3>4
  <2>3. FreeKnowsEveryBlock'
    BY <1>1, <1>4, <2>2, <2>1 DEF FreeKnowsEveryBlock, Payload, Address, CatBase, Stride
  <2> QED BY <1>1, <1>2, <1>4, <2>1, <2>3 DEF LayoutInv, FreeFindsTheBit
<1> QED BY <1>5, <1>6

LEMMA LayoutKeeps == LayoutInv /\ [LayoutNext]_layoutVars => LayoutInv'
<1> SUFFICES ASSUME LayoutInv, [LayoutNext]_layoutVars PROVE LayoutInv'
  OBVIOUS
<1>1. table \in Tables /\ Len(table) \in Nat /\ Bytes[0] = 0 /\ Buffers[0] = 0
      /\ Total \in Nat /\ Beyond \in Nat
  BY TableTyped, BytesGrow, BuffersGrow, PoolLayoutAssumption
     DEF LayoutInv, Total, PoolLayoutAssumption
<1>2. ASSUME UNCHANGED table
      PROVE  Bytes' = Bytes /\ Buffers' = Buffers /\ Carved' = Carved
  BY <1>2 DEF Bytes, Buffers, Carved, Stride
<1>3. ASSUME NEW t \in (-Beyond)..(Total + Beyond), FreeThis(t) PROVE LayoutInv'
  <2>1. /\ walk = "idle" /\ walk' = "locate" /\ p' = t /\ t \in Int
        /\ UNCHANGED <<table, i, base, shift>> /\ i = 1 /\ base = 0 /\ shift = 0
    BY <1>1, <1>3 DEF FreeThis, LayoutInv
  <2> QED BY <1>1, <1>2, <2>1 DEF LayoutInv, FreeFindsTheBit, FreeKnowsEveryBlock
<1>4. CASE Leave
  BY <1>1, <1>2, <1>4 DEF Leave, LayoutInv, FreeFindsTheBit, FreeKnowsEveryBlock
<1>5. CASE UNCHANGED layoutVars
  BY <1>2, <1>5 DEF layoutVars, LayoutInv, FreeFindsTheBit, FreeKnowsEveryBlock, Inside, CatMax,
     Stride, Payload, Address, AllocBit, CatBase
<1> QED BY <1>3, <1>4, <1>5, LocateKeeps, SplitKeeps DEF LayoutNext

LEMMA LayoutHolds == LayoutSpec => []LayoutInv
BY InitLayout, LayoutKeeps, PTL DEF LayoutSpec

(* The block that platform_mem_free finds for a pointer is the one that    *)
(* platform_mem_allocate returns the pointer for, and so is its bit.       *)
THEOREM FreeFinds == LayoutSpec => []FreeFindsTheBit
<1>1. LayoutInv => FreeFindsTheBit
  BY DEF LayoutInv
<1> QED BY <1>1, LayoutHolds, PTL

(* platform_mem_free turns no pointer to a block away. *)
THEOREM FreeKnows == LayoutSpec => []FreeKnowsEveryBlock
<1>1. LayoutInv => FreeKnowsEveryBlock
  BY DEF LayoutInv
<1> QED BY <1>1, LayoutHolds, PTL

(* A block that comes before another ends before it, and so does its bit.  *)
LEMMA BlocksApart ==
  ASSUME table \in Tables, NEW b \in Carved, NEW d \in Carved,
         b[1] < d[1] \/ (b[1] = d[1] /\ b[2] < d[2])
  PROVE  Address(b) + Stride(b[1]) <= Address(d) /\ AllocBit(b) < AllocBit(d)
<1> DEFINE s == Stride(b[1])
           x == (b[2] - 1) * s
           y == (d[2] - 1) * Stride(d[1])
<1>1. /\ b[1] \in 1..Len(table) /\ d[1] \in 1..Len(table) /\ Len(table) \in Nat
      /\ b[2] \in 1..table[b[1]].num /\ d[2] \in 1..table[d[1]].num
      /\ table[b[1]].num \in Nat /\ table[d[1]].num \in Nat
      /\ s \in Nat /\ x \in Nat /\ y \in Nat
  BY CarvedShape, TableTyped
<1>2. /\ Address(b) = Bytes[b[1] - 1] + x /\ Address(b) + s <= Bytes[b[1]]
      /\ Address(d) = Bytes[d[1] - 1] + y
      /\ AllocBit(b) = Buffers[b[1] - 1] + (b[2] - 1)
      /\ AllocBit(d) = Buffers[d[1] - 1] + (d[2] - 1)
  BY CarvedShape
<1>3. /\ \A c \in 0..Len(table) : Bytes[c] \in Nat /\ Buffers[c] \in Nat
      /\ \A c \in 1..Len(table) : Buffers[c] = Buffers[c - 1] + table[c].num
      /\ \A c, e \in 0..Len(table) : c <= e => Bytes[c] <= Bytes[e] /\ Buffers[c] <= Buffers[e]
  BY BytesGrow, BuffersGrow
<1>4. CASE b[1] < d[1]
  <2> HIDE DEF s, x, y
  <2>1. b[1] \in 0..Len(table) /\ b[1] - 1 \in 0..Len(table) /\ d[1] - 1 \in 0..Len(table) /\ b[1] <= d[1] - 1
    BY <1>1, <1>4
  <2>2. /\ Bytes[b[1]] <= Bytes[d[1] - 1] /\ Bytes[b[1]] \in Nat /\ Bytes[d[1] - 1] \in Nat
        /\ Buffers[b[1]] <= Buffers[d[1] - 1] /\ Buffers[d[1] - 1] \in Nat
        /\ Buffers[b[1]] = Buffers[b[1] - 1] + table[b[1]].num
        /\ Buffers[b[1] - 1] \in Nat /\ Bytes[b[1] - 1] \in Nat
    BY <1>1, <1>3, <2>1
  <2> DEFINE mem0 == Bytes[b[1] - 1]   mem1 == Bytes[b[1]]   mem2 == Bytes[d[1] - 1]
             bit0 == Buffers[b[1] - 1]   bit1 == Buffers[b[1]]   bit2 == Buffers[d[1] - 1]
             n == table[b[1]].num   j == b[2] - 1   k == d[2] - 1
  <2>3. /\ j \in Nat /\ j < n /\ n \in Nat /\ k \in Nat
        /\ mem0 \in Nat /\ mem1 \in Nat /\ mem2 \in Nat /\ mem1 <= mem2
        /\ bit0 \in Nat /\ bit2 \in Nat /\ bit1 = bit0 + n /\ bit1 <= bit2
    <3>1. j \in Nat /\ j < n /\ n \in Nat /\ k \in Nat
      BY <1>1
    <3>2. mem0 \in Nat /\ mem1 \in Nat /\ mem2 \in Nat /\ mem1 <= mem2
      BY <2>2
    <3>3. bit0 \in Nat /\ bit2 \in Nat /\ bit1 = bit0 + n /\ bit1 <= bit2
      BY <2>2
    <3> QED BY <3>1, <3>2, <3>3
  <2>4. /\ Address(b) = mem0 + x /\ Address(b) + s <= mem1 /\ Address(d) = mem2 + y
        /\ AllocBit(b) = bit0 + j /\ AllocBit(d) = bit2 + k
    BY <1>2
  <2> HIDE DEF mem0, mem1, mem2, bit0, bit1, bit2, n, j, k
  <2>5. Address(b) + s <= Address(d)
    BY <1>1, <2>3, <2>4
  <2>6. AllocBit(b) < AllocBit(d)
    BY <2>3, <2>4
  <2> QED BY <2>5, <2>6 DEF s
<1>5. CASE b[1] = d[1] /\ b[2] < d[2]
  <2>1. /\ b[1] - 1 \in 0..Len(table) /\ Bytes[b[1] - 1] \in Nat /\ Buffers[b[1] - 1] \in Nat
        /\ b[2] - 1 \in Nat /\ d[2] - 1 \in Nat /\ b[2] - 1 < d[2] - 1
    <3> HIDE DEF s, x, y
    <3>1. b[1] - 1 \in 0..Len(table)
      BY <1>1
    <3>2. b[2] - 1 \in Nat /\ d[2] - 1 \in Nat /\ b[2] - 1 < d[2] - 1
      BY <1>1, <1>5
    <3> QED BY <1>3, <3>1, <3>2
  <2>2. y = (d[2] - 1) * s
    BY <1>5
  <2>3. x + s <= y
    <3>1. \A q, n \in Nat : q < n => q * s + s <= n * s
      <4> HIDE DEF s
      <4> QED BY <1>1, BlocksInOrder
    <3> HIDE DEF s, y
    <3> QED BY <2>1, <2>2, <3>1
  <2> HIDE DEF s, x, y
  <2> DEFINE mem == Bytes[b[1] - 1]   bit == Buffers[b[1] - 1]
             i1 == b[2] - 1   i2 == d[2] - 1
  <2>4. /\ Address(b) = mem + x /\ Address(d) = mem + y
        /\ AllocBit(b) = bit + i1 /\ AllocBit(d) = bit + i2
    BY <1>2, <1>5
  <2>5. mem \in Nat /\ bit \in Nat /\ i1 \in Nat /\ i2 \in Nat /\ i1 < i2
    BY <2>1
  <2> HIDE DEF mem, bit, i1, i2
  <2>6. Address(b) + s <= Address(d)
    BY <1>1, <2>3, <2>4, <2>5
  <2>7. AllocBit(b) < AllocBit(d)
    BY <2>4, <2>5
  <2> QED BY <2>6, <2>7 DEF s
<1> QED BY <1>4, <1>5

(* For every table: blocks and bits of platform_mem_init's layout are      *)
(* within buffer and map, and no two overlap.  That map and buffer are     *)
(* within the heap is a matter of the numbers in the table.                *)
THEOREM LayoutFits == LayoutSpec => [](MapBytes + Total <= HeapSize => LayoutSound)
<1>1. ASSUME LayoutInv, MapBytes + Total <= HeapSize
      PROVE  LayoutSound
  <2>1. /\ table \in Tables /\ Len(table) \in Nat /\ Len(table) \in 0..Len(table)
        /\ \A c \in 0..Len(table) : Bytes[c] \in Nat /\ Buffers[c] \in Nat
        /\ \A c \in 1..Len(table) : Buffers[c] = Buffers[c - 1] + table[c].num
        /\ \A c, e \in 0..Len(table) : c <= e => Bytes[c] <= Bytes[e] /\ Buffers[c] <= Buffers[e]
    BY <1>1, TableTyped, BytesGrow, BuffersGrow DEF LayoutInv
  <2>2. ASSUME NEW b \in Carved
        PROVE  /\ Address(b) \in Nat /\ AllocBit(b) \in Nat /\ Stride(b[1]) \in Nat
               /\ Payload(b) + table[b[1]].size = Address(b) + Stride(b[1])
               /\ Address(b) + Stride(b[1]) <= Total
               /\ AllocBit(b) < 8 * MapBytes
    <3>1. /\ b[1] \in 1..Len(table) /\ b[1] \in 0..Len(table) /\ b[1] - 1 \in 0..Len(table)
          /\ b[2] \in 1..table[b[1]].num /\ table[b[1]].num \in Nat
          /\ table[b[1]].size \in Nat /\ Stride(b[1]) \in Nat /\ Ctrl \in Nat
      BY <2>1, CarvedShape, TableTyped
    <3>2. /\ Address(b) \in Nat /\ Address(b) + Stride(b[1]) <= Bytes[b[1]]
          /\ AllocBit(b) = Buffers[b[1] - 1] + (b[2] - 1)
      BY <2>1, CarvedShape, PayloadBetween
    <3>3. /\ Bytes[b[1]] <= Total /\ Bytes[b[1]] \in Nat /\ Total \in Nat
          /\ Buffers[b[1]] <= Buffers[Len(table)] /\ Buffers[b[1]] = Buffers[b[1] - 1] + table[b[1]].num
          /\ Buffers[b[1] - 1] \in Nat /\ Buffers[Len(table)] \in Nat
      <4> DEFINE c == b[1]   last == Len(table)
      <4>1. c \in 1..last /\ c \in 0..last /\ c - 1 \in 0..last /\ c <= last /\ last \in 0..last
        BY <2>1, <3>1
      <4>2. Total = Bytes[last]
        BY DEF Total
      <4>3. /\ \A e \in 0..last : Bytes[e] \in Nat /\ Buffers[e] \in Nat
            /\ \A e \in 1..last : Buffers[e] = Buffers[e - 1] + table[e].num
            /\ \A d, e \in 0..last : d <= e => Bytes[d] <= Bytes[e] /\ Buffers[d] <= Buffers[e]
        BY <2>1
      <4> HIDE DEF c, last
      <4>4. Bytes[c] <= Total /\ Bytes[c] \in Nat /\ Total \in Nat
        BY <4>1, <4>2, <4>3
      <4>5. Buffers[c] <= Buffers[last] /\ Buffers[c] = Buffers[c - 1] + table[c].num
        BY <4>1, <4>3
      <4>6. Buffers[c - 1] \in Nat /\ Buffers[last] \in Nat
        BY <4>1, <4>3
      <4> QED BY <4>4, <4>5, <4>6 DEF c, last
    <3>4. Payload(b) + table[b[1]].size = Address(b) + Stride(b[1])
      BY <3>1, <3>2 DEF Payload, Stride
    <3>5. Buffers[Len(table)] <= 8 * MapBytes /\ MapBytes \in Nat
      BY <3>3 DEF MapBytes
    <3>6. Address(b) + Stride(b[1]) <= Total
      BY <3>1, <3>2, <3>3
    <3> DEFINE bit0 == Buffers[b[1] - 1]   bit1 == Buffers[b[1]]   all == Buffers[Len(table)]
               n == table[b[1]].num   j == b[2] - 1
    <3>7. j \in Nat /\ j < n /\ n \in Nat
      BY <3>1
    <3>8. /\ AllocBit(b) = bit0 + j /\ bit1 = bit0 + n /\ bit0 \in Nat
          /\ bit1 <= all /\ all \in Nat /\ all <= 8 * MapBytes
      BY <3>2, <3>3, <3>5
    <3> HIDE DEF bit0, bit1, all, n, j
    <3>9. AllocBit(b) \in Nat /\ AllocBit(b) < 8 * MapBytes
      BY <3>5, <3>7, <3>8
    <3> QED BY <3>1, <3>2, <3>4, <3>6, <3>9
  <2>3. ASSUME NEW b \in Carved, NEW d \in Carved, b # d
        PROVE  /\ AllocBit(b) # AllocBit(d)
               /\ \/ Payload(b) + table[b[1]].size <= Address(d)
                  \/ Payload(d) + table[d[1]].size <= Address(b)
    <3>1. \/ b[1] < d[1] \/ (b[1] = d[1] /\ b[2] < d[2])
          \/ d[1] < b[1] \/ (d[1] = b[1] /\ d[2] < b[2])
      <4>1. /\ b = <<b[1], b[2]>> /\ d = <<d[1], d[2]>>
            /\ b[1] \in Int /\ b[2] \in Int /\ d[1] \in Int /\ d[2] \in Int
        BY <2>1, CarvedShape, TableTyped
      <4>2. ~(b[1] = d[1] /\ b[2] = d[2])
        BY <2>3, <4>1
      <4> QED BY <4>1, <4>2
    <3>2. \/ Address(b) + Stride(b[1]) <= Address(d) /\ AllocBit(b) < AllocBit(d)
          \/ Address(d) + Stride(d[1]) <= Address(b) /\ AllocBit(d) < AllocBit(b)
      BY <2>1, <3>1, BlocksApart
    <3>3. Payload(b) + table[b[1]].size = Address(b) + Stride(b[1]) /\ AllocBit(b) \in Nat
      BY <2>2
    <3>4. Payload(d) + table[d[1]].size = Address(d) + Stride(d[1]) /\ AllocBit(d) \in Nat
      BY <2>2
    <3> QED BY <3>2, <3>3, <3>4
  <2>4. \A b \in Carved : /\ 0 <= Address(b) /\ Payload(b) + table[b[1]].size <= Total
                          /\ AllocBit(b) < 8 * MapBytes
    <3> SUFFICES ASSUME NEW b \in Carved
                 PROVE  /\ 0 <= Address(b) /\ Payload(b) + table[b[1]].size <= Total
                        /\ AllocBit(b) < 8 * MapBytes
      OBVIOUS
    <3> QED BY <2>2
  <2> QED BY <1>1, <2>3, <2>4 DEF LayoutSound
<1> QED BY <1>1, LayoutHolds, PTL

==============================================================================
