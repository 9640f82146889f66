--------------------------- MODULE HostSyncProofs ----------------------------
(***************************************************************************)
(* Proofs about HostSync, for any sections, byte strings, pool and any     *)
(* number of calls and restarts, with queues of any length.                *)
(*                                                                         *)
(* The argument: a section whose last event was accepted is in one of two  *)
(* states.  Either the last thing on its way to the host, or what the host *)
(* has if nothing is on its way, is what the device holds.  Or the device  *)
(* has nothing and has said nothing since it started; then the host's      *)
(* answer is still to come, or is what the last push on its way carries.   *)
(***************************************************************************)
EXTENDS HostSync, VirtualNvramProofs, FiniteSetTheorems

(* The places of the messages about a section, and of DEVICE_STARTED.      *)
About(q, id) == {i \in DOMAIN q : q[i].kind # "STARTED" /\ q[i].vs_id = id}
Starts(q) == {i \in DOMAIN q : q[i].kind = "STARTED"}

(* The last message about the section carries v.                           *)
LastSays(q, id, v) ==
  \E i \in About(q, id) : \A j \in About(q, id) : j >= i => q[j].data = v

(* What the host will have of the section when it has read the queue.      *)
Final(q, id, v, w) == LastSays(q, id, v) \/ (About(q, id) = {} /\ w = v)

(* A DEVICE_STARTED is on its way and no event of the section behind it.   *)
Waiting(q, id) == \E i \in Starts(q) : \A j \in About(q, id) : j < i

(* Whether device (s), host (w) and what is on its way fit together.       *)
Fits(q, p, l, id, s, w) ==
  \/ Final(q, id, s, w)
  \/ /\ s = NoData
     /\ l = "down" \/ Waiting(q, id) \/ (About(q, id) = {} /\ LastSays(p, id, w))

Agreeing == \A id \in VsIds \ adrift : Fits(toHost, toDevice, link, id, Stored(id), host[id])

(* A section that the host had when it answered: before the answer, while  *)
(* it is on its way, and after it.                                         *)
Restoring ==
  \A id \in VsIds :
    \/ link = "down" \/ touched \/ Starts(toHost) # {} \/ backup[id] = NoData
    \/ LastSays(toDevice, id, backup[id])
    \/ /\ About(toDevice, id) = {}
       /\ Stored(id) = backup[id] \/ Fitting(EntrySize(backup[id])) = {}

SyncInv == IInv /\ SyncTypeOK /\ Agreeing /\ Restoring

-----------------------------------------------------------------------------
(* Queues. *)

LEMMA AboutConcat ==
  ASSUME NEW M, NEW q \in Seq(M), NEW r \in Seq(M), NEW id
  PROVE  /\ About(q \o r, id) = About(q, id) \cup {Len(q) + i : i \in About(r, id)}
         /\ Starts(q \o r) = Starts(q) \cup {Len(q) + i : i \in Starts(r)}
         /\ \A i \in DOMAIN q : (q \o r)[i] = q[i]
         /\ \A i \in DOMAIN r : (q \o r)[Len(q) + i] = r[i]
         /\ DOMAIN q = 1..Len(q) /\ Len(q) \in Nat /\ DOMAIN r = 1..Len(r) /\ Len(r) \in Nat
  <1> DEFINE qr == q \o r
  <1>1. DOMAIN q = 1..Len(q) /\ Len(q) \in Nat /\ DOMAIN r = 1..Len(r) /\ Len(r) \in Nat
    BY LenProperties
  <1>2. /\ qr \in Seq(M) /\ Len(qr) = Len(q) + Len(r)
        /\ \A i \in 1..(Len(q) + Len(r)) : qr[i] = IF i <= Len(q) THEN q[i] ELSE r[i - Len(q)]
    BY ConcatProperties
  <1>3. DOMAIN qr = 1..(Len(q) + Len(r))
    BY <1>2, LenProperties
  <1> HIDE DEF qr
  <1>4. \A i \in DOMAIN q : i \in DOMAIN qr /\ qr[i] = q[i]
    BY <1>1, <1>2, <1>3
  <1>5. ASSUME NEW i \in DOMAIN r
        PROVE  Len(q) + i \in DOMAIN qr /\ qr[Len(q) + i] = r[i]
    <2>1. Len(q) + i \in 1..(Len(q) + Len(r)) /\ ~(Len(q) + i <= Len(q)) /\ (Len(q) + i) - Len(q) = i
      BY <1>1
    <2> QED
      BY <2>1, <1>2, <1>3
  <1>6. \A i \in DOMAIN qr : i \in DOMAIN q \/ \E j \in DOMAIN r : i = Len(q) + j
    <2>1. SUFFICES ASSUME NEW i \in DOMAIN qr, i \notin DOMAIN q
                   PROVE  \E j \in DOMAIN r : i = Len(q) + j
      OBVIOUS
    <2>2. i - Len(q) \in DOMAIN r /\ i = Len(q) + (i - Len(q))
      BY <1>1, <1>3, <2>1
    <2> QED
      BY <2>2
  <1>7. About(qr, id) = About(q, id) \cup {Len(q) + i : i \in About(r, id)}
    BY <1>4, <1>5, <1>6 DEF About
  <1>8. Starts(qr) = Starts(q) \cup {Len(q) + i : i \in Starts(r)}
    BY <1>4, <1>5, <1>6 DEF Starts
  <1> QED
    BY <1>1, <1>4, <1>5, <1>7, <1>8 DEF qr

(* Messages about other sections, or none, do not matter. *)
LEMMA SaysAsBefore ==
  ASSUME NEW M, NEW q \in Seq(M), NEW r \in Seq(M), NEW id, About(r, id) = {}
  PROVE  /\ About(q \o r, id) = About(q, id)
         /\ \A v : LastSays(q, id, v) <=> LastSays(q \o r, id, v)
         /\ Waiting(q, id) => Waiting(q \o r, id)
         /\ Starts(q) # {} => Starts(q \o r) # {}
  <1> DEFINE qr == q \o r
  <1>1. /\ About(qr, id) = About(q, id) /\ Starts(q) \subseteq Starts(qr)
        /\ \A i \in DOMAIN q : qr[i] = q[i]
    <2>1. /\ About(qr, id) = About(q, id) \cup {Len(q) + i : i \in About(r, id)}
          /\ Starts(qr) = Starts(q) \cup {Len(q) + i : i \in Starts(r)}
          /\ \A i \in DOMAIN q : qr[i] = q[i]
      BY AboutConcat
    <2> HIDE DEF qr
    <2>2. {Len(q) + i : i \in About(r, id)} = {}
      OBVIOUS
    <2> QED
      BY <2>1, <2>2
  <1>2. About(q, id) \subseteq DOMAIN q
    BY DEF About
  <1> HIDE DEF qr
  <1>3. \A v : LastSays(q, id, v) <=> LastSays(qr, id, v)
    BY <1>1, <1>2 DEF LastSays
  <1>4. Waiting(q, id) => Waiting(qr, id)
    BY <1>1 DEF Waiting
  <1>5. Starts(q) # {} => Starts(qr) # {}
    BY <1>1
  <1> QED
    BY <1>1, <1>3, <1>4, <1>5 DEF qr

(* The last message about a section says what it says. *)
LEMMA SaysLast ==
  ASSUME NEW M, NEW q \in Seq(M), NEW r \in Seq(M), NEW id, NEW k \in About(r, id),
         \A j \in About(r, id) : j >= k => r[j].data = r[k].data
  PROVE  LastSays(q \o r, id, r[k].data)
  <1> DEFINE qr == q \o r
  <1>1. /\ About(qr, id) = About(q, id) \cup {Len(q) + i : i \in About(r, id)}
        /\ \A i \in DOMAIN r : qr[Len(q) + i] = r[i]
        /\ DOMAIN q = 1..Len(q) /\ Len(q) \in Nat /\ DOMAIN r = 1..Len(r) /\ Len(r) \in Nat
    BY AboutConcat
  <1> HIDE DEF qr
  <1>2. About(q, id) \subseteq 1..Len(q) /\ About(r, id) \subseteq 1..Len(r)
    BY <1>1 DEF About
  <1>3. Len(q) + k \in About(qr, id)
    BY <1>1
  <1>4. ASSUME NEW j \in About(qr, id), j >= Len(q) + k
        PROVE  qr[j].data = r[k].data
    <2>1. j \notin About(q, id)
      BY <1>1, <1>2, <1>4
    <2>2. PICK i \in About(r, id) : j = Len(q) + i
      BY <1>1, <2>1
    <2>3. i >= k
      BY <1>1, <1>2, <1>4, <2>2
    <2> QED
      BY <1>1, <1>2, <2>2, <2>3
  <1> QED
    BY <1>3, <1>4 DEF LastSays, qr

(* All messages about the section say the same. *)
LEMMA SaysOnly ==
  ASSUME NEW M, NEW q \in Seq(M), NEW r \in Seq(M), NEW id, About(r, id) # {},
         NEW v, \A j \in About(r, id) : r[j].data = v
  PROVE  LastSays(q \o r, id, v)
  BY SaysLast

LEMMA SaysNothing ==
  ASSUME NEW id
  PROVE  About(<<>>, id) = {} /\ Starts(<<>>) = {} /\ \A v : ~LastSays(<<>>, id, v)
  BY DEF About, Starts, LastSays

(* The first message is taken off. *)
LEMMA AboutTail ==
  ASSUME NEW M, NEW q \in Seq(M), q # <<>>, NEW id
  PROVE  /\ 1 \in DOMAIN q /\ Head(q) = q[1]
         /\ \A i \in About(q, id) : i = 1 \/ i - 1 \in About(Tail(q), id)
         /\ \A i \in About(Tail(q), id) : i + 1 \in About(q, id)
         /\ \A i \in Starts(q) : i = 1 \/ i - 1 \in Starts(Tail(q))
         /\ \A i \in DOMAIN Tail(q) : Tail(q)[i] = q[i + 1]
         /\ About(q, id) \subseteq Nat \ {0} /\ About(Tail(q), id) \subseteq Nat \ {0}
         /\ Starts(q) \subseteq Nat \ {0}
  <1> DEFINE t == Tail(q)
  <1>1. DOMAIN q = 1..Len(q) /\ Len(q) \in Nat /\ Len(q) # 0
    BY LenProperties, EmptySeq
  <1>2. t \in Seq(M) /\ Len(t) = Len(q) - 1 /\ (\A i \in 1..(Len(q) - 1) : t[i] = q[i + 1])
        /\ Head(q) = q[1]
    BY HeadTailProperties
  <1>3. DOMAIN t = 1..(Len(q) - 1)
    BY <1>2, LenProperties
  <1> HIDE DEF t
  <1>4. \A i \in DOMAIN t : i + 1 \in DOMAIN q /\ t[i] = q[i + 1] /\ i \in Nat \ {0}
    BY <1>1, <1>2, <1>3
  <1>5. \A i \in DOMAIN q : i = 1 \/ (i - 1 \in DOMAIN t /\ t[i - 1] = q[i])
    BY <1>1, <1>2, <1>3
  <1>6. \A i \in About(q, id) : i = 1 \/ i - 1 \in About(t, id)
    BY <1>5 DEF About
  <1>7. \A i \in About(t, id) : i + 1 \in About(q, id)
    BY <1>4 DEF About
  <1>8. \A i \in Starts(q) : i = 1 \/ i - 1 \in Starts(t)
    BY <1>5 DEF Starts
  <1>9. /\ About(q, id) \subseteq Nat \ {0} /\ About(t, id) \subseteq Nat \ {0}
        /\ Starts(q) \subseteq Nat \ {0} /\ 1 \in DOMAIN q
    BY <1>1, <1>3 DEF About, Starts
  <1> QED
    BY <1>2, <1>4, <1>6, <1>7, <1>8, <1>9 DEF t

LEMMA SaysBehind ==
  ASSUME NEW M, NEW q \in Seq(M), q # <<>>, NEW id, NEW v, LastSays(q, id, v)
  PROVE  LastSays(Tail(q), id, v)
         \/ (About(Tail(q), id) = {} /\ 1 \in About(q, id) /\ Head(q).data = v)
  <1> DEFINE t == Tail(q)
  <1>1. /\ Head(q) = q[1]
        /\ \A i \in About(q, id) : i = 1 \/ i - 1 \in About(t, id)
        /\ \A i \in About(t, id) : i + 1 \in About(q, id)
        /\ \A i \in DOMAIN t : t[i] = q[i + 1]
        /\ About(q, id) \subseteq Nat \ {0} /\ About(t, id) \subseteq Nat \ {0}
    BY AboutTail
  <1>2. About(t, id) \subseteq DOMAIN t
    BY DEF About
  <1> HIDE DEF t
  <1>3. PICK i \in About(q, id) : \A j \in About(q, id) : j >= i => q[j].data = v
    BY DEF LastSays
  <1>4. ASSUME NEW k \in About(t, id), k + 1 >= i
        PROVE  LastSays(t, id, v)
    <2>1. ASSUME NEW j \in About(t, id), j >= k PROVE t[j].data = v
      <3>1. j + 1 \in About(q, id) /\ j + 1 >= i
        BY <1>1, <1>4, <2>1
      <3> QED
        BY <1>1, <1>2, <1>3, <3>1
    <2> QED
      BY <2>1 DEF LastSays
  <1>5. CASE i - 1 \in About(t, id)
    <2>1. (i - 1) + 1 >= i
      BY <1>1
    <2> QED
      BY <1>4, <1>5, <2>1 DEF t
  <1>6. CASE i = 1
    <2>1. CASE About(t, id) = {}
      <3>1. q[i].data = v
        <4>1. i >= i
          BY <1>6
        <4> QED
          BY <1>3, <4>1
      <3> QED
        BY <1>1, <1>6, <2>1, <3>1 DEF t
    <2>2. CASE About(t, id) # {}
      <3>1. PICK k \in About(t, id) : TRUE
        BY <2>2
      <3>2. k + 1 >= i
        BY <1>1, <1>6
      <3> QED
        BY <1>4, <3>2 DEF t
    <2> QED
      BY <2>1, <2>2
  <1> QED
    BY <1>1, <1>5, <1>6

LEMMA WaitsBehind ==
  ASSUME NEW M, NEW q \in Seq(M), q # <<>>, NEW id, Waiting(q, id)
  PROVE  Waiting(Tail(q), id) \/ (Head(q).kind = "STARTED" /\ About(q, id) = {})
  <1> DEFINE t == Tail(q)
  <1>1. /\ Head(q) = q[1]
        /\ \A i \in About(t, id) : i + 1 \in About(q, id)
        /\ \A i \in Starts(q) : i = 1 \/ i - 1 \in Starts(t)
        /\ About(q, id) \subseteq Nat \ {0} /\ About(t, id) \subseteq Nat \ {0}
        /\ Starts(q) \subseteq Nat \ {0}
    BY AboutTail
  <1> HIDE DEF t
  <1>2. PICK i \in Starts(q) : \A j \in About(q, id) : j < i
    BY DEF Waiting
  <1>3. CASE i = 1
    <2>1. Head(q).kind = "STARTED"
      BY <1>1, <1>3 DEF Starts
    <2>2. About(q, id) = {}
      BY <1>1, <1>2, <1>3
    <2> QED
      BY <2>1, <2>2
  <1>4. CASE i # 1
    <2>1. i - 1 \in Starts(t)
      BY <1>1, <1>4
    <2>2. ASSUME NEW j \in About(t, id) PROVE j < i - 1
      <3>1. j + 1 \in About(q, id)
        BY <1>1
      <3>2. j + 1 < i
        BY <1>2, <3>1
      <3> QED
        BY <1>1, <3>2
    <2> QED
      BY <2>1, <2>2 DEF Waiting, t
  <1> QED
    BY <1>3, <1>4

(* A first message about something else. *)
LEMMA OthersBehind ==
  ASSUME NEW M, NEW q \in Seq(M), q # <<>>, NEW id, 1 \notin About(q, id)
  PROVE  /\ About(Tail(q), id) = {} <=> About(q, id) = {}
         /\ \A v : LastSays(q, id, v) => LastSays(Tail(q), id, v)
  <1>1. /\ \A i \in About(q, id) : i = 1 \/ i - 1 \in About(Tail(q), id)
        /\ \A i \in About(Tail(q), id) : i + 1 \in About(q, id)
    BY AboutTail
  <1>2. About(Tail(q), id) = {} <=> About(q, id) = {}
    BY <1>1
  <1> QED
    BY <1>2, SaysBehind

-----------------------------------------------------------------------------
(* Calls. *)

(* What a call for a section leaves. *)
Outcome(id) ==
  /\ IInv'
  /\ \A x : x # id => StoredIn(nvram', x) = StoredIn(nvram, x)
  /\ told' \in Seq(Events) /\ \A i \in DOMAIN told' : told'[i].vs_id = id
  /\ told' = <<>> => StoredIn(nvram', id) = StoredIn(nvram, id)
  /\ told' # <<>> => told'[Len(told')].data = StoredIn(nvram', id)
  /\ \A n : Fitting(n) = {} => Fitting(n)' = {}

(* The pool only shrinks. *)
LEMMA PoolShrinks ==
  ASSUME TypeOK, free_num' = free_num \/ \E n : \E c \in Cats : Take(n, c)
  PROVE  \A n : Fitting(n) = {} => Fitting(n)' = {}
  <1>1. ASSUME NEW x \in Cats PROVE free_num'[x] > 0 => free_num[x] > 0
    <2>1. CASE free_num' = free_num
      BY <2>1
    <2>2. ASSUME NEW n, NEW c \in Cats, Take(n, c) PROVE free_num'[x] > 0 => free_num[x] > 0
      <3>1. free_num[c] > 0 /\ free_num' = [free_num EXCEPT ![c] = free_num[c] - 1]
            /\ free_num \in [Cats -> Nat]
        BY <2>2 DEF Take, Fitting, TypeOK
      <3>2. free_num'[x] = IF x = c THEN free_num[x] - 1 ELSE free_num[x]
        BY <3>1
      <3> QED
        BY <3>1, <3>2
    <2> QED
      BY <2>1, <2>2
  <1>2. \A n : Fitting(n)' = {c \in Cats : Size[c] >= n /\ free_num'[c] > 0}
    BY DEF Fitting
  <1> QED
    BY <1>1, <1>2 DEF Fitting

LEMMA EventsOfCalls ==
  ASSUME NEW id \in VsIds, NEW d \in Data
  PROVE  /\ WriteEvent(id, d).vs_id = id /\ WriteEvent(id, d).data = d
         /\ DeleteEvent(id).vs_id = id /\ DeleteEvent(id).data = NoData
         /\ WriteEvent(id, d) \in Events /\ DeleteEvent(id) \in Events
  <1>1. WriteEvent(id, d) \in Events /\ DeleteEvent(id) \in Events
    BY RepliesAreTyped
  <1> QED
    BY <1>1 DEF WriteEvent, DeleteEvent

(* The end of a write, for a list that has the section no more. *)
LEMMA AddingOutcome ==
  ASSUME TypeOK, NEW list, Good(list), NEW id \in VsIds, NEW d \in Data, ~Lists(list, id),
         NEW sent \in Seq(Events), Len(sent) <= 1, \A i \in DOMAIN sent : sent[i].vs_id = id,
         AddTo(list, sent, id, d), request' \in Calls
  PROVE  /\ \A x : x # id => StoredIn(nvram', x) = StoredIn(list, x)
         /\ \A i \in DOMAIN told' : told'[i].vs_id = id
         /\ \/ /\ StoredIn(nvram', id) = d /\ told' # <<>> /\ told'[Len(told')].data = d
            \/ /\ nvram' = list /\ told' = sent /\ reply'.status = "NO_MEMORY"
               /\ Fitting(EntrySize(d))' = {}
         /\ \A n : Fitting(n) = {} => Fitting(n)' = {}
  <1>1. \/ /\ reply' = Answer("SUCCESS", NoData)
           /\ \A x : StoredIn(nvram', x) = IF x = id THEN d ELSE StoredIn(list, x)
           /\ told' # <<>> /\ told'[Len(told')] = WriteEvent(id, d)
        \/ /\ reply' = Answer("NO_MEMORY", NoData)
           /\ nvram' = list /\ told' = sent
    BY AddingTells
  <1>2. reply'.status = "SUCCESS" \/ reply'.status = "NO_MEMORY"
    BY <1>1 DEF Answer
  <1>3. CASE /\ \E c \in Cats : /\ Take(EntrySize(d), c) /\ nvram' = <<Entry(id, d, c)>> \o list
             /\ told' = Append(sent, WriteEvent(id, d))
             /\ reply' = Answer("SUCCESS", NoData)
    <2>1. reply'.status # "NO_MEMORY" /\ reply' # Answer("NO_MEMORY", NoData)
      BY <1>3 DEF Answer
    <2>2. /\ \A x : StoredIn(nvram', x) = IF x = id THEN d ELSE StoredIn(list, x)
          /\ told' # <<>> /\ told'[Len(told')].data = d
      BY <1>1, <2>1, EventsOfCalls
    <2>3. \A i \in DOMAIN told' : told'[i].vs_id = id
      <3>1. DOMAIN sent = 1..Len(sent) /\ Len(sent) \in Nat
        BY LenProperties
      <3>2. WriteEvent(id, d).vs_id = id
        BY EventsOfCalls
      <3>3. told' = Append(sent, WriteEvent(id, d))
        BY <1>3
      <3>4. \A i \in DOMAIN told' : (i \in DOMAIN sent /\ told'[i] = sent[i]) \/ told'[i] = WriteEvent(id, d)
        BY <3>1, <3>3
      <3> QED
        BY <3>2, <3>4
    <2>4. \A n : Fitting(n) = {} => Fitting(n)' = {}
      BY <1>3, PoolShrinks
    <2> QED
      BY <2>2, <2>3, <2>4
  <1>4. CASE /\ Fitting(EntrySize(d)) = {} /\ nvram' = list /\ told' = sent
             /\ reply' = Answer("NO_MEMORY", NoData) /\ UNCHANGED free_num
    <2>1. \A n : Fitting(n) = {} => Fitting(n)' = {}
      BY <1>4, PoolShrinks
    <2>2. EntrySize(d)' = EntrySize(d)
      BY DEF EntrySize
    <2>3. Fitting(EntrySize(d))' = {}
      BY <1>4 DEF Fitting, EntrySize
    <2>4. reply'.status = "NO_MEMORY"
      BY <1>4 DEF Answer
    <2> QED
      BY <1>4, <2>1, <2>3, <2>4
  <1> QED
    BY <1>3, <1>4 DEF AddTo

LEMMA WriteOutcome ==
  ASSUME IInv, NEW id \in VsIds, NEW d \in Data, Write(id, d)
  PROVE  /\ Outcome(id)
         /\ StoredIn(nvram', id) = d \/ Fitting(EntrySize(d))' = {}
         /\ told' = <<>> => reply'.status = "NO_MEMORY" \/ StoredIn(nvram, id) = d
  <1>1. Good(nvram) /\ TypeOK
    BY GoodIsInvariant DEF IInv
  <1>2. IInv' /\ told' \in Seq(Events) /\ request' \in Calls
    <2>1. TypeOK' /\ Good(nvram')
      BY WritesAreSound DEF Sound
    <2> QED
      BY <2>1, GoodGivesInvariant DEF TypeOK
  <1>3. CASE WriteNew(id, d)
    <2>1. ~Lists(nvram, id) /\ AddTo(nvram, <<>>, id, d)
      BY <1>3, FoundIsListed DEF WriteNew
    <2>2. <<>> \in Seq(Events) /\ Len(<<>>) <= 1 /\ DOMAIN <<>> = {}
      BY EmptySeq
    <2>3. /\ \A x : x # id => StoredIn(nvram', x) = StoredIn(nvram, x)
          /\ \A i \in DOMAIN told' : told'[i].vs_id = id
          /\ \/ /\ StoredIn(nvram', id) = d /\ told' # <<>> /\ told'[Len(told')].data = d
             \/ /\ nvram' = nvram /\ told' = <<>> /\ reply'.status = "NO_MEMORY"
                /\ Fitting(EntrySize(d))' = {}
          /\ \A n : Fitting(n) = {} => Fitting(n)' = {}
      BY <1>1, <1>2, <2>1, <2>2, AddingOutcome
    <2> QED
      BY <1>2, <2>3 DEF Outcome
  <1>4. CASE WriteSame(id, d)
    <2>1. nvram' = nvram /\ free_num' = free_num /\ told' = <<>> /\ StoredIn(nvram, id) = d
      BY <1>4, StoredNow DEF WriteSame
    <2>2. \A n : Fitting(n) = {} => Fitting(n)' = {}
      BY <1>1, <2>1, PoolShrinks
    <2> QED
      BY <1>2, <2>1, <2>2 DEF Outcome
  <1>5. CASE WriteOver(id, d)
    <2>1. /\ nvram' = Overwritten(nvram, First(id), d) \/ nvram[First(id)].vs_id # id
          /\ told' = <<WriteEvent(id, d)>> /\ UNCHANGED free_num
          /\ Found(id) /\ DataLen[Stored(id)] = DataLen[d]
      BY <1>5 DEF WriteOver, Overwritten
    <2>2. First(id) \in DOMAIN nvram /\ nvram[First(id)].vs_id = id
      BY <1>1, <2>1, FirstIsOf
    <2>3. DataLen[nvram[First(id)].data] = DataLen[d]
      BY <2>1 DEF Stored
    <2>4. \A x : StoredIn(nvram', x) = IF x = id THEN d ELSE StoredIn(nvram, x)
      BY <1>1, <2>1, <2>2, <2>3, Overwriting
    <2>5. told' # <<>> /\ told'[Len(told')].data = d /\ \A i \in DOMAIN told' : told'[i].vs_id = id
      BY <2>1, EventsOfCalls
    <2>6. \A n : Fitting(n) = {} => Fitting(n)' = {}
      BY <1>1, <2>1, PoolShrinks
    <2> QED
      BY <1>2, <2>4, <2>5, <2>6 DEF Outcome
  <1>6. CASE WriteResize(id, d)
    <2> DEFINE list == Without(First(id))
    <2>1. Found(id) /\ AddTo(list, <<DeleteEvent(id)>>, id, d)
      BY <1>6 DEF WriteResize
    <2>2. First(id) \in DOMAIN nvram /\ nvram[First(id)].vs_id = id
      BY <1>1, <2>1, FirstIsOf
    <2>3. /\ Good(list) /\ ~Lists(list, id)
          /\ \A x : StoredIn(list, x) = IF x = id THEN NoData ELSE StoredIn(nvram, x)
      BY <1>1, <2>2, Removing DEF Without
    <2>4. /\ <<DeleteEvent(id)>> \in Seq(Events) /\ Len(<<DeleteEvent(id)>>) <= 1
          /\ \A i \in DOMAIN <<DeleteEvent(id)>> : <<DeleteEvent(id)>>[i].vs_id = id
      BY EventsOfCalls
    <2> HIDE DEF list
    <2>5. /\ \A x : x # id => StoredIn(nvram', x) = StoredIn(list, x)
          /\ \A i \in DOMAIN told' : told'[i].vs_id = id
          /\ \/ /\ StoredIn(nvram', id) = d /\ told' # <<>> /\ told'[Len(told')].data = d
             \/ /\ nvram' = list /\ told' = <<DeleteEvent(id)>> /\ reply'.status = "NO_MEMORY"
                /\ Fitting(EntrySize(d))' = {}
          /\ \A n : Fitting(n) = {} => Fitting(n)' = {}
      BY <1>1, <1>2, <2>1, <2>3, <2>4, AddingOutcome
    <2>6. /\ \A x : x # id => StoredIn(nvram', x) = StoredIn(nvram, x)
          /\ told' # <<>> /\ told'[Len(told')].data = StoredIn(nvram', id)
      BY <2>3, <2>5, EventsOfCalls
    <2> QED
      BY <1>2, <2>5, <2>6 DEF Outcome
  <1> QED
    BY <1>3, <1>4, <1>5, <1>6 DEF Write

LEMMA DeleteOutcome ==
  ASSUME IInv, NEW id \in VsIds, Delete(id)
  PROVE  Outcome(id)
  <1>1. Good(nvram) /\ TypeOK /\ free_num' = free_num
    BY GoodIsInvariant DEF IInv, Delete
  <1>2. IInv' /\ told' \in Seq(Events)
    <2>1. TypeOK' /\ Good(nvram')
      BY DeletesAreSound DEF Sound
    <2> QED
      BY <2>1, GoodGivesInvariant DEF TypeOK
  <1>3. \A n : Fitting(n) = {} => Fitting(n)' = {}
    BY <1>1, PoolShrinks
  <1>4. CASE Found(id)
    <2>1. nvram' = Without(First(id)) /\ told' = <<DeleteEvent(id)>>
      BY <1>4 DEF Delete
    <2>2. First(id) \in DOMAIN nvram /\ nvram[First(id)].vs_id = id
      BY <1>1, <1>4, FirstIsOf
    <2>3. \A x : StoredIn(nvram', x) = IF x = id THEN NoData ELSE StoredIn(nvram, x)
      BY <1>1, <2>1, <2>2, Removing DEF Without
    <2>4. told' # <<>> /\ told'[Len(told')].data = NoData /\ \A i \in DOMAIN told' : told'[i].vs_id = id
      BY <2>1 DEF DeleteEvent
    <2> QED
      BY <1>2, <1>3, <2>3, <2>4 DEF Outcome
  <1>5. CASE ~Found(id)
    <2>1. nvram' = nvram /\ told' = <<>>
      BY <1>5 DEF Delete
    <2> QED
      BY <1>2, <1>3, <2>1 DEF Outcome
  <1> QED
    BY <1>4, <1>5

-----------------------------------------------------------------------------
(* Steps. *)

ToHost == Events \cup {StartedEvent}
ToDevice == [kind : {"PUSH"}, vs_id : VsIds, data : Data]

LEMMA MessageKinds ==
  /\ StartedEvent.kind = "STARTED"
  /\ \A e \in Events : e.kind # "STARTED" /\ e.vs_id \in VsIds /\ e.data \in Data \cup {NoData}
  /\ \A e \in ToDevice : e.kind # "STARTED" /\ e.vs_id \in VsIds /\ e.data \in Data
  BY DEF StartedEvent, Events, ToDevice

LEMMA FitsNow ==
  Agreeing <=> \A x \in VsIds \ adrift :
                 Fits(toHost, toDevice, link, x, StoredIn(nvram, x), host[x])
  BY StoredNow DEF Agreeing

LEMMA FitsNext ==
  Agreeing' <=> \A x \in VsIds \ adrift' :
                  Fits(toHost', toDevice', link', x, StoredIn(nvram', x), host'[x])
  BY StoredNext DEF Agreeing, Fits, Final, Waiting, LastSays, About, Starts

(* What is accepted of the events of a call. *)
LEMMA AcceptedEvents ==
  ASSUME NEW id \in VsIds, told' \in Seq(Events), \A i \in DOMAIN told' : told'[i].vs_id = id,
         NEW accepted \in Accepted
  PROVE  /\ accepted \in Seq(Events)
         /\ \A i \in DOMAIN accepted : accepted[i].vs_id = id /\ accepted[i].kind # "STARTED"
         /\ told' = <<>> => accepted = <<>>
  <1>1. \A i \in DOMAIN told' : told'[i] \in Events
    BY LenProperties, ElementOfSeq
  <1>2. CASE accepted = <<>>
    BY <1>2, EmptySeq
  <1>3. CASE accepted = told'
    BY <1>1, <1>3, MessageKinds
  <1>4. ASSUME NEW i \in DOMAIN told', accepted = <<told'[i]>>
        PROVE  /\ accepted \in Seq(Events)
               /\ \A j \in DOMAIN accepted : accepted[j].vs_id = id /\ accepted[j].kind # "STARTED"
               /\ told' # <<>>
    <2>1. told'[i] \in Events /\ told'[i].vs_id = id /\ told'[i].kind # "STARTED"
      BY <1>1, MessageKinds
    <2>2. told' # <<>>
      BY <1>4, EmptySeq
    <2> HIDE <1>4
    <2>3. accepted = <<told'[i]>>
      BY <1>4
    <2> QED
      BY <2>1, <2>2, <2>3
  <1> QED
    BY <1>2, <1>3, <1>4 DEF Accepted

(* A call is made, by the application or for a push, and its events are    *)
(* sent.                                                                   *)
LEMMA SendingFits ==
  ASSUME SyncInv, NEW id \in VsIds, Outcome(id), Send(id), UNCHANGED <<link, host>>,
         \/ toDevice' = toDevice
         \/ /\ toDevice # <<>> /\ toDevice' = Tail(toDevice) /\ Head(toDevice).vs_id = id
            /\ told' = <<>> => reply'.status = "NO_MEMORY" \/ StoredIn(nvram, id) # NoData
  PROVE  /\ Agreeing'
         /\ toHost' \in Seq(ToHost) /\ adrift' \in SUBSET VsIds
         /\ Starts(toHost) # {} => Starts(toHost') # {}
  <1>1. PICK accepted \in Accepted :
          /\ toHost' = toHost \o accepted
          /\ adrift' = IF told' = <<>>
                       THEN IF reply'.status = "NO_MEMORY" THEN adrift \cup {id} ELSE adrift
                       ELSE IF LastAccepted(accepted) THEN adrift \ {id} ELSE adrift \cup {id}
    BY DEF Send
  <1>2. /\ toHost \in Seq(ToHost) /\ toDevice \in Seq(ToDevice) /\ adrift \in SUBSET VsIds
        /\ \A x \in VsIds \ adrift : Fits(toHost, toDevice, link, x, StoredIn(nvram, x), host[x])
    BY FitsNow DEF SyncInv, SyncTypeOK, ToHost, ToDevice
  <1>3. /\ accepted \in Seq(ToHost)
        /\ \A i \in DOMAIN accepted : accepted[i].vs_id = id /\ accepted[i].kind # "STARTED"
        /\ told' = <<>> => accepted = <<>>
    <2>1. /\ accepted \in Seq(Events)
          /\ \A i \in DOMAIN accepted : accepted[i].vs_id = id /\ accepted[i].kind # "STARTED"
          /\ told' = <<>> => accepted = <<>>
      BY AcceptedEvents DEF Outcome
    <2>2. accepted \in Seq(ToHost)
      <3>1. accepted \in [1..Len(accepted) -> Events] /\ Len(accepted) \in Nat
        BY <2>1, LenProperties
      <3>2. accepted \in [1..Len(accepted) -> ToHost]
        BY <3>1 DEF ToHost
      <3> QED
        BY <3>1, <3>2, SeqDef
    <2> QED
      BY <2>1, <2>2
  <1>4. toHost' \in Seq(ToHost)
    BY <1>1, <1>2, <1>3, ConcatProperties
  <1>5. adrift' \in SUBSET VsIds
    BY <1>1, <1>2
  <1>6. Starts(toHost) # {} => Starts(toHost') # {}
    <2> DEFINE all == toHost \o accepted
    <2>1. /\ About(all, id) = About(toHost, id) \cup {Len(toHost) + i : i \in About(accepted, id)}
          /\ Starts(all) = Starts(toHost) \cup {Len(toHost) + i : i \in Starts(accepted)}
      BY <1>2, <1>3, AboutConcat
    <2> QED
      BY <1>1, <2>1
  <1>7. ASSUME NEW x \in VsIds \ adrift', x # id
        PROVE  Fits(toHost', toDevice', link', x, StoredIn(nvram', x), host'[x])
    <2>1. x \notin adrift
      BY <1>1, <1>7
    <2>2. StoredIn(nvram', x) = StoredIn(nvram, x)
      BY <1>7 DEF Outcome
    <2>3. Fits(toHost, toDevice, link, x, StoredIn(nvram, x), host[x])
      BY <1>2, <2>1
    <2>4. About(accepted, x) = {}
      BY <1>3, <1>7 DEF About
    <2>5. /\ About(toHost', x) = About(toHost, x)
          /\ \A v : LastSays(toHost, x, v) <=> LastSays(toHost', x, v)
          /\ Waiting(toHost, x) => Waiting(toHost', x)
      <3> DEFINE all == toHost \o accepted
      <3>1. toHost \in Seq(ToHost) /\ accepted \in Seq(ToHost)
        BY <1>2, <1>3
      <3>2. /\ About(all, x) = About(toHost, x)
            /\ \A v : LastSays(toHost, x, v) <=> LastSays(all, x, v)
            /\ Waiting(toHost, x) => Waiting(all, x)
            /\ Starts(toHost) # {} => Starts(all) # {}
        BY <2>4, <3>1, SaysAsBefore
      <3>3. toHost' = all
        BY <1>1
      <3> HIDE DEF all
      <3> QED
        BY <3>2, <3>3
    <2>6. \A v : LastSays(toDevice, x, v) => LastSays(toDevice', x, v)
      <3>1. CASE toDevice' = toDevice
        BY <3>1
      <3>2. CASE toDevice # <<>> /\ toDevice' = Tail(toDevice) /\ Head(toDevice).vs_id = id
        <4>1. Head(toDevice) = toDevice[1]
          BY <1>2, <3>2, HeadTailProperties
        <4>2. 1 \notin About(toDevice, x)
          BY <1>7, <3>2, <4>1 DEF About
        <4> QED
          BY <1>2, <3>2, <4>2, OthersBehind
      <3> QED
        BY <3>1, <3>2
    <2> QED
      BY <2>2, <2>3, <2>5, <2>6 DEF Fits, Final
  <1>8. ASSUME id \notin adrift'
        PROVE  Fits(toHost', toDevice', link', id, StoredIn(nvram', id), host'[id])
    <2>1. CASE told' = <<>>
      <3>1. reply'.status # "NO_MEMORY" /\ id \notin adrift
        BY <1>1, <1>8, <2>1
      <3>2. toHost' = toHost /\ StoredIn(nvram', id) = StoredIn(nvram, id)
        BY <1>1, <1>2, <1>3, <2>1, ConcatEmptySeq DEF Outcome
      <3>3. Fits(toHost, toDevice, link, id, StoredIn(nvram, id), host[id])
        BY <1>2, <3>1
      <3>4. toDevice' = toDevice \/ StoredIn(nvram, id) # NoData
        BY <2>1, <3>1
      <3> QED
        BY <3>2, <3>3, <3>4 DEF Fits
    <2>2. CASE told' # <<>>
      <3>1. accepted # <<>> /\ accepted[Len(accepted)] = told'[Len(told')]
        BY <1>1, <1>8, <2>2 DEF LastAccepted
      <3>2. accepted[Len(accepted)].data = StoredIn(nvram', id)
        BY <2>2, <3>1 DEF Outcome
      <3>3. DOMAIN accepted = 1..Len(accepted) /\ Len(accepted) \in Nat /\ Len(accepted) # 0
        BY <1>3, <3>1, LenProperties, EmptySeq
      <3>4. Len(accepted) \in About(accepted, id)
        BY <1>3, <3>3 DEF About
      <3>5. \A j \in About(accepted, id) : j >= Len(accepted) => j = Len(accepted)
        BY <3>3 DEF About
      <3>6. LastSays(toHost \o accepted, id, accepted[Len(accepted)].data)
        BY <1>2, <1>3, <3>4, <3>5, SaysLast
      <3> QED
        BY <1>1, <3>2, <3>6 DEF Fits, Final
    <2> QED
      BY <2>1, <2>2
  <1>9. Agreeing'
    BY <1>7, <1>8, FitsNext
  <1> QED
    BY <1>4, <1>5, <1>6, <1>9

(* Restoring, after a step. *)
Room(f, n) == {c \in Cats : Size[c] >= n /\ f[c] > 0}

LEMMA RoomNow ==
  \A n : Fitting(n) = Room(free_num, n) /\ Fitting(n)' = Room(free_num', n)
  BY DEF Fitting, Room

LEMMA RestoringNow ==
  Restoring <=> \A x \in VsIds :
    \/ link = "down" \/ touched \/ Starts(toHost) # {} \/ backup[x] = NoData
    \/ LastSays(toDevice, x, backup[x])
    \/ /\ About(toDevice, x) = {}
       /\ StoredIn(nvram, x) = backup[x] \/ Room(free_num, EntrySize(backup[x])) = {}
  BY StoredNow, RoomNow DEF Restoring

LEMMA RestoringNext ==
  Restoring' <=> \A x \in VsIds :
    \/ link' = "down" \/ touched' \/ Starts(toHost') # {} \/ backup'[x] = NoData
    \/ LastSays(toDevice', x, backup'[x])
    \/ /\ About(toDevice', x) = {}
       /\ StoredIn(nvram', x) = backup'[x] \/ Room(free_num', EntrySize(backup'[x])) = {}
  BY StoredNext DEF Restoring, Fitting, Room, EntrySize, LastSays, About, Starts

(* What the invariant says of the queues. *)
LEMMA Queues ==
  ASSUME SyncInv
  PROVE  /\ toHost \in Seq(ToHost) /\ toDevice \in Seq(ToDevice)
         /\ host \in [VsIds -> Data \cup {NoData}] /\ backup \in [VsIds -> Data \cup {NoData}]
         /\ toHost # <<>> => Head(toHost) \in ToHost /\ Tail(toHost) \in Seq(ToHost)
                             /\ Head(toHost) = toHost[1] /\ 1 \in DOMAIN toHost
         /\ toDevice # <<>> => Head(toDevice) \in ToDevice /\ Tail(toDevice) \in Seq(ToDevice)
                               /\ Head(toDevice) = toDevice[1] /\ 1 \in DOMAIN toDevice
         /\ \A x \in VsIds \ adrift : Fits(toHost, toDevice, link, x, StoredIn(nvram, x), host[x])
         /\ adrift \in SUBSET VsIds
  <1>1. /\ toHost \in Seq(ToHost) /\ toDevice \in Seq(ToDevice) /\ adrift \in SUBSET VsIds
        /\ host \in [VsIds -> Data \cup {NoData}] /\ backup \in [VsIds -> Data \cup {NoData}]
    BY DEF SyncInv, SyncTypeOK, ToHost, ToDevice
  <1>2. ASSUME NEW M, NEW q \in Seq(M), q # <<>>
        PROVE  Head(q) \in M /\ Tail(q) \in Seq(M) /\ Head(q) = q[1] /\ 1 \in DOMAIN q
    <2>1. Len(q) \in Nat /\ Len(q) # 0 /\ DOMAIN q = 1..Len(q)
      BY <1>2, LenProperties, EmptySeq
    <2>2. 1 \in 1..Len(q)
      BY <2>1
    <2>3. Head(q) \in M /\ Tail(q) \in Seq(M) /\ Head(q) = q[1]
      BY <1>2, HeadTailProperties
    <2> QED
      BY <2>1, <2>2, <2>3
  <1> QED
    BY <1>1, <1>2, FitsNow DEF SyncInv

LEMMA AppCallKeeps ==
  ASSUME SyncInv, AppCall
  PROVE  SyncInv'
  <1>1. /\ UNCHANGED <<link, toDevice, host, backup, boots>> /\ touched' = TRUE
        /\ ops < MaxOps /\ ops' = ops + 1
    BY DEF AppCall
  <1>2. PICK id \in VsIds : (Delete(id) \/ \E d \in Data : Write(id, d)) /\ Send(id)
    BY DEF AppCall
  <1>3. Outcome(id)
    BY <1>2, DeleteOutcome, WriteOutcome DEF SyncInv
  <1>4. Agreeing' /\ toHost' \in Seq(ToHost) /\ adrift' \in SUBSET VsIds
    BY <1>1, <1>2, <1>3, SendingFits
  <1>5. IInv' /\ TypeOK'
    BY <1>3 DEF Outcome, IInv
  <1>6. SyncTypeOK'
    <2>1. ops' \in 0..MaxOps
      BY <1>1, HostSyncAssumption DEF SyncInv, SyncTypeOK
    <2> QED
      BY <1>1, <1>4, <1>5, <2>1 DEF SyncInv, SyncTypeOK, ToHost
  <1>7. Restoring'
    BY <1>1 DEF Restoring
  <1> QED
    BY <1>4, <1>5, <1>6, <1>7 DEF SyncInv

(* A step that leaves the device's own state alone. *)
LEMMA NvramKeeps ==
  ASSUME IInv, UNCHANGED vars
  PROVE  IInv' /\ TypeOK' /\ \A x : StoredIn(nvram', x) = StoredIn(nvram, x)
  BY DEF IInv, TypeOK, UniqueIds, EntriesFit, vars

LEMMA StartKeeps ==
  ASSUME SyncInv, Start
  PROVE  SyncInv'
  <1>1. /\ link = "down" /\ link' = "up" /\ toHost' = Append(toHost, StartedEvent)
        /\ UNCHANGED <<vars, toDevice, host, adrift, backup, touched, ops, boots>>
    BY DEF Start
  <1>2. IInv' /\ TypeOK' /\ \A x : StoredIn(nvram', x) = StoredIn(nvram, x)
    BY <1>1, NvramKeeps DEF SyncInv
  <1> DEFINE r == <<StartedEvent>>
  <1> DEFINE all == toHost \o r
  <1>3. /\ toHost \in Seq(ToHost) /\ r \in Seq(ToHost) /\ toHost' = all /\ toHost' \in Seq(ToHost)
    <2>1. StartedEvent \in ToHost /\ toHost \in Seq(ToHost)
      BY Queues DEF ToHost
    <2> QED
      BY <1>1, <2>1, AppendIsConcat, AppendProperties
  <1>4. \A x : About(r, x) = {} /\ 1 \in Starts(r)
    BY MessageKinds DEF About, Starts
  <1>5. ASSUME NEW x
        PROVE  /\ About(all, x) = About(toHost, x) /\ Starts(all) # {} /\ Waiting(all, x)
               /\ \A v : LastSays(toHost, x, v) <=> LastSays(all, x, v)
    <2> HIDE DEF r
    <2>1. /\ About(all, x) = About(toHost, x)
          /\ \A v : LastSays(toHost, x, v) <=> LastSays(all, x, v)
      <3>1. About(r, x) = {}
        BY <1>4
      <3>2. /\ About(all, x) = About(toHost, x)
            /\ \A v : LastSays(toHost, x, v) <=> LastSays(all, x, v)
            /\ Waiting(toHost, x) => Waiting(all, x)
            /\ Starts(toHost) # {} => Starts(all) # {}
        BY <1>3, <3>1, SaysAsBefore
      <3> QED
        BY <3>2
    <2>2. /\ About(all, x) = About(toHost, x) \cup {Len(toHost) + i : i \in About(r, x)}
          /\ Starts(all) = Starts(toHost) \cup {Len(toHost) + i : i \in Starts(r)}
      <3>1. toHost \in Seq(ToHost) /\ r \in Seq(ToHost)
        BY <1>3
      <3> QED
        BY <3>1, AboutConcat
    <2>5. DOMAIN toHost = 1..Len(toHost) /\ Len(toHost) \in Nat
      BY <1>3, LenProperties
    <2> HIDE DEF all
    <2>3. Len(toHost) + 1 \in Starts(all)
      BY <1>4, <2>2
    <2>4. \A j \in About(all, x) : j < Len(toHost) + 1
      BY <2>1, <2>5 DEF About
    <2> QED
      BY <2>1, <2>3, <2>4 DEF Waiting
  <1> HIDE DEF all
  <1>6. Agreeing'
    <2>1. ASSUME NEW x \in VsIds \ adrift
          PROVE  Fits(all, toDevice, link', x, StoredIn(nvram, x), host[x])
      <3>1. Fits(toHost, toDevice, link, x, StoredIn(nvram, x), host[x])
        BY Queues
      <3> QED
        BY <1>5, <3>1 DEF Fits, Final
    <2> QED
      BY <1>1, <1>2, <1>3, <2>1, FitsNext
  <1>7. Restoring'
    <2>1. VsIds = {} \/ Starts(toHost') # {}
      BY <1>3, <1>5
    <2> QED
      BY <2>1, RestoringNext
  <1>8. SyncTypeOK'
    BY <1>1, <1>2, <1>3 DEF SyncInv, SyncTypeOK, ToHost
  <1> QED
    BY <1>2, <1>6, <1>7, <1>8 DEF SyncInv

LEMMA RxPushKeeps ==
  ASSUME SyncInv, RxPush
  PROVE  SyncInv'
  <1>1. PICK p : p = Head(toDevice)
    OBVIOUS
  <1>2. /\ toDevice # <<>> /\ toDevice' = Tail(toDevice) /\ Write(p.vs_id, p.data) /\ Send(p.vs_id)
        /\ UNCHANGED <<link, host, backup, touched, ops, boots>>
    BY <1>1 DEF RxPush
  <1>3. PICK id : id = p.vs_id
    OBVIOUS
  <1>4. PICK d : d = p.data
    OBVIOUS
  <1>5. id \in VsIds /\ d \in Data /\ NoData \notin Data
    BY <1>1, <1>2, <1>3, <1>4, Queues, MessageKinds, ConstantTypes
  <1>6. /\ Outcome(id)
        /\ StoredIn(nvram', id) = d \/ Fitting(EntrySize(d))' = {}
        /\ told' = <<>> => reply'.status = "NO_MEMORY" \/ StoredIn(nvram, id) = d
    BY <1>2, <1>3, <1>4, <1>5, WriteOutcome DEF SyncInv
  <1>7. told' = <<>> => reply'.status = "NO_MEMORY" \/ StoredIn(nvram, id) # NoData
    BY <1>5, <1>6
  <1>8. /\ Agreeing' /\ toHost' \in Seq(ToHost) /\ adrift' \in SUBSET VsIds
        /\ Starts(toHost) # {} => Starts(toHost') # {}
    <2>1. toDevice # <<>> /\ toDevice' = Tail(toDevice) /\ Head(toDevice).vs_id = id
      BY <1>1, <1>2, <1>3
    <2>2. Send(id) /\ UNCHANGED <<link, host>>
      BY <1>2, <1>3
    <2> QED
      BY <1>5, <1>6, <1>7, <2>1, <2>2, SendingFits
  <1>9. IInv' /\ TypeOK'
    BY <1>6 DEF Outcome, IInv
  <1>10. SyncTypeOK'
    <2>1. toDevice' \in Seq(ToDevice)
      BY <1>2, Queues
    <2> QED
      BY <1>2, <1>8, <1>9, <2>1 DEF SyncInv, SyncTypeOK, ToHost, ToDevice
  <1>11. StoredIn(nvram', id) = d \/ Room(free_num', EntrySize(d)) = {}
    <2>1. Fitting(EntrySize(d))' = Room(free_num', EntrySize(d))
      BY DEF Fitting, Room, EntrySize
    <2> QED
      BY <1>6, <2>1
  <1>12. \A n : Room(free_num, n) = {} => Room(free_num', n) = {}
    BY <1>6, RoomNow DEF Outcome
  <1>13. Head(toDevice).data = d /\ 1 \in About(toDevice, id)
         /\ \A x : x # id => 1 \notin About(toDevice, x)
    BY <1>1, <1>2, <1>3, <1>4, Queues, MessageKinds DEF About
  <1>14. ASSUME NEW x \in VsIds, link # "down", ~touched, Starts(toHost) = {}, backup[x] # NoData
         PROVE  \/ LastSays(toDevice', x, backup[x])
                \/ /\ About(toDevice', x) = {}
                   /\ StoredIn(nvram', x) = backup[x] \/ Room(free_num', EntrySize(backup[x])) = {}
    <2>1. \/ LastSays(toDevice, x, backup[x])
          \/ /\ About(toDevice, x) = {}
             /\ StoredIn(nvram, x) = backup[x] \/ Room(free_num, EntrySize(backup[x])) = {}
      BY <1>14, RestoringNow DEF SyncInv
    <2>2. toDevice \in Seq(ToDevice)
      BY Queues
    <2>3. CASE x = id
      <3>1. LastSays(toDevice, x, backup[x])
        BY <1>13, <2>1, <2>3
      <3>2. \/ LastSays(Tail(toDevice), x, backup[x])
            \/ (About(Tail(toDevice), x) = {} /\ 1 \in About(toDevice, x) /\ Head(toDevice).data = backup[x])
        BY <1>2, <2>2, <3>1, SaysBehind
      <3> QED
        BY <1>2, <1>11, <1>13, <2>3, <3>2
    <2>4. CASE x # id
      <3>1. 1 \notin About(toDevice, x)
        BY <1>13, <2>4
      <3>2. /\ About(Tail(toDevice), x) = {} <=> About(toDevice, x) = {}
            /\ \A v : LastSays(toDevice, x, v) => LastSays(Tail(toDevice), x, v)
        BY <1>2, <2>2, <3>1, OthersBehind
      <3>3. StoredIn(nvram', x) = StoredIn(nvram, x)
        BY <1>6, <2>4 DEF Outcome
      <3> QED
        BY <1>2, <1>12, <2>1, <3>2, <3>3
    <2> QED
      BY <2>3, <2>4
  <1>15. Restoring'
    BY <1>2, <1>8, <1>14, RestoringNext
  <1> QED
    BY <1>8, <1>9, <1>10, <1>15 DEF SyncInv

LEMMA HostRecordKeeps ==
  ASSUME SyncInv, HostRecord
  PROVE  SyncInv'
  <1>1. PICK e : e = Head(toHost)
    OBVIOUS
  <1>2. /\ toHost # <<>> /\ e # StartedEvent /\ toHost' = Tail(toHost)
        /\ host' = [host EXCEPT ![e.vs_id] = e.data]
        /\ UNCHANGED <<vars, link, toDevice, adrift, backup, touched, ops, boots>>
    BY <1>1 DEF HostRecord
  <1>3. PICK id : id = e.vs_id
    OBVIOUS
  <1>4. /\ e \in Events /\ id \in VsIds /\ e.data \in Data \cup {NoData} /\ e.kind # "STARTED"
        /\ toHost \in Seq(ToHost) /\ Tail(toHost) \in Seq(ToHost) /\ e = toHost[1] /\ 1 \in DOMAIN toHost
    BY <1>1, <1>2, <1>3, Queues, MessageKinds DEF ToHost
  <1>5. 1 \in About(toHost, id) /\ (\A x : x # id => 1 \notin About(toHost, x)) /\ 1 \notin Starts(toHost)
    BY <1>3, <1>4 DEF About, Starts
  <1>6. IInv' /\ TypeOK' /\ \A x : StoredIn(nvram', x) = StoredIn(nvram, x)
    BY <1>2, NvramKeeps DEF SyncInv
  <1>7. host' \in [VsIds -> Data \cup {NoData}]
        /\ \A x \in VsIds : host'[x] = IF x = id THEN e.data ELSE host[x]
    BY <1>2, <1>3, <1>4, Queues
  <1>8. SyncTypeOK'
    BY <1>2, <1>4, <1>6, <1>7 DEF SyncInv, SyncTypeOK, ToHost
  <1>9. ASSUME NEW x \in VsIds \ adrift
        PROVE  Fits(Tail(toHost), toDevice, link, x, StoredIn(nvram, x), host'[x])
    <2>1. Fits(toHost, toDevice, link, x, StoredIn(nvram, x), host[x])
      BY Queues
    <2>2. Waiting(toHost, x) => Waiting(Tail(toHost), x)
      BY <1>1, <1>2, <1>4, WaitsBehind
    <2>3. CASE x = id
      <3>1. About(toHost, x) # {} /\ host'[x] = e.data
        BY <1>5, <1>7, <2>3
      <3>2. LastSays(toHost, x, StoredIn(nvram, x)) =>
              \/ LastSays(Tail(toHost), x, StoredIn(nvram, x))
              \/ About(Tail(toHost), x) = {} /\ e.data = StoredIn(nvram, x)
        BY <1>1, <1>2, <1>4, SaysBehind
      <3> QED
        BY <2>1, <2>2, <3>1, <3>2 DEF Fits, Final
    <2>4. CASE x # id
      <3>1. 1 \notin About(toHost, x) /\ host'[x] = host[x]
        BY <1>5, <1>7, <2>4
      <3>2. /\ About(Tail(toHost), x) = {} <=> About(toHost, x) = {}
            /\ \A v : LastSays(toHost, x, v) => LastSays(Tail(toHost), x, v)
        BY <1>2, <1>4, <3>1, OthersBehind
      <3> QED
        BY <2>1, <2>2, <3>1, <3>2 DEF Fits, Final
    <2> QED
      BY <2>3, <2>4
  <1>10. Agreeing'
    BY <1>2, <1>6, <1>9, FitsNext
  <1>11. Starts(toHost) # {} => Starts(Tail(toHost)) # {}
    <2>1. \A i \in Starts(toHost) : i = 1 \/ i - 1 \in Starts(Tail(toHost))
      BY <1>2, <1>4, AboutTail
    <2> QED
      BY <1>5, <2>1
  <1>12. Restoring'
    BY <1>2, <1>6, <1>11, RestoringNow, RestoringNext DEF SyncInv, vars
  <1> QED
    BY <1>6, <1>8, <1>10, <1>12 DEF SyncInv

(* What the host sends, in whatever order: each of its sections, as it has *)
(* it.                                                                     *)
LEMMA PushedAll ==
  ASSUME host \in [VsIds -> Data \cup {NoData}],
         NEW order \in Orders({id \in VsIds : host[id] # NoData}),
         NEW r, r = [i \in DOMAIN order |-> Push(order[i])]
  PROVE  /\ r \in Seq(ToDevice)
         /\ \A x \in VsIds : /\ host[x] # NoData => About(r, x) # {}
                             /\ host[x] = NoData => About(r, x) = {}
                             /\ \A j \in About(r, x) : r[j].data = host[x]
  <1> DEFINE S == {id \in VsIds : host[id] # NoData}
  <1>1. PICK n \in Nat : n = Cardinality(S)
    <2>1. IsFiniteSet(S)
      BY HostSyncAssumption, FS_Subset
    <2> QED
      BY <2>1, FS_CardinalityType
  <1>2. /\ order \in [1..n -> S] /\ DOMAIN order = 1..n
        /\ \A id \in S : \E i \in 1..n : order[i] = id
    BY <1>1 DEF Orders
  <1>3. ASSUME NEW i \in 1..n
        PROVE  /\ order[i] \in S /\ r[i] = Push(order[i]) /\ r[i] \in ToDevice
               /\ r[i].kind = "PUSH" /\ r[i].vs_id = order[i] /\ r[i].data = host[order[i]]
    <2>1. order[i] \in S /\ r[i] = Push(order[i])
      BY <1>2
    <2>2. order[i] \in VsIds /\ host[order[i]] \in Data
      BY <2>1
    <2> QED
      BY <2>1, <2>2 DEF Push, ToDevice
  <1>4. DOMAIN r = 1..n
    BY <1>2
  <1>5. r \in [1..n -> ToDevice]
    <2>1. r = [i \in 1..n |-> Push(order[i])]
      BY <1>2
    <2>2. \A i \in 1..n : Push(order[i]) \in ToDevice
      BY <1>3
    <2> QED
      BY <2>1, <2>2
  <1>6. r \in Seq(ToDevice)
    BY <1>1, <1>5, SeqDef
  <1>7. ASSUME NEW x \in VsIds
        PROVE  /\ host[x] # NoData => About(r, x) # {}
               /\ host[x] = NoData => About(r, x) = {}
               /\ \A j \in About(r, x) : r[j].data = host[x]
    BY <1>2, <1>3, <1>4 DEF About
  <1> QED
    BY <1>6, <1>7

LEMMA HostPushKeeps ==
  ASSUME SyncInv, HostPush
  PROVE  SyncInv'
  <1>1. /\ toHost # <<>> /\ Head(toHost) = StartedEvent /\ toHost' = Tail(toHost) /\ backup' = host
        /\ UNCHANGED <<vars, link, host, adrift, touched, ops, boots>>
    BY DEF HostPush
  <1>2. PICK order \in Orders({id \in VsIds : host[id] # NoData}) :
          toDevice' = toDevice \o [i \in DOMAIN order |-> Push(order[i])]
    BY DEF HostPush
  <1>3. PICK r : r = [i \in DOMAIN order |-> Push(order[i])]
    OBVIOUS
  <1>4. /\ toHost \in Seq(ToHost) /\ Tail(toHost) \in Seq(ToHost) /\ toDevice \in Seq(ToDevice)
        /\ host \in [VsIds -> Data \cup {NoData}] /\ Head(toHost) = toHost[1]
    BY <1>1, Queues
  <1>5. /\ r \in Seq(ToDevice)
        /\ \A x \in VsIds : /\ host[x] # NoData => About(r, x) # {}
                            /\ host[x] = NoData => About(r, x) = {}
                            /\ \A j \in About(r, x) : r[j].data = host[x]
    BY <1>3, <1>4, PushedAll
  <1>6. toDevice' = toDevice \o r /\ toDevice' \in Seq(ToDevice)
    BY <1>2, <1>3, <1>4, <1>5, ConcatProperties
  <1>7. ASSUME NEW x \in VsIds
        PROVE  /\ host[x] # NoData => LastSays(toDevice \o r, x, host[x])
               /\ \A v : LastSays(toDevice, x, v) /\ host[x] = NoData => LastSays(toDevice \o r, x, v)
    <2>1. ASSUME host[x] # NoData PROVE LastSays(toDevice \o r, x, host[x])
      <3>1. About(r, x) # {} /\ \A j \in About(r, x) : r[j].data = host[x]
        BY <1>5, <2>1
      <3> QED
        BY <1>4, <1>5, <3>1, SaysOnly
    <2>2. ASSUME host[x] = NoData
          PROVE  \A v : LastSays(toDevice, x, v) => LastSays(toDevice \o r, x, v)
      <3>1. About(r, x) = {}
        BY <1>5, <2>2
      <3> DEFINE all == toDevice \o r
      <3>2. /\ About(all, x) = About(toDevice, x)
            /\ \A v : LastSays(toDevice, x, v) <=> LastSays(all, x, v)
            /\ Waiting(toDevice, x) => Waiting(all, x)
            /\ Starts(toDevice) # {} => Starts(all) # {}
        BY <1>4, <1>5, <3>1, SaysAsBefore
      <3> QED
        BY <3>2
    <2> QED
      BY <2>1, <2>2
  <1>8. IInv' /\ TypeOK' /\ \A x : StoredIn(nvram', x) = StoredIn(nvram, x)
    BY <1>1, NvramKeeps DEF SyncInv
  <1>9. ASSUME NEW x \in VsIds \ adrift
        PROVE  Fits(Tail(toHost), toDevice \o r, link, x, StoredIn(nvram, x), host[x])
    <2>1. Fits(toHost, toDevice, link, x, StoredIn(nvram, x), host[x])
      BY Queues
    <2>2. 1 \notin About(toHost, x)
      BY <1>1, <1>4, MessageKinds DEF About
    <2>3. /\ About(Tail(toHost), x) = {} <=> About(toHost, x) = {}
          /\ \A v : LastSays(toHost, x, v) => LastSays(Tail(toHost), x, v)
      BY <1>1, <1>4, <2>2, OthersBehind
    <2>4. Waiting(toHost, x) => Waiting(Tail(toHost), x) \/ About(toHost, x) = {}
      BY <1>1, <1>4, WaitsBehind
    <2>5. CASE Final(toHost, x, StoredIn(nvram, x), host[x])
      BY <2>3, <2>5 DEF Fits, Final
    <2>6. CASE StoredIn(nvram, x) = NoData /\ (link = "down" \/ Waiting(Tail(toHost), x))
      BY <2>6 DEF Fits
    <2>7. CASE StoredIn(nvram, x) = NoData /\ About(toHost, x) = {}
      <3>1. CASE host[x] = NoData
        BY <2>3, <2>7, <3>1 DEF Fits, Final
      <3>2. CASE host[x] # NoData
        <4>1. LastSays(toDevice \o r, x, host[x])
          BY <1>7, <3>2
        <4> QED
          BY <2>3, <2>7, <4>1 DEF Fits
      <3> QED
        BY <3>1, <3>2
    <2> QED
      BY <2>1, <2>4, <2>5, <2>6, <2>7 DEF Fits
  <1>10. Agreeing'
    BY <1>1, <1>6, <1>8, <1>9, FitsNext
  <1>11. Restoring'
    BY <1>1, <1>6, <1>7, RestoringNext
  <1>12. SyncTypeOK'
    BY <1>1, <1>4, <1>6, <1>8 DEF SyncInv, SyncTypeOK, ToHost, ToDevice
  <1> QED
    BY <1>8, <1>10, <1>11, <1>12 DEF SyncInv

(* The device as it starts: everything is gone. *)
LEMMA FreshDevice ==
  /\ Init => IInv /\ TypeOK
  /\ \A x : StoredIn(<<>>, x) = NoData
  <1>1. Init => IInv /\ TypeOK
    BY InitIsSound DEF IInv
  <1>2. \A x : ~Lists(<<>>, x)
    BY DEF Lists
  <1>3. \A x : StoredIn(<<>>, x) = NoData
    BY <1>2, UnlistedIsEmpty
  <1> QED
    BY <1>1, <1>3

LEMMA RebootKeeps ==
  ASSUME SyncInv, Reboot
  PROVE  SyncInv'
  <1>1. /\ boots < MaxBoots /\ boots' = boots + 1
        /\ nvram' = <<>> /\ free_num' = Num /\ told' = <<>> /\ reply' = Answer("SUCCESS", NoData)
        /\ request' = Call("none", NoData, NoData, 0)
        /\ link' = "down" /\ toDevice' = <<>> /\ adrift' = {} /\ touched' = FALSE
        /\ UNCHANGED <<host, backup, ops>>
    BY DEF Reboot
  <1>2. PICK n \in 0..Len(toHost) : toHost' = SubSeq(toHost, 1, n)
    BY DEF Reboot
  <1>3. toHost' \in Seq(ToHost)
    <2>1. toHost \in Seq(ToHost)
      BY Queues
    <2>2. Len(toHost) \in Nat /\ 1 \in Int /\ n \in Int
      BY <2>1, LenProperties
    <2>3. \A i \in 1..n : toHost[i] \in ToHost
      BY <2>1, <2>2, ElementOfSeq
    <2> QED
      BY <1>2, <2>2, <2>3, SubSeqProperties
  <1>4. Init'
    BY <1>1 DEF Init, Answer, Call
  <1>5. IInv' /\ TypeOK'
    BY <1>4, FreshDevice, PTL
  <1>6. Agreeing'
    BY <1>1, FreshDevice, FitsNext DEF Fits
  <1>7. Restoring'
    BY <1>1 DEF Restoring
  <1>8. SyncTypeOK'
    <2>1. boots' \in 0..MaxBoots
      BY <1>1, HostSyncAssumption DEF SyncInv, SyncTypeOK
    <2>2. toDevice' \in Seq(ToDevice)
      BY <1>1, EmptySeq
    <2> QED
      BY <1>1, <1>3, <1>5, <2>1, <2>2 DEF SyncInv, SyncTypeOK, ToHost, ToDevice
  <1> QED
    BY <1>5, <1>6, <1>7, <1>8 DEF SyncInv

LEMMA SyncInitIsSound ==
  SyncInit => SyncInv
  <1> SUFFICES ASSUME SyncInit PROVE SyncInv
    OBVIOUS
  <1>1. /\ Init /\ nvram = <<>>
        /\ link = "down" /\ toHost = <<>> /\ toDevice = <<>>
        /\ host = Empty /\ backup = Empty
        /\ adrift = {} /\ touched = FALSE /\ ops = 0 /\ boots = 0
    BY DEF SyncInit, Init
  <1>2. IInv /\ TypeOK /\ \A x : StoredIn(nvram, x) = NoData
    BY <1>1, FreshDevice
  <1>3. <<>> \in Seq(ToHost) /\ <<>> \in Seq(ToDevice)
    BY EmptySeq
  <1>4. Empty \in [VsIds -> Data \cup {NoData}] /\ \A x \in VsIds : Empty[x] = NoData
    BY DEF Empty
  <1>5. SyncTypeOK
    <2>1. ops \in 0..MaxOps /\ boots \in 0..MaxBoots
      BY <1>1, HostSyncAssumption
    <2>2. /\ toHost \in Seq(ToHost) /\ toDevice \in Seq(ToDevice)
          /\ host \in [VsIds -> Data \cup {NoData}] /\ backup \in [VsIds -> Data \cup {NoData}]
      BY <1>1, <1>3, <1>4
    <2>3. link \in {"down", "up"} /\ adrift \in SUBSET VsIds /\ touched \in BOOLEAN
      BY <1>1
    <2> QED
      BY <1>2, <2>1, <2>2, <2>3 DEF SyncTypeOK, ToHost, ToDevice
  <1>6. Agreeing
    BY <1>1, <1>2, FitsNow DEF Fits
  <1>7. Restoring
    BY <1>1 DEF Restoring
  <1> QED
    BY <1>2, <1>5, <1>6, <1>7 DEF SyncInv

LEMMA SyncStutterKeeps ==
  ASSUME SyncInv, UNCHANGED syncVars
  PROVE  SyncInv'
  <1>1. UNCHANGED <<vars, link, toHost, toDevice, host, adrift, backup, touched, ops, boots>>
    BY DEF syncVars, channel
  <1>2. IInv' /\ TypeOK' /\ \A x : StoredIn(nvram', x) = StoredIn(nvram, x)
    BY <1>1, NvramKeeps DEF SyncInv
  <1>3. Agreeing' /\ Restoring'
    BY <1>1, <1>2, FitsNow, FitsNext, RestoringNow, RestoringNext DEF SyncInv, vars
  <1>4. SyncTypeOK'
    BY <1>1, <1>2 DEF SyncInv, SyncTypeOK
  <1> QED
    BY <1>2, <1>3, <1>4 DEF SyncInv

LEMMA SyncInvHolds ==
  SyncSpec => []SyncInv
  <1>1. SyncInv /\ [SyncNext]_syncVars => SyncInv'
    BY AppCallKeeps, StartKeeps, RxPushKeeps, HostRecordKeeps, HostPushKeeps, RebootKeeps,
       SyncStutterKeeps DEF SyncNext
  <1> QED
    BY <1>1, SyncInitIsSound, PTL DEF SyncSpec

-----------------------------------------------------------------------------
(* Theorems. *)

(* The queues, the host's copy and the list are what their declarations    *)
(* say, however long the queues grow.                                      *)
THEOREM SyncTyped ==
  SyncSpec => []SyncTypeOK
  <1>1. SyncInv => SyncTypeOK
    BY DEF SyncInv
  <1> QED
    BY <1>1, SyncInvHolds, PTL

(* Once nothing is on the way, device and host agree about every section   *)
(* whose last event the transport accepted: pushes that cross events,      *)
(* echoes of pushes and restarts in between do not leave them apart.       *)
THEOREM HostInSync ==
  SyncSpec => []InSync
  <1>1. SyncInv => InSync
    <2>1. SUFFICES ASSUME SyncInv, Quiescent, NEW id \in VsIds \ adrift
                   PROVE  host[id] = Stored(id)
      BY DEF InSync
    <2>2. link = "up" /\ toHost = <<>> /\ toDevice = <<>>
      BY <2>1 DEF Quiescent
    <2>3. Fits(toHost, toDevice, link, id, Stored(id), host[id])
      BY <2>1 DEF SyncInv, Agreeing
    <2> QED
      BY <2>2, <2>3, SaysNothing DEF Fits, Final, Waiting
  <1> QED
    BY <1>1, SyncInvHolds, PTL

(* The RAM that a restart empties is filled again: a device that the       *)
(* application left alone holds what the host had when it answered, except *)
(* sections for which the pool has no block any more.                      *)
THEOREM HostRestored ==
  SyncSpec => []Restored
  <1>1. SyncInv => Restored
    <2>1. SUFFICES ASSUME SyncInv, Quiescent, ~touched, NEW id \in VsIds
                   PROVE  \/ backup[id] = NoData
                          \/ Stored(id) = backup[id]
                          \/ Fitting(EntrySize(backup[id])) = {}
      BY DEF Restored
    <2>2. link = "up" /\ toHost = <<>> /\ toDevice = <<>>
      BY <2>1 DEF Quiescent
    <2> QED
      BY <2>1, <2>2, SaysNothing DEF SyncInv, Restoring
  <1> QED
    BY <1>1, SyncInvHolds, PTL

==============================================================================
