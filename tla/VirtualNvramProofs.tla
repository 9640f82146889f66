------------------------- MODULE VirtualNvramProofs --------------------------
(***************************************************************************)
(* Proofs about VirtualNvram, for any sections, byte strings and pool.     *)
(* Each call changes the list in one of three ways: an entry is added at   *)
(* the head, unlinked, or overwritten.  Three lemmas say what each of them *)
(* does to a good list and to what its sections hold; everything else      *)
(* follows from them.                                                      *)
(***************************************************************************)
EXTENDS VirtualNvram, SequenceTheorems, TLAPS

(* What UniqueIds and EntriesFit say, of any list. *)
Good(list) ==
  /\ list \in Seq(Entries)
  /\ \A i, j \in DOMAIN list : list[i].vs_id = list[j].vs_id => i = j
  /\ \A i \in DOMAIN list : HeaderSize + DataLen[list[i].data] <= Size[list[i].cat]

Lists(list, id) == \E i \in DOMAIN list : list[i].vs_id = id

(* What Stored says, of any list. *)
StoredIn(list, id) ==
  LET of == {i \in DOMAIN list : list[i].vs_id = id}
  IN  IF of # {} THEN list[CHOOSE i \in of : \A j \in of : i <= j].data ELSE NoData

LEMMA StoredNow == \A id : Stored(id) = StoredIn(nvram, id)
  BY DEF Stored, Found, First, Of, StoredIn

LEMMA StoredNext == \A id : Stored(id)' = StoredIn(nvram', id)
  BY DEF Stored, Found, First, Of, StoredIn

LEMMA ConstantTypes ==
  /\ DataLen \in [Data -> Nat \ {0}]
  /\ Cats = 1..Len(Num) /\ Len(Num) \in Nat /\ Num \in [Cats -> Nat \ {0}]
  /\ Size \in [Cats -> Nat]
  /\ NoData \notin Data
  <1>1. Num \in Seq(Nat \ {0})
    BY VirtualNvramAssumption DEF VirtualNvramAssumption
  <1>2. Len(Num) \in Nat /\ Num \in [1..Len(Num) -> Nat \ {0}] /\ DOMAIN Num = 1..Len(Num)
    BY <1>1, LenProperties
  <1> QED
    BY <1>2, VirtualNvramAssumption DEF VirtualNvramAssumption, Cats

(* On a good list a section is where it is listed. *)
LEMMA ListedIsStored ==
  ASSUME NEW list, Good(list), NEW i \in DOMAIN list
  PROVE  StoredIn(list, list[i].vs_id) = list[i].data
  <1> DEFINE of == {j \in DOMAIN list : list[j].vs_id = list[i].vs_id}
  <1>1. of = {i}
    BY DEF Good
  <1>2. i <= i
    <2>1. DOMAIN list = 1..Len(list) /\ Len(list) \in Nat
      BY LenProperties DEF Good
    <2> QED
      BY <2>1
  <1>3. (CHOOSE k \in of : \A j \in of : k <= j) = i
    BY <1>1, <1>2
  <1> QED
    BY <1>1, <1>3 DEF StoredIn

LEMMA UnlistedIsEmpty ==
  ASSUME NEW list, NEW id, ~Lists(list, id)
  PROVE  StoredIn(list, id) = NoData
  BY DEF StoredIn, Lists

LEMMA ListedHoldsData ==
  ASSUME NEW list, Good(list), NEW id, Lists(list, id)
  PROVE  StoredIn(list, id) \in Data
  <1>1. PICK i \in DOMAIN list : list[i].vs_id = id
    BY DEF Lists
  <1>2. list[i] \in Entries
    BY LenProperties, ElementOfSeq DEF Good
  <1> QED
    BY <1>1, <1>2, ListedIsStored DEF Entries

-----------------------------------------------------------------------------
(* The three ways. *)

LEMMA Adding ==
  ASSUME NEW list, Good(list), NEW id \in VsIds, ~Lists(list, id),
         NEW d \in Data, NEW c \in Cats, HeaderSize + DataLen[d] <= Size[c]
  PROVE  /\ Good(<<Entry(id, d, c)>> \o list)
         /\ \A x : StoredIn(<<Entry(id, d, c)>> \o list, x)
                     = IF x = id THEN d ELSE StoredIn(list, x)
  <1> DEFINE e == Entry(id, d, c)
             new == <<e>> \o list
  <1>1. e \in Entries /\ e.vs_id = id /\ e.data = d /\ e.cat = c
    BY DEF Entry, Entries
  <1>2. list \in Seq(Entries) /\ Len(list) \in Nat /\ DOMAIN list = 1..Len(list)
    BY LenProperties DEF Good
  <1>3. <<e>> \in Seq(Entries) /\ Len(<<e>>) = 1 /\ <<e>>[1] = e
    BY <1>1
  <1> HIDE DEF e
  <1>4. /\ new \in Seq(Entries) /\ Len(new) = Len(list) + 1
        /\ \A i \in 1..(Len(list) + 1) : new[i] = IF i <= 1 THEN <<e>>[i] ELSE list[i - 1]
    BY <1>2, <1>3, ConcatProperties
  <1>5. DOMAIN new = 1..(Len(list) + 1)
    BY <1>4, LenProperties
  <1> HIDE DEF new
  <1>6. new[1] = e /\ 1 \in DOMAIN new
    BY <1>2, <1>3, <1>4, <1>5
  <1>7. \A i \in DOMAIN new : i # 1 => i - 1 \in DOMAIN list /\ new[i] = list[i - 1]
    BY <1>2, <1>4, <1>5
  <1>8. \A i \in DOMAIN list : i + 1 \in DOMAIN new /\ new[i + 1] = list[i]
    BY <1>2, <1>4, <1>5
  <1>9. \A i \in DOMAIN list : list[i].vs_id # id
    BY DEF Lists
  <1>10. Good(new)
    <2>1. ASSUME NEW i \in DOMAIN new, NEW j \in DOMAIN new, new[i].vs_id = new[j].vs_id
          PROVE  i = j
      <3>1. CASE i = 1 \/ j = 1
        BY <2>1, <3>1, <1>1, <1>6, <1>7, <1>9
      <3>2. CASE i # 1 /\ j # 1
        <4>1. i - 1 = j - 1
          BY <2>1, <3>2, <1>7 DEF Good
        <4> QED
          BY <4>1, <1>2, <1>5
      <3> QED
        BY <3>1, <3>2
    <2>2. ASSUME NEW i \in DOMAIN new
          PROVE  HeaderSize + DataLen[new[i].data] <= Size[new[i].cat]
      <3>1. CASE i = 1
        BY <3>1, <1>1, <1>6
      <3>2. CASE i # 1
        BY <3>2, <1>7 DEF Good
      <3> QED
        BY <3>1, <3>2
    <2> QED
      BY <1>4, <2>1, <2>2 DEF Good
  <1>11. ASSUME NEW x
         PROVE  StoredIn(new, x) = IF x = id THEN d ELSE StoredIn(list, x)
    <2>1. CASE x = id
      BY <2>1, <1>1, <1>6, <1>10, ListedIsStored
    <2>2. CASE x # id /\ Lists(list, x)
      <3>1. PICK i \in DOMAIN list : list[i].vs_id = x
        BY <2>2 DEF Lists
      <3>2. StoredIn(list, x) = list[i].data
        BY <3>1, ListedIsStored
      <3>3. StoredIn(new, x) = new[i + 1].data
        BY <3>1, <1>8, <1>10, ListedIsStored
      <3> QED
        BY <2>2, <3>2, <3>3, <1>8
    <2>3. CASE x # id /\ ~Lists(list, x)
      <3>1. ~Lists(new, x)
        BY <2>3, <1>1, <1>6, <1>7 DEF Lists
      <3> QED
        BY <2>3, <3>1, UnlistedIsEmpty
    <2> QED
      BY <2>1, <2>2, <2>3
  <1> QED
    BY <1>10, <1>11 DEF new, e

LEMMA Removing ==
  ASSUME NEW list, Good(list), NEW k \in DOMAIN list,
         NEW new, new = [j \in 1..(Len(list) - 1) |-> IF j < k THEN list[j] ELSE list[j + 1]]
  PROVE  /\ Good(new)
         /\ ~Lists(new, list[k].vs_id)
         /\ \A x : StoredIn(new, x) = IF x = list[k].vs_id THEN NoData ELSE StoredIn(list, x)
  <1> DEFINE id == list[k].vs_id
             at(j) == IF j < k THEN j ELSE j + 1
  <1>1. /\ list \in Seq(Entries) /\ Len(list) \in Nat /\ DOMAIN list = 1..Len(list)
        /\ list \in [1..Len(list) -> Entries] /\ Len(list) - 1 \in Nat
    BY LenProperties DEF Good
  <1>2. DOMAIN new = 1..(Len(list) - 1)
    OBVIOUS
  <1>3. \A j \in DOMAIN new : at(j) \in DOMAIN list /\ at(j) # k /\ new[j] = list[at(j)]
    BY <1>1, <1>2
  <1>4. \A i, j \in DOMAIN new : at(i) = at(j) => i = j
    BY <1>1, <1>2
  <1>5. \A i \in DOMAIN list : i # k => \E j \in DOMAIN new : at(j) = i
    <2>1. SUFFICES ASSUME NEW i \in DOMAIN list, i # k
                   PROVE  \E j \in DOMAIN new : at(j) = i
      OBVIOUS
    <2>2. CASE i < k
      <3>1. i \in DOMAIN new /\ at(i) = i
        BY <1>1, <1>2, <2>2
      <3> QED
        BY <3>1
    <2>3. CASE i > k
      <3>1. i - 1 \in DOMAIN new /\ at(i - 1) = i
        BY <1>1, <1>2, <2>3
      <3> QED
        BY <3>1
    <2> QED
      BY <1>1, <2>1, <2>2, <2>3
  <1>6. new \in Seq(Entries)
    <2>1. new \in [1..(Len(list) - 1) -> Entries]
      BY <1>1
    <2> QED
      BY <1>1, <2>1, SeqDef
  <1> HIDE DEF at
  <1>7. Good(new)
    <2>1. ASSUME NEW i \in DOMAIN new, NEW j \in DOMAIN new, new[i].vs_id = new[j].vs_id
          PROVE  i = j
      BY <2>1, <1>3, <1>4 DEF Good
    <2>2. ASSUME NEW i \in DOMAIN new
          PROVE  HeaderSize + DataLen[new[i].data] <= Size[new[i].cat]
      BY <1>3 DEF Good
    <2> QED
      BY <1>6, <2>1, <2>2 DEF Good
  <1>8. ~Lists(new, id)
    BY <1>3 DEF Good, Lists
  <1>9. ASSUME NEW x
        PROVE  StoredIn(new, x) = IF x = id THEN NoData ELSE StoredIn(list, x)
    <2>1. CASE x = id
      BY <1>8, <2>1, UnlistedIsEmpty
    <2>2. CASE x # id /\ Lists(list, x)
      <3>1. PICK i \in DOMAIN list : list[i].vs_id = x
        BY <2>2 DEF Lists
      <3>2. PICK j \in DOMAIN new : at(j) = i
        BY <2>2, <3>1, <1>5
      <3>3. new[j] = list[i]
        BY <1>3, <3>2
      <3>4. StoredIn(new, new[j].vs_id) = new[j].data
        BY <1>7, ListedIsStored
      <3>5. StoredIn(list, list[i].vs_id) = list[i].data
        BY ListedIsStored
      <3> QED
        BY <2>2, <3>1, <3>3, <3>4, <3>5
    <2>3. CASE x # id /\ ~Lists(list, x)
      <3>1. ~Lists(new, x)
        BY <1>3, <2>3 DEF Lists
      <3> QED
        BY <2>3, <3>1, UnlistedIsEmpty
    <2> QED
      BY <2>1, <2>2, <2>3
  <1> QED
    BY <1>7, <1>8, <1>9

Overwritten(list, k, d) == [list EXCEPT ![k] = Entry(list[k].vs_id, d, list[k].cat)]

LEMMA Overwriting ==
  ASSUME NEW list, Good(list), NEW k \in DOMAIN list, NEW d \in Data,
         DataLen[list[k].data] = DataLen[d]
  PROVE  /\ Good(Overwritten(list, k, d))
         /\ \A x : StoredIn(Overwritten(list, k, d), x)
                     = IF x = list[k].vs_id THEN d ELSE StoredIn(list, x)
  <1> DEFINE id == list[k].vs_id
             new == Overwritten(list, k, d)
  <1>1. /\ list \in Seq(Entries) /\ Len(list) \in Nat /\ DOMAIN list = 1..Len(list)
        /\ list \in [1..Len(list) -> Entries]
    BY LenProperties DEF Good
  <1>2. new \in [1..Len(list) -> Entries] /\ DOMAIN new = DOMAIN list
    BY <1>1 DEF Entries, Entry, Overwritten
  <1>3. \A i \in DOMAIN list : /\ new[i].vs_id = list[i].vs_id /\ new[i].cat = list[i].cat
                               /\ new[i].data = IF i = k THEN d ELSE list[i].data
    BY <1>1 DEF Entries, Entry, Overwritten
  <1>4. new \in Seq(Entries)
    BY <1>1, <1>2, SeqDef
  <1> HIDE DEF id, new
  <1>5. Good(new)
    <2>1. \A i, j \in DOMAIN new : new[i].vs_id = new[j].vs_id => i = j
      BY <1>2, <1>3 DEF Good
    <2>2. ASSUME NEW i \in DOMAIN new
          PROVE  HeaderSize + DataLen[new[i].data] <= Size[new[i].cat]
      BY <1>2, <1>3 DEF Good
    <2> QED
      BY <1>4, <2>1, <2>2 DEF Good
  <1>6. ASSUME NEW x
        PROVE  StoredIn(new, x) = IF x = id THEN d ELSE StoredIn(list, x)
    <2>1. CASE Lists(list, x)
      <3>1. PICK i \in DOMAIN list : list[i].vs_id = x
        BY <2>1 DEF Lists
      <3>2. StoredIn(list, list[i].vs_id) = list[i].data
        BY ListedIsStored
      <3>3. StoredIn(new, new[i].vs_id) = new[i].data
        BY <1>2, <1>5, ListedIsStored
      <3>4. x = id <=> i = k
        BY <3>1 DEF Good, id
      <3> QED
        BY <3>1, <3>2, <3>3, <3>4, <1>3
    <2>2. CASE ~Lists(list, x)
      <3>1. ~Lists(new, x) /\ x # id
        BY <2>2, <1>2, <1>3 DEF Lists, id
      <3> QED
        BY <2>2, <3>1, UnlistedIsEmpty
    <2> QED
      BY <2>1, <2>2
  <1> QED
    BY <1>5, <1>6 DEF id, new

-----------------------------------------------------------------------------
(* What the sections of a list hold, and the inductive invariant. *)

Holds(list) == [x \in VsIds |-> StoredIn(list, x)]

IInv == TypeOK /\ UniqueIds /\ EntriesFit

LEMMA GoodIsInvariant == IInv => Good(nvram)
  BY DEF IInv, TypeOK, UniqueIds, EntriesFit, Good

LEMMA GoodGivesInvariant == TypeOK' /\ Good(nvram') => IInv'
  BY DEF IInv, UniqueIds, EntriesFit, Good

LEMMA FoundIsListed == \A id : Found(id) <=> Lists(nvram, id)
  BY DEF Found, Of, Lists

(* The first entry of a section is one of its entries. *)
LEMMA FirstIsOf ==
  ASSUME Good(nvram), NEW id, Found(id)
  PROVE  First(id) \in DOMAIN nvram /\ nvram[First(id)].vs_id = id
  <1>1. PICK i \in DOMAIN nvram : nvram[i].vs_id = id
    BY DEF Found, Of
  <1>2. Of(id) = {i}
    BY <1>1 DEF Of, Good
  <1>3. i <= i
    <2>1. DOMAIN nvram = 1..Len(nvram) /\ Len(nvram) \in Nat
      BY LenProperties DEF Good
    <2> QED
      BY <2>1
  <1>4. First(id) = i
    BY <1>2, <1>3 DEF First
  <1> QED
    BY <1>1, <1>4

(* A block is taken from one category, and none goes below zero. *)
LEMMA TakingIsTyped ==
  ASSUME TypeOK, NEW n, NEW c \in Cats, Take(n, c)
  PROVE  free_num' \in [Cats -> Nat] /\ \A x \in Cats : free_num'[x] <= Num[x]
  <1>1. free_num \in [Cats -> Nat] /\ \A x \in Cats : free_num[x] <= Num[x]
    BY DEF TypeOK
  <1>2. free_num[c] > 0 /\ free_num' = [free_num EXCEPT ![c] = @ - 1]
    BY DEF Take, Fitting
  <1>3. \A x \in Cats : free_num'[x] = IF x = c THEN free_num[x] - 1 ELSE free_num[x]
    BY <1>1, <1>2
  <1>4. Num \in [Cats -> Nat]
    BY ConstantTypes
  <1>5. ASSUME NEW x \in Cats PROVE free_num'[x] \in Nat /\ free_num'[x] <= Num[x]
    <2>1. free_num[x] \in Nat /\ Num[x] \in Nat /\ free_num[x] <= Num[x]
      BY <1>1, <1>4
    <2>2. free_num'[x] = free_num[x] \/ (free_num'[x] = free_num[x] - 1 /\ free_num[x] > 0)
      BY <1>2, <1>3
    <2> QED
      BY <2>1, <2>2
  <1> QED
    BY <1>1, <1>2, <1>5

LEMMA RepliesAreTyped ==
  /\ \A s \in {"SUCCESS", "BADARG", "NO_MEMORY"}, d \in Data \cup {NoData} :
       /\ Answer(s, d) \in [status : {"SUCCESS", "BADARG", "NO_MEMORY"}, data : Data \cup {NoData}]
       /\ Answer(s, d).status = s /\ Answer(s, d).data = d
  /\ \A id \in VsIds, d \in Data : WriteEvent(id, d) \in Events /\ DeleteEvent(id) \in Events
  BY DEF Answer, Events, WriteEvent, DeleteEvent

LEMMA CallsAreTyped ==
  ASSUME VirtualNvramAssumption
  PROVE  /\ \A o \in {"none", "write", "read", "delete"}, id \in VsIds \cup {NoData},
              d \in Data \cup {NoData}, n \in Nat : Call(o, id, d, n) \in Calls
         /\ \A id \in VsIds, d \in Data : Call("write", id, d, DataLen[d]) \in Calls
         /\ \A id \in VsIds, n \in Lengths : Call("read", id, NoData, n) \in Calls
  BY DEF Call, Calls, VirtualNvramAssumption

-----------------------------------------------------------------------------
(* The end of a write: the entry is added, or nothing is. *)

LEMMA AddingTells ==
  ASSUME TypeOK, NEW list, Good(list), NEW id \in VsIds, NEW d \in Data, ~Lists(list, id),
         NEW sent \in Seq(Events), Len(sent) <= 1, AddTo(list, sent, id, d), request' \in Calls
  PROVE  /\ TypeOK' /\ Good(nvram')
         /\ \/ /\ reply' = Answer("SUCCESS", NoData)
               /\ \A x : StoredIn(nvram', x) = IF x = id THEN d ELSE StoredIn(list, x)
               /\ told' # <<>> /\ told'[Len(told')] = WriteEvent(id, d)
            \/ /\ reply' = Answer("NO_MEMORY", NoData)
               /\ nvram' = list /\ told' = sent
  <1>1. CASE \E c \in Cats : /\ Take(EntrySize(d), c) /\ nvram' = <<Entry(id, d, c)>> \o list
                            /\ told' = Append(sent, WriteEvent(id, d))
                            /\ reply' = Answer("SUCCESS", NoData)
    <2>1. PICK c \in Cats : /\ Take(EntrySize(d), c) /\ nvram' = <<Entry(id, d, c)>> \o list
                            /\ told' = Append(sent, WriteEvent(id, d))
                            /\ reply' = Answer("SUCCESS", NoData)
      BY <1>1
    <2>2. HeaderSize + DataLen[d] <= Size[c]
      <3>1. DataLen[d] \in Nat /\ Size[c] \in Nat
        BY ConstantTypes
      <3>2. Size[c] >= EntrySize(d)
        BY <2>1 DEF Take, Fitting
      <3> QED
        BY <3>1, <3>2 DEF EntrySize, StructSize, HeaderSize
    <2>3. /\ Good(nvram')
          /\ \A x : StoredIn(nvram', x) = IF x = id THEN d ELSE StoredIn(list, x)
      BY <2>1, <2>2, Adding
    <2>4. told' \in Seq(Events) /\ Len(told') = Len(sent) + 1 /\ told'[Len(told')] = WriteEvent(id, d)
      BY <2>1, RepliesAreTyped, AppendProperties, LenProperties
    <2>5. Len(sent) \in Nat
      BY LenProperties
    <2>6. told' # <<>> /\ Len(told') <= 2
      BY <2>4, <2>5, EmptySeq
    <2>7. nvram' \in Seq(Entries)
      BY <2>3 DEF Good
    <2>8. TypeOK'
      BY <2>1, <2>4, <2>6, <2>7, TakingIsTyped, RepliesAreTyped DEF TypeOK
    <2> QED
      BY <2>1, <2>3, <2>4, <2>6, <2>8
  <1>2. CASE /\ nvram' = list /\ told' = sent
             /\ reply' = Answer("NO_MEMORY", NoData) /\ UNCHANGED free_num
    <2>1. TypeOK'
      <3>1. list \in Seq(Entries)
        BY DEF Good
      <3>2. Len(sent) <= 2
        BY LenProperties
      <3> QED
        BY <1>2, <3>1, <3>2, RepliesAreTyped DEF TypeOK
    <2> QED
      BY <1>2, <2>1
  <1> QED
    BY <1>1, <1>2 DEF AddTo

-----------------------------------------------------------------------------
(* The steps, as NvramStore sees them. *)

LEMMA StoreIsHolds ==
  /\ [x \in VsIds |-> Stored(x)] = Holds(nvram)
  /\ [x \in VsIds |-> Stored(x)]' = Holds(nvram')
  BY StoredNow, StoredNext DEF Holds

(* What each action of the map is, in terms of the list. *)
LEMMA StoreActions ==
  ASSUME NEW id \in VsIds
  PROVE  /\ \A d \in Data :
              /\ Store!Put(id, d) <=>
                   /\ request' = Call("write", id, d, DataLen[d])
                   /\ Holds(nvram') = [Holds(nvram) EXCEPT ![id] = d]
                   /\ reply' = Answer("SUCCESS", NoData)
              /\ Store!PutFails(id, d) <=>
                   /\ request' = Call("write", id, d, DataLen[d])
                   /\ \/ Holds(nvram') = Holds(nvram)
                      \/ /\ Holds(nvram)[id] # NoData
                         /\ DataLen[Holds(nvram)[id]] # DataLen[d]
                         /\ Holds(nvram') = [Holds(nvram) EXCEPT ![id] = NoData]
                   /\ reply' = Answer("NO_MEMORY", NoData)
         /\ \A n : Store!Get(id, n) <=>
              /\ request' = Call("read", id, NoData, n)
              /\ reply' = IF Holds(nvram)[id] # NoData /\ DataLen[Holds(nvram)[id]] <= n
                          THEN Answer("SUCCESS", Holds(nvram)[id]) ELSE Answer("BADARG", NoData)
              /\ Holds(nvram') = Holds(nvram)
         /\ Store!Remove(id) <=>
              /\ request' = Call("delete", id, NoData, 0)
              /\ Holds(nvram') = [Holds(nvram) EXCEPT ![id] = NoData]
              /\ \E s \in {"SUCCESS", "BADARG"} : reply' = Answer(s, NoData)
         /\ \A o : Store!Refuse(o, id) <=>
              /\ request' = Call(o, id, NoData, 0)
              /\ reply' = Answer("BADARG", NoData)
              /\ Holds(nvram') = Holds(nvram)
  BY StoreIsHolds
     DEF Store!Put, Store!PutFails, Store!Get, Store!Remove, Store!Refuse,
         Store!Call, Store!Answer, Call, Answer

LEMMA StoreNext ==
  /\ \A id \in VsIds, d \in Data : Store!Put(id, d) \/ Store!PutFails(id, d) => Store!Next
  /\ \A id \in VsIds, n \in Lengths : Store!Get(id, n) => Store!Next
  /\ \A id \in VsIds : Store!Remove(id) => Store!Next
  /\ \A id \in VsIds : Store!Refuse("read", id) \/ Store!Refuse("write", id) => Store!Next
  BY DEF Store!Next

(* The same for the calls of the list: which of them the map answers so.   *)
LEMMA StoreSteps ==
  ASSUME NEW id \in VsIds
  PROVE  /\ \A d \in Data :
              /\ request' = Call("write", id, d, DataLen[d])
              /\ Holds(nvram') = [Holds(nvram) EXCEPT ![id] = d]
              /\ reply' = Answer("SUCCESS", NoData)
              => Store!Next
         /\ \A d \in Data :
              /\ request' = Call("write", id, d, DataLen[d])
              /\ \/ Holds(nvram') = Holds(nvram)
                 \/ /\ StoredIn(nvram, id) # NoData
                    /\ DataLen[StoredIn(nvram, id)] # DataLen[d]
                    /\ Holds(nvram') = [Holds(nvram) EXCEPT ![id] = NoData]
              /\ reply' = Answer("NO_MEMORY", NoData)
              => Store!Next
         /\ \A n \in Lengths :
              /\ request' = Call("read", id, NoData, n)
              /\ reply' = IF StoredIn(nvram, id) # NoData /\ DataLen[StoredIn(nvram, id)] <= n
                          THEN Answer("SUCCESS", StoredIn(nvram, id)) ELSE Answer("BADARG", NoData)
              /\ Holds(nvram') = Holds(nvram)
              => Store!Next
         /\ /\ request' = Call("delete", id, NoData, 0)
            /\ Holds(nvram') = [Holds(nvram) EXCEPT ![id] = NoData]
            /\ reply' = Answer("BADARG", NoData)
            => Store!Next
         /\ \A o \in {"read", "write"} :
              /\ request' = Call(o, id, NoData, 0)
              /\ reply' = Answer("BADARG", NoData)
              /\ Holds(nvram') = Holds(nvram)
              => Store!Next
  <1> DEFINE h == Holds(nvram)
             hn == Holds(nvram')
  <1>1. h[id] = StoredIn(nvram, id)
    BY DEF Holds
  <1> HIDE DEF h, hn
  <1>2. ASSUME NEW d \in Data, request' = Call("write", id, d, DataLen[d]),
               hn = [h EXCEPT ![id] = d], reply' = Answer("SUCCESS", NoData)
        PROVE  Store!Next
    <2>1. Store!Put(id, d)
      BY <1>2, StoreActions DEF h, hn
    <2> QED
      BY <2>1, StoreNext
  <1>3. ASSUME NEW d \in Data, request' = Call("write", id, d, DataLen[d]),
               \/ hn = h
               \/ /\ StoredIn(nvram, id) # NoData
                  /\ DataLen[StoredIn(nvram, id)] # DataLen[d]
                  /\ hn = [h EXCEPT ![id] = NoData],
               reply' = Answer("NO_MEMORY", NoData)
        PROVE  Store!Next
    <2>1. \/ hn = h
          \/ h[id] # NoData /\ DataLen[h[id]] # DataLen[d] /\ hn = [h EXCEPT ![id] = NoData]
      BY <1>1, <1>3
    <2>2. Store!PutFails(id, d)
      BY <1>3, <2>1, StoreActions DEF h, hn
    <2> QED
      BY <2>2, StoreNext
  <1>4. ASSUME NEW n \in Lengths, request' = Call("read", id, NoData, n),
               reply' = IF StoredIn(nvram, id) # NoData /\ DataLen[StoredIn(nvram, id)] <= n
                        THEN Answer("SUCCESS", StoredIn(nvram, id)) ELSE Answer("BADARG", NoData),
               hn = h
        PROVE  Store!Next
    <2>1. reply' = IF h[id] # NoData /\ DataLen[h[id]] <= n
                   THEN Answer("SUCCESS", h[id]) ELSE Answer("BADARG", NoData)
      BY <1>1, <1>4
    <2>2. Store!Get(id, n)
      BY <1>4, <2>1, StoreActions DEF h, hn
    <2> QED
      BY <2>2, StoreNext
  <1>5. ASSUME request' = Call("delete", id, NoData, 0), hn = [h EXCEPT ![id] = NoData],
               reply' = Answer("BADARG", NoData)
        PROVE  Store!Next
    <2>1. Store!Remove(id)
      BY <1>5, StoreActions DEF h, hn
    <2> QED
      BY <2>1, StoreNext
  <1>6. ASSUME NEW o \in {"read", "write"}, request' = Call(o, id, NoData, 0),
               reply' = Answer("BADARG", NoData), hn = h
        PROVE  Store!Next
    <2>1. Store!Refuse(o, id)
      BY <1>6, StoreActions DEF h, hn
    <2> QED
      BY <2>1, StoreNext
  <1> QED
    BY <1>2, <1>3, <1>4, <1>5, <1>6 DEF h, hn

(* Changing one section changes the map at it and nowhere else. *)
LEMMA OneSectionChanges ==
  ASSUME NEW id \in VsIds, NEW d,
         \A x : StoredIn(nvram', x) = IF x = id THEN d ELSE StoredIn(nvram, x)
  PROVE  /\ Holds(nvram') = [Holds(nvram) EXCEPT ![id] = d]
         /\ (/\ told' # <<>> /\ told'[Len(told')].vs_id = id
             /\ told'[Len(told')].data = d) => ChangeIsTold
  <1>1. Holds(nvram') = [Holds(nvram) EXCEPT ![id] = d]
    BY DEF Holds
  <1>2. ASSUME told' # <<>>, told'[Len(told')].vs_id = id, told'[Len(told')].data = d
        PROVE  ChangeIsTold
    BY <1>2, StoredNow, StoredNext DEF ChangeIsTold
  <1> QED
    BY <1>1, <1>2

LEMMA NoSectionChanges ==
  ASSUME nvram' = nvram
  PROVE  Holds(nvram') = Holds(nvram) /\ ChangeIsTold
  BY StoredNow, StoredNext DEF ChangeIsTold

(* A call that leaves the list and the pool alone, and tells nobody. *)
LEMMA QuietStepIsTyped ==
  ASSUME TypeOK, UNCHANGED <<nvram, free_num>>, told' = <<>>, request' \in Calls,
         NEW s \in {"SUCCESS", "BADARG", "NO_MEMORY"}, NEW d \in Data \cup {NoData},
         reply' = Answer(s, d)
  PROVE  TypeOK'
  <1>1. told' \in Seq(Events) /\ Len(told') <= 2
    BY EmptySeq
  <1> QED
    BY <1>1, RepliesAreTyped DEF TypeOK

(* What is proved of every step. *)
Sound == TypeOK' /\ Good(nvram') /\ ChangeIsTold /\ [Store!Next]_(Store!vars)

LEMMA ReadsAreSound ==
  ASSUME IInv, NEW id \in VsIds, NEW n \in Lengths, Read(id, n)
  PROVE  Sound
  <1>1. Good(nvram) /\ TypeOK /\ UNCHANGED <<nvram, free_num>> /\ told' = <<>>
        /\ request' = Call("read", id, NoData, n)
    BY GoodIsInvariant DEF IInv, Read
  <1>2. Holds(nvram') = Holds(nvram) /\ ChangeIsTold /\ Good(nvram')
    BY <1>1, NoSectionChanges
  <1>3. Found(id) <=> StoredIn(nvram, id) # NoData
    BY <1>1, FoundIsListed, ListedHoldsData, UnlistedIsEmpty, ConstantTypes
  <1>4. Found(id) => StoredIn(nvram, id) \in Data
    BY <1>1, FoundIsListed, ListedHoldsData
  <1>5. Found(id) => (n >= DataLen[StoredIn(nvram, id)] <=> DataLen[StoredIn(nvram, id)] <= n)
    OBVIOUS
  <1>6. reply' = IF StoredIn(nvram, id) # NoData /\ DataLen[StoredIn(nvram, id)] <= n
                 THEN Answer("SUCCESS", StoredIn(nvram, id)) ELSE Answer("BADARG", NoData)
    BY <1>3, <1>5, StoredNow DEF Read
  <1>7. Store!Next
    BY <1>1, <1>2, <1>6, StoreSteps
  <1>8. request' \in Calls
    BY <1>1, CallsAreTyped, VirtualNvramAssumption
  <1>9. TypeOK'
    BY <1>1, <1>3, <1>4, <1>6, <1>8, QuietStepIsTyped
  <1> QED
    BY <1>2, <1>7, <1>9 DEF Sound

LEMMA BadArgIsSound ==
  ASSUME IInv, NEW id \in VsIds, NEW o \in {"read", "write"}, BadArg(o, id)
  PROVE  Sound
  <1>1. Good(nvram) /\ TypeOK /\ UNCHANGED <<nvram, free_num>> /\ told' = <<>>
        /\ reply' = Answer("BADARG", NoData) /\ request' = Call(o, id, NoData, 0)
    BY GoodIsInvariant DEF IInv, BadArg
  <1>2. Holds(nvram') = Holds(nvram) /\ ChangeIsTold /\ Good(nvram')
    BY <1>1, NoSectionChanges
  <1>3. Store!Next
    BY <1>1, <1>2, StoreSteps
  <1>4. request' \in Calls
    BY <1>1, CallsAreTyped, VirtualNvramAssumption
  <1>5. TypeOK'
    BY <1>1, <1>4, QuietStepIsTyped
  <1> QED
    BY <1>2, <1>3, <1>5 DEF Sound

LEMMA DeletesAreSound ==
  ASSUME IInv, NEW id \in VsIds, Delete(id)
  PROVE  Sound
  <1>1. Good(nvram) /\ TypeOK /\ UNCHANGED free_num /\ reply' = Answer("BADARG", NoData)
        /\ request' = Call("delete", id, NoData, 0)
    BY GoodIsInvariant DEF IInv, Delete
  <1>4. request' \in Calls
    BY <1>1, CallsAreTyped, VirtualNvramAssumption
  <1>2. CASE Found(id)
    <2>1. nvram' = Without(First(id)) /\ told' = <<DeleteEvent(id)>>
      BY <1>2 DEF Delete
    <2>2. First(id) \in DOMAIN nvram /\ nvram[First(id)].vs_id = id
      BY <1>1, <1>2, FirstIsOf
    <2>3. /\ Good(nvram')
          /\ \A x : StoredIn(nvram', x) = IF x = id THEN NoData ELSE StoredIn(nvram, x)
      BY <1>1, <2>1, <2>2, Removing DEF Without
    <2>4. told'[Len(told')].vs_id = id /\ told'[Len(told')].data = NoData /\ told' # <<>>
      BY <2>1 DEF DeleteEvent
    <2>5. Holds(nvram') = [Holds(nvram) EXCEPT ![id] = NoData] /\ ChangeIsTold
      BY <2>3, <2>4, OneSectionChanges
    <2>6. Store!Next
      BY <1>1, <2>5, StoreSteps
    <2>7. nvram' \in Seq(Entries)
      BY <2>3 DEF Good
    <2>8. told' \in Seq(Events) /\ Len(told') <= 2
      <3>1. DeleteEvent(id) \in Events
        <4>1. DeleteEvent(id).kind \in {"WRITE", "DELETE"} /\ NoData \in Data \cup {NoData}
          BY DEF DeleteEvent
        <4> QED
          BY <4>1 DEF DeleteEvent, Events
      <3> QED
        BY <2>1, <3>1
    <2>9. TypeOK'
      BY <1>1, <1>4, <2>7, <2>8, RepliesAreTyped DEF TypeOK
    <2> QED
      BY <2>3, <2>5, <2>6, <2>9 DEF Sound
  <1>3. CASE ~Found(id)
    <2>1. UNCHANGED nvram /\ told' = <<>>
      BY <1>3 DEF Delete
    <2>2. Holds(nvram') = Holds(nvram) /\ ChangeIsTold /\ Good(nvram')
      BY <1>1, <2>1, NoSectionChanges
    <2>3. StoredIn(nvram, id) = NoData
      BY <1>3, FoundIsListed, UnlistedIsEmpty
    <2>4. Holds(nvram') = [Holds(nvram) EXCEPT ![id] = NoData]
      BY <2>2, <2>3 DEF Holds
    <2>5. Store!Next
      BY <1>1, <2>4, StoreSteps
    <2>6. TypeOK'
      BY <1>1, <1>4, <2>1, QuietStepIsTyped
    <2> QED
      BY <2>2, <2>5, <2>6 DEF Sound
  <1> QED
    BY <1>2, <1>3

LEMMA WritesAreSound ==
  ASSUME IInv, NEW id \in VsIds, NEW d \in Data, Write(id, d)
  PROVE  Sound
  <1>1. Good(nvram) /\ TypeOK
    BY GoodIsInvariant DEF IInv
  <1>2. WriteEvent(id, d).vs_id = id /\ WriteEvent(id, d).data = d
        /\ DeleteEvent(id).vs_id = id /\ DeleteEvent(id).data = NoData
    BY DEF WriteEvent, DeleteEvent
  <1>7. request' = Call("write", id, d, DataLen[d]) /\ request' \in Calls
    BY CallsAreTyped, VirtualNvramAssumption DEF Write
  <1>3. CASE WriteNew(id, d)
    <2>1. ~Lists(nvram, id) /\ AddTo(nvram, <<>>, id, d)
      BY <1>3, FoundIsListed DEF WriteNew
    <2>2. <<>> \in Seq(Events) /\ Len(<<>>) <= 1
      BY EmptySeq
    <2>3. /\ TypeOK' /\ Good(nvram')
          /\ \/ /\ reply' = Answer("SUCCESS", NoData)
                /\ \A x : StoredIn(nvram', x) = IF x = id THEN d ELSE StoredIn(nvram, x)
                /\ told' # <<>> /\ told'[Len(told')] = WriteEvent(id, d)
             \/ reply' = Answer("NO_MEMORY", NoData) /\ nvram' = nvram
      BY <1>1, <2>1, <2>2, <1>7, AddingTells
    <2>4. CASE nvram' = nvram /\ reply' = Answer("NO_MEMORY", NoData)
      BY <2>3, <2>4, NoSectionChanges, <1>7, StoreSteps DEF Sound
    <2>5. CASE /\ \A x : StoredIn(nvram', x) = IF x = id THEN d ELSE StoredIn(nvram, x)
               /\ reply' = Answer("SUCCESS", NoData)
               /\ told' # <<>> /\ told'[Len(told')] = WriteEvent(id, d)
      <3>1. Holds(nvram') = [Holds(nvram) EXCEPT ![id] = d] /\ ChangeIsTold
        BY <1>2, <2>5, OneSectionChanges
      <3>2. Store!Next
        BY <2>5, <3>1, <1>7, StoreSteps
      <3> QED
        BY <2>3, <3>1, <3>2 DEF Sound
    <2> QED
      BY <2>3, <2>4, <2>5
  <1>4. CASE WriteSame(id, d)
    <2>1. UNCHANGED <<nvram, free_num>> /\ told' = <<>> /\ reply' = Answer("SUCCESS", NoData)
      BY <1>4 DEF WriteSame
    <2>2. Holds(nvram') = Holds(nvram) /\ ChangeIsTold /\ Good(nvram')
      BY <1>1, <2>1, NoSectionChanges
    <2>3. Holds(nvram)[id] = d
      BY <1>4, StoredNow DEF WriteSame, Holds
    <2>4. Holds(nvram') = [Holds(nvram) EXCEPT ![id] = d]
      BY <2>2, <2>3 DEF Holds
    <2>5. Store!Next
      BY <2>1, <2>4, <1>7, StoreSteps
    <2>6. TypeOK'
      BY <1>1, <2>1, <1>7, QuietStepIsTyped
    <2> QED
      BY <2>2, <2>5, <2>6 DEF Sound
  <1>5. CASE WriteOver(id, d)
    <2>1. /\ nvram' = [nvram EXCEPT ![First(id)] = Entry(id, d, nvram[First(id)].cat)]
          /\ told' = <<WriteEvent(id, d)>> /\ reply' = Answer("SUCCESS", NoData)
          /\ UNCHANGED free_num /\ Found(id) /\ DataLen[Stored(id)] = DataLen[d]
      BY <1>5 DEF WriteOver
    <2>2. First(id) \in DOMAIN nvram /\ nvram[First(id)].vs_id = id
      BY <1>1, <2>1, FirstIsOf
    <2>3. Stored(id) = nvram[First(id)].data
      BY <2>1 DEF Stored
    <2>4. /\ Good(nvram')
          /\ \A x : StoredIn(nvram', x) = IF x = id THEN d ELSE StoredIn(nvram, x)
      <3>1. DataLen[nvram[First(id)].data] = DataLen[d]
            /\ nvram' = Overwritten(nvram, First(id), d)
        BY <2>1, <2>2, <2>3 DEF Overwritten
      <3> QED
        BY <1>1, <2>2, <3>1, Overwriting
    <2>5. told' # <<>> /\ told'[Len(told')] = WriteEvent(id, d)
      BY <2>1
    <2>6. Holds(nvram') = [Holds(nvram) EXCEPT ![id] = d] /\ ChangeIsTold
      BY <1>2, <2>4, <2>5, OneSectionChanges
    <2>7. Store!Next
      BY <2>1, <2>6, <1>7, StoreSteps
    <2>8. nvram' \in Seq(Entries)
      BY <2>4 DEF Good
    <2>9. told' \in Seq(Events) /\ Len(told') <= 2
      BY <2>1, RepliesAreTyped
    <2>10. TypeOK'
      BY <1>1, <1>7, <2>1, <2>8, <2>9, RepliesAreTyped DEF TypeOK
    <2> QED
      BY <2>4, <2>6, <2>7, <2>10 DEF Sound
  <1>6. CASE WriteResize(id, d)
    <2> DEFINE list == Without(First(id))
    <2>1. Found(id) /\ DataLen[Stored(id)] # DataLen[d] /\ AddTo(list, <<DeleteEvent(id)>>, id, d)
      BY <1>6 DEF WriteResize
    <2>2. First(id) \in DOMAIN nvram /\ nvram[First(id)].vs_id = id
      BY <1>1, <2>1, FirstIsOf
    <2>3. /\ Good(list) /\ ~Lists(list, id)
          /\ \A x : StoredIn(list, x) = IF x = id THEN NoData ELSE StoredIn(nvram, x)
      BY <1>1, <2>2, Removing DEF Without
    <2>4. StoredIn(nvram, id) # NoData /\ DataLen[StoredIn(nvram, id)] # DataLen[d]
      BY <1>1, <2>1, FoundIsListed, ListedHoldsData, StoredNow, ConstantTypes
    <2>5. <<DeleteEvent(id)>> \in Seq(Events) /\ Len(<<DeleteEvent(id)>>) <= 1
      BY RepliesAreTyped
    <2> HIDE DEF list
    <2>6. /\ TypeOK' /\ Good(nvram')
          /\ \/ /\ reply' = Answer("SUCCESS", NoData)
                /\ \A x : StoredIn(nvram', x) = IF x = id THEN d ELSE StoredIn(list, x)
                /\ told' # <<>> /\ told'[Len(told')] = WriteEvent(id, d)
             \/ /\ reply' = Answer("NO_MEMORY", NoData)
                /\ nvram' = list /\ told' = <<DeleteEvent(id)>>
      BY <1>1, <2>1, <2>3, <2>5, <1>7, AddingTells
    <2>7. CASE /\ reply' = Answer("SUCCESS", NoData)
               /\ \A x : StoredIn(nvram', x) = IF x = id THEN d ELSE StoredIn(list, x)
               /\ told' # <<>> /\ told'[Len(told')] = WriteEvent(id, d)
      <3>1. \A x : StoredIn(nvram', x) = IF x = id THEN d ELSE StoredIn(nvram, x)
        BY <2>3, <2>7
      <3>2. Holds(nvram') = [Holds(nvram) EXCEPT ![id] = d] /\ ChangeIsTold
        BY <1>2, <2>7, <3>1, OneSectionChanges
      <3>3. Store!Next
        BY <2>7, <3>2, <1>7, StoreSteps
      <3> QED
        BY <2>6, <3>2, <3>3 DEF Sound
    <2>8. CASE /\ reply' = Answer("NO_MEMORY", NoData)
               /\ nvram' = list /\ told' = <<DeleteEvent(id)>>
      <3>1. told' # <<>> /\ told'[Len(told')].vs_id = id /\ told'[Len(told')].data = NoData
        BY <1>2, <2>8
      <3>2. \A x : StoredIn(nvram', x) = IF x = id THEN NoData ELSE StoredIn(nvram, x)
        BY <2>3, <2>8
      <3>3. Holds(nvram') = [Holds(nvram) EXCEPT ![id] = NoData] /\ ChangeIsTold
        BY <3>1, <3>2, OneSectionChanges
      <3>4. Store!Next
        BY <2>4, <2>8, <3>3, <1>7, StoreSteps
      <3> QED
        BY <2>6, <3>3, <3>4 DEF Sound
    <2> QED
      BY <2>6, <2>7, <2>8
  <1> QED
    BY <1>3, <1>4, <1>5, <1>6 DEF Write

LEMMA StepsAreSound ==
  IInv /\ [Next]_vars => Sound
  <1> SUFFICES ASSUME IInv, [Next]_vars PROVE Sound
    OBVIOUS
  <1>1. CASE \E id \in VsIds, d \in Data : Write(id, d)
    BY <1>1, WritesAreSound
  <1>2. CASE \E id \in VsIds, n \in Lengths : Read(id, n)
    BY <1>2, ReadsAreSound
  <1>3. CASE \E id \in VsIds : Delete(id)
    BY <1>3, DeletesAreSound
  <1>4. CASE \E id \in VsIds : BadArg("read", id) \/ BadArg("write", id)
    BY <1>4, BadArgIsSound
  <1>5. CASE \E n \in Others : OtherUse(n)
    <2>1. UNCHANGED <<nvram, told, request, reply>> /\ TypeOK /\ Good(nvram)
      BY <1>5, GoodIsInvariant DEF OtherUse, IInv
    <2>2. free_num' \in [Cats -> Nat] /\ \A x \in Cats : free_num'[x] <= Num[x]
      BY <1>5, <2>1, TakingIsTyped DEF OtherUse
    <2>3. TypeOK'
      BY <2>1, <2>2 DEF TypeOK
    <2>4. Holds(nvram') = Holds(nvram) /\ ChangeIsTold
      BY <2>1, NoSectionChanges
    <2>5. UNCHANGED Store!vars
      BY <2>1, <2>4, StoreIsHolds DEF Store!vars
    <2> QED
      BY <2>1, <2>3, <2>4, <2>5 DEF Sound
  <1>6. CASE UNCHANGED vars
    <2>1. UNCHANGED <<nvram, told, request, reply, free_num>> /\ TypeOK /\ Good(nvram)
      BY <1>6, GoodIsInvariant DEF vars, IInv
    <2>2. TypeOK'
      BY <2>1 DEF TypeOK
    <2>3. Holds(nvram') = Holds(nvram) /\ ChangeIsTold
      BY <2>1, NoSectionChanges
    <2>4. UNCHANGED Store!vars
      BY <2>1, <2>3, StoreIsHolds DEF Store!vars
    <2> QED
      BY <2>1, <2>2, <2>3, <2>4 DEF Sound
  <1> QED
    BY <1>1, <1>2, <1>3, <1>4, <1>5, <1>6 DEF Next

LEMMA InitIsSound ==
  Init => IInv /\ Store!Init
  <1> SUFFICES ASSUME Init PROVE IInv /\ Store!Init
    OBVIOUS
  <1>1. nvram = <<>> /\ told = <<>> /\ free_num = Num /\ reply = Answer("SUCCESS", NoData)
        /\ request = Call("none", NoData, NoData, 0)
    BY DEF Init
  <1>2. <<>> \in Seq(Entries) /\ <<>> \in Seq(Events) /\ Len(<<>>) = 0 /\ DOMAIN <<>> = {}
    BY EmptySeq
  <1>3. free_num \in [Cats -> Nat] /\ \A c \in Cats : free_num[c] <= Num[c]
    <2>1. ASSUME NEW c \in Cats PROVE free_num[c] \in Nat /\ free_num[c] <= Num[c]
      <3>1. Num[c] \in Nat
        BY ConstantTypes
      <3> QED
        BY <1>1, <3>1
    <2> QED
      BY <1>1, <2>1, ConstantTypes
  <1>4. TypeOK
    <2>1. told \in Seq(Events) /\ Len(told) <= 2 /\ nvram \in Seq(Entries)
      BY <1>1, <1>2
    <2>2. request \in Calls
      BY <1>1, CallsAreTyped, VirtualNvramAssumption
    <2> QED
      BY <1>1, <1>3, <2>1, <2>2, RepliesAreTyped DEF TypeOK
  <1>5. UniqueIds /\ EntriesFit
    BY <1>1, <1>2 DEF UniqueIds, EntriesFit
  <1>6. \A id : StoredIn(nvram, id) = NoData
    BY <1>1, <1>2, UnlistedIsEmpty DEF Lists
  <1>7. Store!Init
    BY <1>1, <1>6, StoreIsHolds DEF Store!Init, Store!Answer, Store!Call, Answer, Call, Holds
  <1> QED
    BY <1>4, <1>5, <1>7 DEF IInv

LEMMA InvariantHolds ==
  Spec => []IInv
  <1>1. Init => IInv
    BY InitIsSound
  <1>2. IInv /\ [Next]_vars => IInv'
    BY StepsAreSound, GoodGivesInvariant DEF Sound
  <1> QED
    BY <1>1, <1>2, PTL DEF Spec

-----------------------------------------------------------------------------
(* Theorems. *)

(* The list, the counts of the pool, the events and the answers of         *)
(* wiced_platform_nvram_* are what their declarations say.                 *)
THEOREM NvramTyped ==
  Spec => []TypeOK
  <1>1. IInv => TypeOK
    BY DEF IInv
  <1> QED
    BY <1>1, InvariantHolds, PTL

(* No section is listed twice, whatever is written, grown, shrunk, deleted *)
(* and refused for want of memory: delete, which unlinks one entry, leaves *)
(* nothing of it.                                                          *)
THEOREM SectionsListedOnce ==
  Spec => []UniqueIds
  <1>1. IInv => UniqueIds
    BY DEF IInv
  <1> QED
    BY <1>1, InvariantHolds, PTL

(* The size that wiced_platform_nvram_write asks the pool for covers what  *)
(* it then copies, for every length and also after an overwrite in place.  *)
THEOREM SectionsFitBlocks ==
  Spec => []EntriesFit
  <1>1. IInv => EntriesFit
    BY DEF IInv
  <1> QED
    BY <1>1, InvariantHolds, PTL

(* The host is told of every change of a section, by the last event of the *)
(* call that made it.                                                      *)
THEOREM ChangesTold ==
  Spec => EveryChangeIsTold
  <1>1. IInv /\ [Next]_vars => [ChangeIsTold]_vars
    BY StepsAreSound DEF Sound
  <1> QED
    BY <1>1, InvariantHolds, PTL DEF Spec, EveryChangeIsTold

(* The list of platform.c is the map that wiced_hal_nvram.h promises: what *)
(* each call does to it and answers is what the map does and answers to    *)
(* that request.                                                           *)
THEOREM ListIsMap ==
  Spec => ImplementsStore
  <1>1. Init => Store!Init
    BY InitIsSound
  <1>2. IInv /\ [Next]_vars => [Store!Next]_(Store!vars)
    BY StepsAreSound DEF Sound
  <1> QED
    BY <1>1, <1>2, InvariantHolds, PTL DEF Spec, ImplementsStore, Store!Spec

==============================================================================
