---------------------------- MODULE VirtualNvram -----------------------------
(***************************************************************************)
(* The NVRAM that platform.c keeps in RAM: a linked list of sections in    *)
(* blocks of the platform pool, with an event to the host for every change.*)
(* wiced_hal_nvram.h maps wiced_hal_{read,write,delete}_nvram to the three *)
(* functions modelled here.  The callers run in one thread (the list has   *)
(* no lock), so a call is one step.                                        *)
(*                                                                         *)
(* Of the pool only free_num is kept: module PlatformMem proves that an    *)
(* initialised pool serves a request if and only if free_num is positive   *)
(* for a category that fits, and that platform_mem_free changes nothing.   *)
(***************************************************************************)
EXTENDS Naturals, Sequences, FiniteSets

CONSTANTS
  VsIds,     (* volatile section identifiers                              *)
  Data,      (* the byte strings that are written                         *)
  DataLen,   (* their lengths, 1..65535                                   *)
  Lengths,   (* the data_length arguments of reads                        *)
  Others,    (* sizes the application itself takes from the pool          *)
  Size, Num, (* platform_mem_cfg                                          *)
  NoData     (* nothing stored, nothing read                              *)

Cats == DOMAIN Num

VirtualNvramAssumption ==
  /\ DataLen \in [Data -> Nat \ {0}]
  /\ Num \in Seq(Nat \ {0})
  /\ Size \in [Cats -> Nat]
  /\ \A c, d \in Cats : c < d => Size[c] < Size[d]
  /\ Lengths \subseteq Nat /\ Others \subseteq Nat
  /\ NoData \notin Data

ASSUME VirtualNvramAssumption

VARIABLES
  nvram,     (* platform_cb.p_virtual_nvram, from the head                *)
  free_num,  (* what is left of each category of the pool                 *)
  told,      (* the events the last call sent to the host, in order       *)
  request,   (* history: which function was called last, and with what    *)
  reply      (* *p_status and the data of the last call                   *)

vars == <<nvram, free_num, told, request, reply>>

Entry(id, d, c) == [vs_id |-> id, data |-> d, cat |-> c]
Entries == [vs_id : VsIds, data : Data, cat : Cats]

WriteEvent(id, d) == [kind |-> "WRITE", vs_id |-> id, data |-> d]
DeleteEvent(id) == [kind |-> "DELETE", vs_id |-> id, data |-> NoData]
Events == [kind : {"WRITE", "DELETE"}, vs_id : VsIds, data : Data \cup {NoData}]

Call(o, id, d, n) == [op |-> o, vs_id |-> id, data |-> d, length |-> n]
Calls == [op : {"none", "write", "read", "delete"}, vs_id : VsIds \cup {NoData},
          data : Data \cup {NoData}, length : Nat]

Answer(s, d) == [status |-> s, data |-> d]

TypeOK ==
  /\ nvram \in Seq(Entries)
  /\ free_num \in [Cats -> Nat] /\ \A c \in Cats : free_num[c] <= Num[c]
  /\ told \in Seq(Events) /\ Len(told) <= 2
  /\ request \in Calls
  /\ reply \in [status : {"SUCCESS", "BADARG", "NO_MEMORY"}, data : Data \cup {NoData}]

Init ==
  /\ nvram = <<>>
  /\ free_num = Num
  /\ told = <<>>
  /\ request = Call("none", NoData, NoData, 0)
  /\ reply = Answer("SUCCESS", NoData)

-----------------------------------------------------------------------------

(* The entries of a section, and the first of them on the list. *)
Of(id) == {i \in DOMAIN nvram : nvram[i].vs_id = id}
Found(id) == Of(id) # {}
First(id) == CHOOSE i \in Of(id) : \A j \in Of(id) : i <= j

Stored(id) == IF Found(id) THEN nvram[First(id)].data ELSE NoData

(* The list with its i-th entry unlinked. *)
Without(i) == [j \in 1..(Len(nvram) - 1) |-> IF j < i THEN nvram[j] ELSE nvram[j + 1]]

(* sizeof(platform_virtual_nvram_t): data_length, padding, p_next, vs_id   *)
(* and the padding behind it; the content starts inside that padding.      *)
StructSize == 12
HeaderSize == 10

(* Slips: the padding is taken off along with the flexible array; the size *)
(* is computed in 16 bits.                                                 *)
EntrySizeShort(d) == StructSize - 3 + DataLen[d]

EntrySizeNarrow(d) == (StructSize - 1 + DataLen[d]) % 65536

EntrySize(d) == StructSize - 1 + DataLen[d]

(* A slip: categories that are used up are not passed over. *)
FittingAny(n) == {c \in Cats : Size[c] >= n}

(* platform_mem_allocate as its caller sees it. *)
Fitting(n) == {c \in Cats : Size[c] >= n /\ free_num[c] > 0}

Take(n, c) ==
  /\ c \in Fitting(n) /\ \A d \in Fitting(n) : c <= d
  /\ free_num' = [free_num EXCEPT ![c] = @ - 1]

-----------------------------------------------------------------------------

(* The end of wiced_platform_nvram_write, for a section that is not on the *)
(* list: a new entry at the head, or no memory.                            *)
AddTo(list, sent, id, d) ==
  \/ /\ \E c \in Cats : Take(EntrySize(d), c) /\ nvram' = <<Entry(id, d, c)>> \o list
     /\ told' = Append(sent, WriteEvent(id, d))
     /\ reply' = Answer("SUCCESS", NoData)
  \/ /\ Fitting(EntrySize(d)) = {}
     /\ nvram' = list
     /\ told' = sent
     /\ reply' = Answer("NO_MEMORY", NoData)
     /\ UNCHANGED free_num

WriteNew(id, d) ==
  /\ ~Found(id)
  /\ AddTo(nvram, <<>>, id, d)

(* The section has these very bytes: nothing is done, nobody is told. *)
WriteSame(id, d) ==
  /\ Found(id) /\ Stored(id) = d
  /\ told' = <<>>
  /\ reply' = Answer("SUCCESS", NoData)
  /\ UNCHANGED <<nvram, free_num>>

(* A slip: memcpy with its arguments the wrong way round.                  *)
WriteOverLost(id, d) ==
  /\ Found(id) /\ Stored(id) # d /\ DataLen[Stored(id)] = DataLen[d]
  /\ told' = <<WriteEvent(id, Stored(id))>>
  /\ reply' = Answer("SUCCESS", NoData)
  /\ UNCHANGED <<nvram, free_num>>

(* Bytes of the same length are copied over the old ones. *)
WriteOver(id, d) ==
  /\ Found(id) /\ Stored(id) # d /\ DataLen[Stored(id)] = DataLen[d]
  /\ nvram' = [nvram EXCEPT ![First(id)] = Entry(id, d, @.cat)]
  /\ told' = <<WriteEvent(id, d)>>
  /\ reply' = Answer("SUCCESS", NoData)
  /\ UNCHANGED free_num

(* Slips: the old entry stays on the list; the host does not hear of its   *)
(* removal.                                                                *)
WriteResizeKeep(id, d) ==
  /\ Found(id) /\ DataLen[Stored(id)] # DataLen[d]
  /\ AddTo(nvram, <<DeleteEvent(id)>>, id, d)

WriteResizeQuiet(id, d) ==
  /\ Found(id) /\ DataLen[Stored(id)] # DataLen[d]
  /\ AddTo(Without(First(id)), <<>>, id, d)

(* Bytes of another length: the entry is deleted, with the event of a      *)
(* delete, and the write starts again.                                     *)
WriteResize(id, d) ==
  /\ Found(id) /\ DataLen[Stored(id)] # DataLen[d]
  /\ AddTo(Without(First(id)), <<DeleteEvent(id)>>, id, d)

Write(id, d) ==
  /\ request' = Call("write", id, d, DataLen[d])
  /\ WriteNew(id, d) \/ WriteSame(id, d) \/ WriteOver(id, d) \/ WriteResize(id, d)

(* A read or a write with no buffer or of no bytes. *)
BadArg(o, id) ==
  /\ request' = Call(o, id, NoData, 0)
  /\ told' = <<>>
  /\ reply' = Answer("BADARG", NoData)
  /\ UNCHANGED <<nvram, free_num>>

(* A read needs room for all the bytes of the section. *)
Read(id, n) ==
  /\ request' = Call("read", id, NoData, n)
  /\ reply' = IF Found(id) /\ n >= DataLen[Stored(id)]
              THEN Answer("SUCCESS", Stored(id)) ELSE Answer("BADARG", NoData)
  /\ told' = <<>>
  /\ UNCHANGED <<nvram, free_num>>

(* The status is set to WICED_BADARG on entry and never again. *)
Delete(id) ==
  /\ request' = Call("delete", id, NoData, 0)
  /\ IF Found(id)
     THEN nvram' = Without(First(id)) /\ told' = <<DeleteEvent(id)>>
     ELSE UNCHANGED nvram /\ told' = <<>>
  /\ reply' = Answer("BADARG", NoData)
  /\ UNCHANGED free_num

(* The application takes a block for itself; it does not come back. *)
OtherUse(n) ==
  /\ \E c \in Cats : Take(n, c)
  /\ UNCHANGED <<nvram, told, request, reply>>

Next ==
  \/ \E id \in VsIds, d \in Data : Write(id, d)
  \/ \E id \in VsIds, n \in Lengths : Read(id, n)
  \/ \E id \in VsIds : Delete(id) \/ BadArg("read", id) \/ BadArg("write", id)
  \/ \E n \in Others : OtherUse(n)

Spec == Init /\ [][Next]_vars

-----------------------------------------------------------------------------
(* Properties. *)

(* A section is on the list once: a read finds what was written last and a *)
(* delete leaves nothing behind.                                           *)
UniqueIds ==
  \A i, j \in DOMAIN nvram : nvram[i].vs_id = nvram[j].vs_id => i = j

(* Header and bytes of an entry end inside the block it was given.         *)
EntriesFit ==
  \A i \in DOMAIN nvram : HeaderSize + DataLen[nvram[i].data] <= Size[nvram[i].cat]

(* Whenever a section changes, the last event the call sends for it says   *)
(* what it holds now: the host that hears everything knows everything,     *)
(* also when a write fails half way.                                       *)
ChangeIsTold ==
  \A id \in VsIds :
    Stored(id)' # Stored(id) =>
      /\ told' # <<>>
      /\ LET e == told'[Len(told')] IN e.vs_id = id /\ e.data = Stored(id)'

EveryChangeIsTold == [][ChangeIsTold]_vars

(* The list implements the map of module NvramStore, request by request: a *)
(* write that is acknowledged stores its bytes in its section, a read      *)
(* returns the bytes of the section it asks for, a delete empties its      *)
(* section; other sections are left alone, and a refused read or write     *)
(* changes nothing.                                                        *)
Store == INSTANCE NvramStore WITH store <- [id \in VsIds |-> Stored(id)]

ImplementsStore == Store!Spec

(* "p_status: Pointer to location where status of the call is returned": a *)
(* delete that removes a section reports success.                          *)
DeleteReportsSuccess ==
  [][\A id \in VsIds : told' = <<DeleteEvent(id)>> /\ Delete(id) /\ Found(id)
       => reply'.status = "SUCCESS"]_vars

==============================================================================
