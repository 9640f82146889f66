----------------------------- MODULE NvramStore ------------------------------
(***************************************************************************)
(* What wiced_hal_nvram.h promises an application: a map from volatile     *)
(* section identifiers to byte strings.  A step is a call: the state keeps *)
(* what was asked next to the answer and the map, and each action says     *)
(* what the map and the answer to that very request are.  The linked list  *)
(* of platform.c is shown to implement this (VirtualNvram!ImplementsStore).*)
(***************************************************************************)
EXTENDS Naturals

CONSTANTS
  VsIds,     (* section identifiers                                       *)
  Data,      (* byte strings                                              *)
  DataLen,   (* their lengths                                             *)
  Lengths,   (* the data_length arguments of reads                        *)
  NoData     (* nothing is stored, nothing is returned                    *)

VARIABLES
  store,     (* what each section holds                                   *)
  request,   (* the last call: operation, vs_id, p_data and data_length   *)
  reply      (* its status and data                                       *)

vars == <<store, request, reply>>

Call(o, id, d, n) == [op |-> o, vs_id |-> id, data |-> d, length |-> n]
Answer(s, d) == [status |-> s, data |-> d]

Init ==
  /\ store = [id \in VsIds |-> NoData]
  /\ request = Call("none", NoData, NoData, 0)
  /\ reply = Answer("SUCCESS", NoData)

-----------------------------------------------------------------------------

(* Write(id, d), acknowledged: the section holds d, the others what they   *)
(* held.                                                                   *)
Put(id, d) ==
  /\ request' = Call("write", id, d, DataLen[d])
  /\ store' = [store EXCEPT ![id] = d]
  /\ reply' = Answer("SUCCESS", NoData)

(* Write(id, d) that finds no memory leaves all others alone.  The section *)
(* itself may be gone, when what it held had another length.               *)
PutFails(id, d) ==
  /\ request' = Call("write", id, d, DataLen[d])
  /\ \/ store' = store
     \/ /\ store[id] # NoData /\ DataLen[store[id]] # DataLen[d]
        /\ store' = [store EXCEPT ![id] = NoData]
  /\ reply' = Answer("NO_MEMORY", NoData)

(* Read(id) into a buffer of n bytes returns what was stored last there;   *)
(* it is refused when there is nothing, or more than n bytes of it.        *)
Get(id, n) ==
  /\ request' = Call("read", id, NoData, n)
  /\ reply' = IF store[id] # NoData /\ DataLen[store[id]] <= n
              THEN Answer("SUCCESS", store[id]) ELSE Answer("BADARG", NoData)
  /\ UNCHANGED store

(* Delete(id) empties the section; its status is not part of the promise   *)
(* (VirtualNvram!DeleteReportsSuccess is about that).                      *)
Remove(id) ==
  /\ request' = Call("delete", id, NoData, 0)
  /\ store' = [store EXCEPT ![id] = NoData]
  /\ \E s \in {"SUCCESS", "BADARG"} : reply' = Answer(s, NoData)

(* A read or a write of no bytes is refused and changes nothing. *)
Refuse(o, id) ==
  /\ request' = Call(o, id, NoData, 0)
  /\ reply' = Answer("BADARG", NoData)
  /\ UNCHANGED store

Next ==
  \/ \E id \in VsIds, d \in Data : Put(id, d) \/ PutFails(id, d)
  \/ \E id \in VsIds, n \in Lengths : Get(id, n)
  \/ \E id \in VsIds : Remove(id) \/ Refuse("read", id) \/ Refuse("write", id)

Spec == Init /\ [][Next]_vars

==============================================================================
