------------------------------ MODULE HostSync -------------------------------
(***************************************************************************)
(* The virtual NVRAM lives in RAM; the host keeps a copy of it.  platform.c*)
(* sends an event for every change and ignores whether it got through; a   *)
(* device that has started tells the host, which pushes its copy back, and *)
(* the receive handler writes what is pushed like any other write.  This   *)
(* module composes VirtualNvram with the HCI transport, the host (external:*)
(* modelled from the messages platform.c exchanges with it) and restarts.  *)
(***************************************************************************)
EXTENDS VirtualNvram

CONSTANTS
  MaxOps,    (* bound: calls of the application                           *)
  MaxBoots   (* bound: restarts                                           *)

ASSUME HostSyncAssumption ==
  MaxOps \in Nat /\ MaxBoots \in Nat /\ IsFiniteSet(VsIds)

VARIABLES
  link,      (* "down" until the transport is initialised and connected   *)
  toHost,    (* events on their way to the host                           *)
  toDevice,  (* PUSH_NVRAM_DATA commands on their way to the device       *)
  host,      (* the host's copy                                           *)
  adrift,    (* history: sections whose last event was lost or whose push *)
             (* was refused, nothing on the way will put them right       *)
  backup,    (* history: the copy as it was when the host last pushed it  *)
  touched,   (* history: the application has used the device since it     *)
             (* started                                                   *)
  ops, boots (* how many calls and restarts there have been               *)

channel == <<link, toHost, toDevice>>
syncVars == <<vars, channel, host, adrift, backup, touched, ops, boots>>

StartedEvent == [kind |-> "STARTED"]
Push(id) == [kind |-> "PUSH", vs_id |-> id, data |-> host[id]]
Empty == [id \in VsIds |-> NoData]

SyncTypeOK ==
  /\ TypeOK
  /\ link \in {"down", "up"}
  /\ toHost \in Seq(Events \cup {StartedEvent})
  /\ toDevice \in Seq([kind : {"PUSH"}, vs_id : VsIds, data : Data])
  /\ host \in [VsIds -> Data \cup {NoData}]
  /\ backup \in [VsIds -> Data \cup {NoData}]
  /\ adrift \in SUBSET VsIds
  /\ touched \in BOOLEAN
  /\ ops \in 0..MaxOps /\ boots \in 0..MaxBoots

SyncInit ==
  /\ Init
  /\ link = "down" /\ toHost = <<>> /\ toDevice = <<>>
  /\ host = Empty /\ backup = Empty
  /\ adrift = {} /\ touched = FALSE
  /\ ops = 0 /\ boots = 0

-----------------------------------------------------------------------------

(* Of the (at most two) events of a call, those that the transport takes   *)
(* in wiced_transport_send_data: none before the link is up, any of them   *)
(* afterwards.  The results are not looked at ("transport may not be       *)
(* connected").                                                            *)
Accepted ==
  IF link = "down" THEN {<<>>}
  ELSE {<<>>, told'} \cup {<<told'[i]>> : i \in DOMAIN told'}

(* The last event of the call is among them. *)
LastAccepted(accepted) ==
  accepted # <<>> /\ accepted[Len(accepted)] = told'[Len(told')]

(* The events of a call that changed section id are sent. *)
Send(id) ==
  \E accepted \in Accepted :
    /\ toHost' = toHost \o accepted
    /\ adrift' = IF told' = <<>>
                 THEN IF reply'.status = "NO_MEMORY" THEN adrift \cup {id} ELSE adrift
                 ELSE IF LastAccepted(accepted) THEN adrift \ {id} ELSE adrift \cup {id}

(* The application writes or deletes a section. *)
AppCall ==
  /\ ops < MaxOps /\ ops' = ops + 1
  /\ touched' = TRUE
  /\ \E id \in VsIds : /\ Delete(id) \/ \E d \in Data : Write(id, d)
                       /\ Send(id)
  /\ UNCHANGED <<link, toDevice, host, backup, boots>>

(* wiced_platform_transport_init has succeeded and the transport reports   *)
(* that it is up: platform_transport_status_handler sends DEVICE_STARTED.  *)
Start ==
  /\ link = "down" /\ link' = "up"
  /\ toHost' = Append(toHost, StartedEvent)
  /\ UNCHANGED <<vars, toDevice, host, adrift, backup, touched, ops, boots>>

(* Slips: the host is not told of what it pushed itself; pushed data only  *)
(* replaces sections that are there already.                               *)
RxPushUntold ==
  /\ toDevice # <<>>
  /\ LET p == Head(toDevice) IN
       /\ Write(p.vs_id, p.data)
       /\ adrift' = IF reply'.status = "SUCCESS" THEN adrift ELSE adrift \cup {p.vs_id}
  /\ toDevice' = Tail(toDevice)
  /\ UNCHANGED <<link, toHost, host, backup, touched, ops, boots>>

RxPushKnown ==
  /\ toDevice # <<>>
  /\ LET p == Head(toDevice) IN
       /\ IF Found(p.vs_id) THEN Write(p.vs_id, p.data) ELSE BadArg("write", p.vs_id)
       /\ Send(p.vs_id)
  /\ toDevice' = Tail(toDevice)
  /\ UNCHANGED <<link, host, backup, touched, ops, boots>>

(* platform_transport_rx_data_handler on a PUSH_NVRAM_DATA command. *)
RxPush ==
  /\ toDevice # <<>>
  /\ LET p == Head(toDevice) IN Write(p.vs_id, p.data) /\ Send(p.vs_id)
  /\ toDevice' = Tail(toDevice)
  /\ UNCHANGED <<link, host, backup, touched, ops, boots>>

(* The host records an event. *)
HostRecord ==
  /\ toHost # <<>> /\ Head(toHost) # StartedEvent
  /\ host' = [host EXCEPT ![Head(toHost).vs_id] = Head(toHost).data]
  /\ toHost' = Tail(toHost)
  /\ UNCHANGED <<vars, link, toDevice, adrift, backup, touched, ops, boots>>

(* The sequences that hold each element once. *)
Orders(S) ==
  {order \in [1..Cardinality(S) -> S] : \A id \in S : \E i \in DOMAIN order : order[i] = id}

(* The host answers DEVICE_STARTED with all it has, in some order. *)
HostPush ==
  /\ toHost # <<>> /\ Head(toHost) = StartedEvent
  /\ \E order \in Orders({id \in VsIds : host[id] # NoData}) :
       toDevice' = toDevice \o [i \in DOMAIN order |-> Push(order[i])]
  /\ toHost' = Tail(toHost)
  /\ backup' = host
  /\ UNCHANGED <<vars, link, host, adrift, touched, ops, boots>>

(* A restart empties RAM and the pool.  What the host had received, or the *)
(* wire still carries, is a beginning of what was sent.                    *)
Reboot ==
  /\ boots < MaxBoots /\ boots' = boots + 1
  /\ nvram' = <<>> /\ free_num' = Num /\ told' = <<>>
  /\ request' = Call("none", NoData, NoData, 0) /\ reply' = Answer("SUCCESS", NoData)
  /\ link' = "down" /\ toDevice' = <<>>
  /\ \E n \in 0..Len(toHost) : toHost' = SubSeq(toHost, 1, n)
  /\ adrift' = {} /\ touched' = FALSE
  /\ UNCHANGED <<host, backup, ops>>

SyncNext ==
  \/ AppCall \/ Start \/ RxPush
  \/ HostRecord \/ HostPush
  \/ Reboot

SyncSpec == SyncInit /\ [][SyncNext]_syncVars

-----------------------------------------------------------------------------
(* Properties. *)

Quiescent == link = "up" /\ toHost = <<>> /\ toDevice = <<>>

(* When nothing is on the way, device and host agree about every section   *)
(* whose last event was accepted: pushes that cross events, echoes of      *)
(* pushes, and restarts in the middle of it all do not leave them apart.   *)
InSync ==
  Quiescent => \A id \in VsIds \ adrift : host[id] = Stored(id)

(* After a restart that the application did not interfere with, the device *)
(* holds again what the host had when it answered, except what found no    *)
(* block any more.  (What the host had not is not claimed to be gone: the  *)
(* answer to the DEVICE_STARTED of an earlier boot may come late and bring *)
(* back a section whose deletion the host had yet to read.)                *)
Restored ==
  Quiescent /\ ~touched =>
    \A id \in VsIds : \/ backup[id] = NoData
                      \/ Stored(id) = backup[id]
                      \/ Fitting(EntrySize(backup[id])) = {}

==============================================================================
