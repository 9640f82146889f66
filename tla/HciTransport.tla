---------------------------- MODULE HciTransport -----------------------------
(***************************************************************************)
(* wiced_platform_transport_init of platforms/platform.c, called by the    *)
(* application, next to platform_transport_rx_data_handler, called by the  *)
(* transport for every message from the host as soon as it is open.  Pushed*)
(* NVRAM data goes to the list of module VirtualNvram, on which the         *)
(* application works too; everything else goes to its handler.             *)
(***************************************************************************)
EXTENDS VirtualNvram

CONSTANTS
  Handlers,  (* what the application passes as p_rx_data_handler          *)
  Codes,     (* opcodes of the application                                *)
  MaxRx,     (* bound: messages for the application                       *)
  Huge,      (* whatever 65535 bytes a write of length 65535 would store  *)
  NoHandler  (* a NULL handler                                            *)

ASSUME HciTransportAssumption ==
  /\ MaxRx \in Nat /\ NoHandler \notin Handlers
  /\ Huge \in Data /\ DataLen[Huge] = 65535

VARIABLES
  init,      (* platform_cb.transport.init                                *)
  handler,   (* platform_cb.transport.p_app_rx_data_handler               *)
  opened,    (* history: how often wiced_transport_init has succeeded     *)
  pc,        (* where wiced_platform_transport_init is                    *)
  asked,     (* its argument                                              *)
  accepted,  (* history: the handler whose call has returned WICED_TRUE   *)
  arrived,   (* history: the messages that came for the application       *)
  early,     (* history: how many of them before a call was accepted      *)
  given      (* history: which handler got which message                  *)

transport == <<init, handler, opened, pc, asked, accepted>>
messages == <<arrived, early, given>>
hciVars == <<vars, transport, messages>>

HciInit ==
  /\ Init
  /\ init = FALSE /\ handler = NoHandler
  /\ opened = 0 /\ pc = "idle"
  /\ asked = NoHandler /\ accepted = NoHandler
  /\ arrived = <<>> /\ early = 0 /\ given = <<>>

-----------------------------------------------------------------------------

(* A slip, or a hasty cure for messages that come too early: the handler   *)
(* is stored before the transport is opened.                               *)
InitCallStores(h) ==
  /\ pc = "idle" /\ ~init
  /\ pc' = "open" /\ asked' = h /\ handler' = h
  /\ UNCHANGED <<vars, init, opened, accepted, messages>>

InitCall(h) ==
  /\ pc = "idle" /\ ~init
  /\ pc' = "open" /\ asked' = h
  /\ UNCHANGED <<vars, init, handler, opened, accepted, messages>>

(* A slip: the handler is stored before init is looked at. *)
InitAgainStores(h) ==
  /\ pc = "idle" /\ init
  /\ handler' = h
  /\ UNCHANGED <<vars, init, opened, pc, asked, accepted, messages>>

(* A second call returns WICED_FALSE. *)
InitAgain(h) ==
  /\ pc = "idle" /\ init
  /\ UNCHANGED hciVars

(* wiced_transport_init: may fail, and then the application may try again. *)
InitOpen ==
  /\ pc = "open"
  /\ \/ pc' = "idle" /\ UNCHANGED opened
     \/ pc' = "mark" /\ opened' = opened + 1
  /\ UNCHANGED <<vars, init, handler, asked, accepted, messages>>

(* A slip: nobody notes that the transport is open. *)
InitMarkNot ==
  /\ pc = "mark"
  /\ pc' = "register"
  /\ UNCHANGED <<vars, init, handler, opened, asked, accepted, messages>>

InitMark ==
  /\ pc = "mark"
  /\ init' = TRUE /\ pc' = "register"
  /\ UNCHANGED <<vars, handler, opened, asked, accepted, messages>>

InitRegister ==
  /\ pc = "register"
  /\ handler' = asked /\ accepted' = asked /\ pc' = "idle"
  /\ UNCHANGED <<vars, init, opened, asked, messages>>

-----------------------------------------------------------------------------

Open == opened > 0

(* A message for the application: without a handler it is dropped. *)
RxApp(code) ==
  /\ Open /\ Len(arrived) < MaxRx
  /\ arrived' = Append(arrived, code)
  /\ early' = IF accepted = NoHandler THEN early + 1 ELSE early
  /\ given' = IF handler = NoHandler THEN given ELSE Append(given, <<handler, code>>)
  /\ UNCHANGED <<vars, transport>>

(* PUSH_NVRAM_DATA with payload_len bytes: the identifier and the data. *)
RxPush(id, d) ==
  /\ Open
  /\ Write(id, d)
  /\ UNCHANGED <<transport, messages>>

(* payload_len is 2: an identifier without data. *)
RxPushIdOnly(id) ==
  /\ Open
  /\ BadArg("write", id)
  /\ UNCHANGED <<transport, messages>>

(* payload_len is 1: 1 - sizeof(vs_id) becomes the uint16_t 65535. *)
RxPushRunt(id) ==
  /\ Open
  /\ Write(id, Huge)
  /\ UNCHANGED <<transport, messages>>

(* No bytes of payload, or less than the 4 bytes of the header. *)
RxEmpty ==
  /\ Open
  /\ UNCHANGED hciVars

(* The application's own calls; it is not in wiced_platform_transport_init. *)
AppCall ==
  /\ pc = "idle"
  /\ Next
  /\ UNCHANGED <<transport, messages>>

HciNext ==
  \/ AppCall
  \/ \E h \in Handlers : InitCall(h) \/ InitAgain(h)
  \/ InitOpen \/ InitMark \/ InitRegister
  \/ \E code \in Codes : RxApp(code)
  \/ \E id \in VsIds, d \in Data \ {Huge} : RxPush(id, d)
  \/ \E id \in VsIds : RxPushRunt(id) \/ RxPushIdOnly(id)
  \/ RxEmpty

HciSpec == HciInit /\ [][HciNext]_hciVars

-----------------------------------------------------------------------------
(* Properties. *)

(* The transport is not opened a second time, whatever calls fail or are   *)
(* repeated.                                                               *)
OpenedOnce == opened <= 1

(* From the moment a call has returned WICED_TRUE each message for the     *)
(* application reaches the handler of that call, and no other handler ever *)
(* gets one.                                                               *)
AcceptedGetsAll ==
  [][accepted # NoHandler /\ arrived' # arrived
       => given' = Append(given, <<accepted, arrived'[Len(arrived')]>>)]_hciVars

(* Of the messages for the application exactly those are lost that come    *)
(* before a call has returned WICED_TRUE (the host may already send while  *)
(* the handler is not stored): no handler is entered before its own call   *)
(* was accepted, least of all one whose call failed, and from then on it   *)
(* gets each message once and in the order they came.                      *)
OnlyEarlyAreLost ==
  given = [k \in 1..(Len(arrived) - early) |-> <<accepted, arrived[early + k]>>]

(* A push too short to hold a section stores nothing: the length that its  *)
(* subtraction leaves is larger than every block.                          *)
RuntStoresNothing ==
  \A k \in DOMAIN nvram : nvram[k].data # Huge

==============================================================================
