------------------------- MODULE HciTransportProofs --------------------------
(***************************************************************************)
(* Proofs about HciTransport, for any sections, byte strings, pool,        *)
(* handlers and opcodes.  Whatever the receive handler does to the list is *)
(* a call that the application could have made as well, so that everything *)
(* proved of VirtualNvram holds with a host that pushes too.               *)
(***************************************************************************)
EXTENDS HciTransport, VirtualNvramProofs

(* What the variables range over; the list's are TypeOK. *)
HciTypeOK ==
  /\ TypeOK
  /\ init \in BOOLEAN /\ handler \in Handlers \cup {NoHandler}
  /\ opened \in Nat /\ pc \in {"idle", "open", "mark", "register"}
  /\ asked \in Handlers \cup {NoHandler} /\ accepted \in Handlers \cup {NoHandler}
  /\ arrived \in Seq(Codes) /\ early \in Nat /\ given \in Seq(Handlers \X Codes)

(* Where the initialisation is tells what it has done. *)
TransportInv ==
  /\ opened = IF init \/ pc = "mark" THEN 1 ELSE 0
  /\ init => pc \in {"idle", "register"}
  /\ pc = "register" => init
  /\ pc # "idle" => asked \in Handlers
  /\ accepted # NoHandler <=> init /\ pc = "idle"
  /\ handler = accepted

(* Until a call is accepted every message is early. *)
MessagesInv ==
  /\ early <= Len(arrived)
  /\ accepted = NoHandler => early = Len(arrived)
  /\ OnlyEarlyAreLost

HInv == IInv /\ HciTypeOK /\ TransportInv /\ MessagesInv

(* A step of the receive handler or of the application is a call, or       *)
(* leaves the list alone.                                                  *)
LEMMA StepsAreCalls ==
  [HciNext]_hciVars => [Next]_vars
  <1> SUFFICES ASSUME [HciNext]_hciVars PROVE [Next]_vars
    OBVIOUS
  <1>1. CASE AppCall
    BY <1>1 DEF AppCall
  <1>2. CASE \E h \in Handlers : InitCall(h) \/ InitAgain(h)
    BY <1>2 DEF InitCall, InitAgain, hciVars, transport
  <1>3. CASE InitOpen \/ InitMark \/ InitRegister
    BY <1>3 DEF InitOpen, InitMark, InitRegister
  <1>4. CASE \E code \in Codes : RxApp(code)
    BY <1>4 DEF RxApp
  <1>5. CASE \E id \in VsIds, d \in Data \ {Huge} : RxPush(id, d)
    BY <1>5 DEF RxPush, Next
  <1>6. CASE \E id \in VsIds : RxPushRunt(id)
    BY <1>6, HciTransportAssumption DEF RxPushRunt, Next
  <1>7. CASE \E id \in VsIds : RxPushIdOnly(id)
    BY <1>7 DEF RxPushIdOnly, Next
  <1>8. CASE RxEmpty \/ UNCHANGED hciVars
    BY <1>8 DEF RxEmpty, hciVars
  <1> QED
    BY <1>1, <1>2, <1>3, <1>4, <1>5, <1>6, <1>7, <1>8 DEF HciNext

LEMMA InitIsHInv ==
  HciInit => HInv
  <1> SUFFICES ASSUME HciInit PROVE HInv
    OBVIOUS
  <1>1. IInv
    BY InitIsSound DEF HciInit
  <1>2. arrived \in Seq(Codes) /\ given \in Seq(Handlers \X Codes) /\ Len(arrived) = 0
    BY DEF HciInit
  <1>3. HciTypeOK
    BY <1>1, <1>2 DEF HciTypeOK, HciInit, IInv
  <1>4. TransportInv
    BY DEF TransportInv, HciInit
  <1>5. OnlyEarlyAreLost
    <2>1. given = <<>> /\ Len(arrived) - early = 0
      BY <1>2 DEF HciInit
    <2> QED
      BY <2>1 DEF OnlyEarlyAreLost
  <1>6. MessagesInv
    BY <1>2, <1>5 DEF MessagesInv, HciInit
  <1> QED
    BY <1>1, <1>3, <1>4, <1>6 DEF HInv

(* The steps that move neither the initialisation nor the messages. *)
LEMMA ElsewhereIsHInv ==
  ASSUME HInv, IInv', UNCHANGED <<transport, messages>>
  PROVE  HInv'
  BY DEF HInv, IInv, HciTypeOK, TransportInv, MessagesInv, OnlyEarlyAreLost, transport, messages

(* The steps of the initialisation: a handler is accepted when all the     *)
(* messages so far are early.                                              *)
LEMMA InitialisingIsHInv ==
  ASSUME HInv, UNCHANGED messages, accepted' = accepted \/ accepted = NoHandler,
         accepted' # NoHandler \/ accepted = NoHandler
  PROVE  MessagesInv'
  <1>1. /\ MessagesInv /\ arrived \in Seq(Codes) /\ early \in Nat /\ UNCHANGED <<arrived, early, given>>
    BY DEF HInv, HciTypeOK, messages
  <1>2. CASE accepted' = accepted
    BY <1>1, <1>2 DEF MessagesInv, OnlyEarlyAreLost
  <1>3. CASE accepted = NoHandler
    <2>1. 1..(Len(arrived) - early) = {}
      BY <1>1, <1>3 DEF MessagesInv
    <2>2. given = [k \in 1..(Len(arrived) - early) |-> <<accepted', arrived[early + k]>>]
      BY <1>1, <2>1 DEF MessagesInv, OnlyEarlyAreLost
    <2> QED
      BY <1>1, <1>3, <2>2 DEF MessagesInv, OnlyEarlyAreLost
  <1> QED
    BY <1>2, <1>3

(* A message is early, or it goes to the accepted handler. *)
LEMMA MessageIsHInv ==
  ASSUME HInv, NEW code \in Codes, RxApp(code)
  PROVE  MessagesInv'
  <1>1. /\ arrived \in Seq(Codes) /\ early \in Nat /\ given \in Seq(Handlers \X Codes)
        /\ handler = accepted /\ accepted' = accepted
        /\ MessagesInv
    BY DEF HInv, HciTypeOK, TransportInv, RxApp, transport
  <1>2. arrived' = Append(arrived, code)
    BY DEF RxApp
  <1>3. /\ Len(arrived) \in Nat /\ Len(arrived') = Len(arrived) + 1
        /\ arrived'[Len(arrived) + 1] = code
        /\ \A k \in 1..Len(arrived) : arrived'[k] = arrived[k]
    BY <1>1, <1>2, AppendProperties, LenProperties
  <1> HIDE DEF MessagesInv
  <1>4. CASE accepted = NoHandler
    <2>1. early' = early + 1 /\ given' = given
      BY <1>1, <1>4 DEF RxApp
    <2>2. early = Len(arrived)
      BY <1>1, <1>4 DEF MessagesInv
    <2>3. 1..(Len(arrived) - early) = {} /\ 1..(Len(arrived') - early') = {}
      BY <1>1, <1>3, <2>1, <2>2
    <2>4. given' = [k \in 1..(Len(arrived') - early') |-> <<accepted', arrived'[early' + k]>>]
      BY <1>1, <2>1, <2>3 DEF MessagesInv, OnlyEarlyAreLost
    <2>5. early' <= Len(arrived') /\ early' = Len(arrived')
      BY <1>3, <2>1, <2>2
    <2> QED
      BY <2>4, <2>5 DEF MessagesInv, OnlyEarlyAreLost
  <1>5. CASE accepted # NoHandler
    <2> DEFINE n == Len(arrived) - early
    <2>1. early' = early /\ given' = Append(given, <<accepted, code>>)
      BY <1>1, <1>5 DEF RxApp
    <2>2. n \in Nat /\ Len(arrived') - early' = n + 1 /\ early <= Len(arrived)
      BY <1>1, <1>3, <2>1 DEF MessagesInv
    <2>3. given = [k \in 1..n |-> <<accepted, arrived[early + k]>>]
      BY <1>1 DEF MessagesInv, OnlyEarlyAreLost
    <2>4. \A k \in 1..n : arrived'[early + k] = arrived[early + k]
      BY <1>1, <1>3, <2>2
    <2>5. arrived'[early + (n + 1)] = code
      BY <1>1, <1>3, <2>2
    <2> HIDE DEF n
    <2>6. Len(given) = n
      BY <2>2, <2>3
    <2>7. given' = [k \in 1..(n + 1) |-> IF k = n + 1 THEN <<accepted, code>> ELSE given[k]]
      BY <2>1, <2>6, <2>2, <1>1
    <2>8. ASSUME NEW k \in 1..(n + 1)
          PROVE  given'[k] = <<accepted, arrived'[early + k]>>
      <3>1. CASE k = n + 1
        BY <2>2, <2>5, <2>7, <3>1
      <3>2. CASE k # n + 1
        <4>1. k \in 1..n
          BY <2>2, <3>2
        <4> QED
          BY <2>3, <2>4, <2>7, <3>2, <4>1
      <3> QED
        BY <3>1, <3>2
    <2>9. given' = [k \in 1..(n + 1) |-> <<accepted, arrived'[early + k]>>]
      BY <2>7, <2>8
    <2>10. OnlyEarlyAreLost'
      BY <1>1, <2>1, <2>2, <2>9 DEF OnlyEarlyAreLost
    <2>11. early' <= Len(arrived') /\ accepted' # NoHandler
      BY <1>1, <1>3, <1>5, <2>1, <2>2
    <2> QED
      BY <2>10, <2>11 DEF MessagesInv
  <1> QED
    BY <1>4, <1>5

LEMMA StepsAreHInv ==
  HInv /\ [HciNext]_hciVars => HInv'
  <1> SUFFICES ASSUME HInv, [HciNext]_hciVars PROVE HInv'
    OBVIOUS
  <1>1. IInv' /\ TypeOK'
    BY StepsAreCalls, StepsAreSound, GoodGivesInvariant DEF HInv, Sound
  <1>2. CASE AppCall \/ RxEmpty \/ UNCHANGED hciVars
    BY <1>1, <1>2, ElsewhereIsHInv DEF AppCall, RxEmpty, hciVars
  <1>3. CASE (\E id \in VsIds, d \in Data \ {Huge} : RxPush(id, d))
             \/ (\E id \in VsIds : RxPushRunt(id) \/ RxPushIdOnly(id))
    BY <1>1, <1>3, ElsewhereIsHInv DEF RxPush, RxPushRunt, RxPushIdOnly
  <1>4. CASE \E h \in Handlers : InitAgain(h)
    BY <1>1, <1>4, ElsewhereIsHInv DEF InitAgain, hciVars
  <1>5. ASSUME NEW h \in Handlers, InitCall(h) PROVE HInv'
    <2>1. MessagesInv'
      BY <1>5, InitialisingIsHInv DEF InitCall
    <2>2. HciTypeOK' /\ TransportInv'
      BY <1>1, <1>5 DEF HInv, HciTypeOK, TransportInv, InitCall, messages
    <2> QED
      BY <1>1, <2>1, <2>2 DEF HInv
  <1>6. CASE InitOpen
    <2>1. HciTypeOK'
      BY <1>1, <1>6 DEF HInv, HciTypeOK, InitOpen, messages
    <2>2. TransportInv'
      BY <1>6 DEF HInv, HciTypeOK, TransportInv, InitOpen
    <2>3. MessagesInv'
      BY <1>6, InitialisingIsHInv DEF InitOpen
    <2> QED
      BY <1>1, <2>1, <2>2, <2>3 DEF HInv
  <1>7. CASE InitMark
    <2>1. MessagesInv'
      BY <1>7, InitialisingIsHInv DEF InitMark
    <2>2. HciTypeOK' /\ TransportInv'
      BY <1>1, <1>7 DEF HInv, HciTypeOK, TransportInv, InitMark, messages
    <2> QED
      BY <1>1, <2>1, <2>2 DEF HInv
  <1>8. CASE InitRegister
    <2>1. accepted = NoHandler /\ accepted' # NoHandler
      BY <1>8, HciTransportAssumption DEF HInv, HciTypeOK, TransportInv, InitRegister
    <2>2. MessagesInv'
      BY <1>8, <2>1, InitialisingIsHInv DEF InitRegister
    <2>3. HciTypeOK' /\ TransportInv'
      BY <1>1, <1>8, HciTransportAssumption
         DEF HInv, HciTypeOK, TransportInv, InitRegister, messages
    <2> QED
      BY <1>1, <2>2, <2>3 DEF HInv
  <1>9. ASSUME NEW code \in Codes, RxApp(code) PROVE HInv'
    <2>1. arrived' \in Seq(Codes) /\ early' \in Nat
      BY <1>9 DEF HInv, HciTypeOK, RxApp
    <2>2. given' \in Seq(Handlers \X Codes)
      <3>1. CASE handler = NoHandler
        BY <1>9, <3>1 DEF HInv, HciTypeOK, RxApp
      <3>2. CASE handler # NoHandler
        <4>1. <<handler, code>> \in Handlers \X Codes
          BY <1>9, <3>2 DEF HInv, HciTypeOK
        <4>2. given' = Append(given, <<handler, code>>) /\ given \in Seq(Handlers \X Codes)
          BY <1>9, <3>2 DEF HInv, HciTypeOK, RxApp
        <4> QED
          BY <4>1, <4>2, AppendProperties
      <3> QED
        BY <3>1, <3>2
    <2>3. HciTypeOK'
      BY <1>1, <1>9, <2>1, <2>2 DEF HInv, HciTypeOK, RxApp, transport
    <2>4. TransportInv'
      BY <1>9 DEF HInv, TransportInv, RxApp, transport
    <2>5. MessagesInv'
      BY <1>9, MessageIsHInv
    <2> QED
      BY <1>1, <2>3, <2>4, <2>5 DEF HInv
  <1> QED
    BY <1>2, <1>3, <1>4, <1>5, <1>6, <1>7, <1>8, <1>9 DEF HciNext

LEMMA HInvHolds ==
  HciSpec => []HInv
  BY InitIsHInv, StepsAreHInv, PTL DEF HciSpec

-----------------------------------------------------------------------------
(* Theorems. *)

(* Next to the transport and with a host that pushes what it likes, pushes *)
(* too short for a section included, the list still makes the steps that   *)
(* module VirtualNvram allows and no others: all that is proved of it      *)
(* holds here.                                                             *)
THEOREM PushesAreCalls ==
  HciSpec => Spec
  <1>1. HciInit => Init
    BY DEF HciInit
  <1> QED
    BY <1>1, StepsAreCalls, PTL DEF HciSpec, Spec

(* The host is told of every change, also of those it pushed itself.      *)
THEOREM ChangesToldWithHost ==
  HciSpec => EveryChangeIsTold
  BY PushesAreCalls, ChangesTold

(* And the list is the map of wiced_hal_nvram.h, whoever writes to it.     *)
THEOREM ListIsMapWithHost ==
  HciSpec => ImplementsStore
  BY PushesAreCalls, ListIsMap

(* What the application misses is what came before its call was accepted,  *)
(* and nothing else: no handler is entered too early, and none twice for   *)
(* one message.                                                            *)
THEOREM OnlyEarlyMessagesAreLost ==
  HciSpec => []OnlyEarlyAreLost
  <1>1. HInv => OnlyEarlyAreLost
    BY DEF HInv, MessagesInv
  <1> QED
    BY <1>1, HInvHolds, PTL

(* wiced_transport_init succeeds once at most, however often the           *)
(* application calls wiced_platform_transport_init and however often it    *)
(* fails.                                                                  *)
THEOREM TransportOpenedOnce ==
  HciSpec => []OpenedOnce
  <1>1. HInv => OpenedOnce
    BY DEF HInv, TransportInv, OpenedOnce
  <1> QED
    BY <1>1, HInvHolds, PTL

(* Each message for the application reaches the handler of the call that   *)
(* was accepted, from then on: the handler never changes again.            *)
THEOREM HandlerIsTheAccepted ==
  HciSpec => AcceptedGetsAll
  <1> DEFINE Gets == accepted # NoHandler /\ arrived' # arrived
                       => given' = Append(given, <<accepted, arrived'[Len(arrived')]>>)
  <1>1. HInv /\ [HciNext]_hciVars => [Gets]_hciVars
    <2> SUFFICES ASSUME HInv, [HciNext]_hciVars, accepted # NoHandler, arrived' # arrived
                 PROVE  given' = Append(given, <<accepted, arrived'[Len(arrived')]>>)
      OBVIOUS
    <2>1. PICK code \in Codes : RxApp(code)
      BY DEF HciNext, AppCall, InitCall, InitAgain, InitOpen, InitMark, InitRegister,
             RxPush, RxPushRunt, RxPushIdOnly, RxEmpty, hciVars, messages
    <2>2. arrived \in Seq(Codes) /\ arrived' = Append(arrived, code)
      BY <2>1 DEF HInv, HciTypeOK, RxApp
    <2>3. arrived'[Len(arrived')] = code
      BY <2>2
    <2>4. handler = accepted
      BY DEF HInv, TransportInv
    <2> QED
      BY <2>1, <2>3, <2>4 DEF RxApp
  <1> QED
    BY <1>1, HInvHolds, PTL DEF HciSpec, AcceptedGetsAll

(* A push of one byte, taken as 65535 bytes, stores nothing as long as no  *)
(* block of the pool has room for them (the largest has 572 bytes).        *)
THEOREM RuntsStoreNothing ==
  ASSUME \A c \in Cats : Size[c] < 65535 + HeaderSize
  PROVE  HciSpec => []RuntStoresNothing
  <1>1. IInv => RuntStoresNothing
    <2> SUFFICES ASSUME IInv, NEW k \in DOMAIN nvram, nvram[k].data = Huge PROVE FALSE
      BY DEF RuntStoresNothing
    <2>1. HeaderSize + 65535 <= Size[nvram[k].cat]
      BY HciTransportAssumption DEF IInv, EntriesFit
    <2>2. nvram[k] \in Entries
      BY GoodIsInvariant, LenProperties, ElementOfSeq DEF Good
    <2>3. nvram[k].cat \in Cats
      BY <2>2 DEF Entries
    <2>4. Size[nvram[k].cat] \in Nat
      BY <2>3, ConstantTypes
    <2> QED
      BY <2>1, <2>3, <2>4 DEF HeaderSize
  <1>2. HInv => IInv
    BY DEF HInv
  <1> QED
    BY <1>1, <1>2, HInvHolds, PTL

==============================================================================
