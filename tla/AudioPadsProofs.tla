-------------------------- MODULE AudioPadsProofs ---------------------------
(***************************************************************************)
(* Proofs about AudioPads, for any boards, reset values and later calls.   *)
(***************************************************************************)
EXTENDS AudioPads, TLAPS

(* Every pad has a field of its own. *)
LEMMA OwnField ==
  \A p \in Pads :
    /\ FcnField(p)[1] \in {5, 6} /\ FcnField(p)[2] \in FcnShifts
    /\ FcnField(p) = <<FcnField(p)[1], FcnField(p)[2]>>
    /\ \A q \in Pads : q # p => FcnField(q)[1] # FcnField(p)[1]
                                \/ FcnField(q)[2] # FcnField(p)[2]
  <1>1. /\ FcnField(24) = <<6, 4>> /\ FcnField(25) = <<6, 0>>
        /\ FcnField(26) = <<5, 24>> /\ FcnField(27) = <<5, 28>>
        /\ FcnField(28) = <<6, 8>>
    BY DEF FcnField
  <1>2. \A p \in Pads : p = 24 \/ p = 25 \/ p = 26 \/ p = 27 \/ p = 28
    BY DEF Pads
  <1> QED
    BY <1>1, <1>2 DEF FcnShifts

LEMMA CodeFits == \A f : Code(f) \subseteq 0..3
  BY DEF Code

LEMMA EncodedFits == \A flags : Encoded(flags) \subseteq 0..7
  BY DEF Encoded

LEMMA OwnConfigField ==
  \A p \in Pads : ConfigField(p)[1] \in {13, 14} /\ ConfigField(p)[2] \in ConfigShifts
  <1>1. /\ ConfigField(24) = <<13, 8>> /\ ConfigField(25) = <<13, 0>>
        /\ ConfigField(28) = <<13, 16>> /\ ConfigField(26) = <<14, 16>>
        /\ ConfigField(27) = <<14, 24>>
    BY DEF ConfigField
  <1>2. \A p \in Pads : p = 24 \/ p = 25 \/ p = 26 \/ p = 27 \/ p = 28
    BY DEF Pads
  <1> QED
    BY <1>1, <1>2 DEF ConfigShifts

-----------------------------------------------------------------------------

(* The two halves of TypeOK that a call can disturb. *)
FcnType == /\ fcn \in [{5, 6} -> [FcnShifts -> SUBSET (0..3)]]
           /\ DOMAIN selected = Pads
ConfigType == /\ config \in [{13, 14} -> [ConfigShifts -> SUBSET (0..7)]]
              /\ DOMAIN configured = Pads

(* A selection stays within the fields, of the register and of its pad. *)
LEMMA SelectKeepsType ==
  ASSUME TypeOK, NEW p \in Pads, NEW f, aud_i2s_gpio_select_function(p, f)
  PROVE  FcnType' /\ ConfigType'
  <1> DEFINE r == FcnField(p)[1]
             s == FcnField(p)[2]
             new == Into(fcn[r], s, Code(f))
  <1>1. r \in {5, 6} /\ s \in FcnShifts
    BY OwnField
  <1>2. fcn' = [fcn EXCEPT ![r] = new]
    BY DEF aud_i2s_gpio_select_function
  <1>3. Code(f) \in SUBSET (0..3)
    BY CodeFits
  <1>4. fcn[r] \in [FcnShifts -> SUBSET (0..3)]
    BY <1>1 DEF TypeOK
  <1>5. new \in [FcnShifts -> SUBSET (0..3)]
    BY <1>1, <1>3, <1>4 DEF Into, Clear
  <1> HIDE DEF r, s, new
  <1>6. fcn' \in [{5, 6} -> [FcnShifts -> SUBSET (0..3)]]
    BY <1>1, <1>2, <1>5 DEF TypeOK
  <1>7. DOMAIN selected' = Pads
    BY DEF aud_i2s_gpio_select_function, TypeOK
  <1> QED
    BY <1>6, <1>7 DEF aud_i2s_gpio_select_function, TypeOK, FcnType, ConfigType

(* And so does a configuration. *)
LEMMA ConfigureKeepsType ==
  ASSUME TypeOK, NEW p \in Pads, NEW flags, aud_i2s_gpio_configure_pin(p, flags)
  PROVE  FcnType' /\ ConfigType'
  <1> DEFINE r == ConfigField(p)[1]
             s == ConfigField(p)[2]
             new == IntoConfig(config[r], s, Encoded(flags))
  <1>1. r \in {13, 14} /\ s \in ConfigShifts
    BY OwnConfigField
  <1>2. config' = [config EXCEPT ![r] = new]
    BY DEF aud_i2s_gpio_configure_pin
  <1>3. Encoded(flags) \in SUBSET (0..7)
    BY EncodedFits
  <1>4. config[r] \in [ConfigShifts -> SUBSET (0..7)]
    BY <1>1 DEF TypeOK
  <1>5. new \in [ConfigShifts -> SUBSET (0..7)]
    BY <1>1, <1>3, <1>4 DEF IntoConfig
  <1> HIDE DEF r, s, new
  <1>6. config' \in [{13, 14} -> [ConfigShifts -> SUBSET (0..7)]]
    BY <1>1, <1>2, <1>5 DEF TypeOK
  <1>7. DOMAIN configured' = Pads
    BY DEF aud_i2s_gpio_configure_pin, TypeOK
  <1> QED
    BY <1>6, <1>7 DEF aud_i2s_gpio_configure_pin, TypeOK, FcnType, ConfigType

(* TypeOK: no value ever leaves its field. *)
THEOREM FieldsKept == Spec => []TypeOK
  <1>1. Init => TypeOK
    <2> SUFFICES ASSUME Init PROVE TypeOK
      OBVIOUS
    <2>1. board \in Boards /\ reset \in Resets /\ step \in Nat
      BY DEF Init
    <2>2. reset \in SUBSET (0..3) /\ reset \in SUBSET (0..7)
      BY <2>1, AudioPadsAssumption DEF AudioPadsAssumption
    <2>3. fcn \in [{5, 6} -> [FcnShifts -> SUBSET (0..3)]]
      BY <2>2 DEF Init
    <2>4. config \in [{13, 14} -> [ConfigShifts -> SUBSET (0..7)]]
      BY <2>2 DEF Init
    <2> QED
      BY <2>1, <2>3, <2>4 DEF Init, TypeOK
  <1>2. TypeOK /\ [Next]_vars => TypeOK'
    <2> SUFFICES ASSUME TypeOK, [Next]_vars PROVE TypeOK'
      OBVIOUS
    <2>1. CASE InitFunction
      <3>1. FcnType' /\ ConfigType'
        BY <2>1, SelectKeepsType DEF InitFunction
      <3> QED
        BY <2>1, <3>1 DEF InitFunction, TypeOK, FcnType, ConfigType
    <2>2. CASE InitConfig
      <3>1. FcnType' /\ ConfigType'
        BY <2>2, ConfigureKeepsType DEF InitConfig
      <3> QED
        BY <2>2, <3>1 DEF InitConfig, TypeOK, FcnType, ConfigType
    <2>3. CASE InitHal
      BY <2>3 DEF InitHal, TypeOK
    <2>4. CASE AppSelect
      <3>1. FcnType' /\ ConfigType'
        BY <2>4, SelectKeepsType DEF AppSelect
      <3> QED
        BY <2>4, <3>1 DEF AppSelect, TypeOK, FcnType, ConfigType
    <2>5. CASE AppConfigure
      <3>1. FcnType' /\ ConfigType'
        BY <2>5, ConfigureKeepsType DEF AppConfigure
      <3> QED
        BY <2>5, <3>1 DEF AppConfigure, TypeOK, FcnType, ConfigType
    <2>6. CASE UNCHANGED vars
      BY <2>6 DEF vars, TypeOK
    <2> QED
      BY <2>1, <2>2, <2>3, <2>4, <2>5, <2>6 DEF Next
  <1> QED
    BY <1>1, <1>2, PTL DEF Spec

-----------------------------------------------------------------------------

(* A selection changes its own field and no other. *)
LEMMA SelectSetsOwnField ==
  ASSUME TypeOK, NEW p \in Pads, NEW f, aud_i2s_gpio_select_function(p, f),
         NEW r \in {5, 6}, NEW s \in FcnShifts
  PROVE  fcn'[r][s] = IF r = FcnField(p)[1] /\ s = FcnField(p)[2]
                      THEN Code(f) ELSE fcn[r][s]
  <1> DEFINE rp == FcnField(p)[1]
             sp == FcnField(p)[2]
             new == Into(fcn[rp], sp, Code(f))
  <1>1. rp \in {5, 6} /\ sp \in FcnShifts
    BY OwnField
  <1>2. fcn \in [{5, 6} -> [FcnShifts -> SUBSET (0..3)]] /\ fcn[rp] \in [FcnShifts -> SUBSET (0..3)]
    BY <1>1 DEF TypeOK
  <1>3. fcn' = [fcn EXCEPT ![rp] = new]
    BY DEF aud_i2s_gpio_select_function
  <1>4. new[s] = IF s = sp THEN Code(f) ELSE fcn[rp][s]
    BY <1>1, <1>2 DEF Into, Clear
  <1>5. fcn'[r] = IF r = rp THEN new ELSE fcn[r]
    BY <1>1, <1>2, <1>3
  <1> QED
    BY <1>4, <1>5

(* SelectedLast survives a selection... *)
LEMMA SelectKeepsLast ==
  ASSUME TypeOK, SelectedLast, NEW p \in Pads, NEW f, f # Nothing,
         aud_i2s_gpio_select_function(p, f), reset' = reset
  PROVE  SelectedLast'
  <1> DEFINE r(q) == FcnField(q)[1]
             s(q) == FcnField(q)[2]
  <1>1. selected' = [selected EXCEPT ![p] = f] /\ DOMAIN selected = Pads
    BY DEF aud_i2s_gpio_select_function, TypeOK
  <1>2. FcnType'
    BY SelectKeepsType
  <1>3. ASSUME NEW q \in Pads
        PROVE  fcn'[r(q)][s(q)] = IF selected'[q] = Nothing THEN reset' ELSE Code(selected'[q])
    <2>1. r(q) \in {5, 6} /\ s(q) \in FcnShifts
      BY OwnField
    <2>2. fcn'[r(q)][s(q)] = IF r(q) = r(p) /\ s(q) = s(p) THEN Code(f) ELSE fcn[r(q)][s(q)]
      BY <2>1, SelectSetsOwnField
    <2>3. fcn[r(q)][s(q)] = IF selected[q] = Nothing THEN reset ELSE Code(selected[q])
      BY DEF SelectedLast
    <2>4. CASE q = p
      BY <2>2, <2>4, <1>1
    <2>5. CASE q # p
      <3>1. ~(r(q) = r(p) /\ s(q) = s(p))
        BY <2>5, OwnField
      <3> QED
        BY <2>2, <2>3, <2>5, <3>1, <1>1
    <2> QED
      BY <2>4, <2>5
  <1>4. ASSUME NEW x \in DOMAIN fcn', NEW y \in DOMAIN fcn'[x],
               \A q \in Pads : FcnField(q) # <<x, y>>
        PROVE  fcn'[x][y] = reset'
    <2>1. x \in {5, 6} /\ y \in FcnShifts
      BY <1>2 DEF FcnType
    <2>2. ~(x = r(p) /\ y = s(p))
      BY <1>4, OwnField
    <2>3. fcn'[x][y] = fcn[x][y]
      BY <2>1, <2>2, SelectSetsOwnField
    <2>4. x \in DOMAIN fcn /\ y \in DOMAIN fcn[x]
      BY <2>1 DEF TypeOK
    <2> QED
      BY <1>4, <2>3, <2>4 DEF SelectedLast
  <1> QED
    BY <1>3, <1>4 DEF SelectedLast

(* ... and whatever leaves functions alone. *)
LEMMA OthersKeepLast ==
  ASSUME SelectedLast, UNCHANGED <<fcn, selected, reset>>
  PROVE  SelectedLast'
  BY DEF SelectedLast

(* SelectedLast: each pad has the function selected last for it, and the   *)
(* fields of other pads are never touched, for any tables and calls.       *)
THEOREM LastFunctionStays == Spec => []SelectedLast
  <1>1. Init => SelectedLast
    <2> SUFFICES ASSUME Init PROVE SelectedLast
      OBVIOUS
    <2>1. fcn = [r \in {5, 6} |-> [s \in FcnShifts |-> reset]]
      BY DEF Init
    <2>2. \A r \in {5, 6} : \A s \in FcnShifts : fcn[r][s] = reset
      BY <2>1
    <2>3. \A p \in Pads : selected[p] = Nothing
      BY DEF Init
    <2>4. \A p \in Pads : fcn[FcnField(p)[1]][FcnField(p)[2]] = reset
      BY <2>2, OwnField
    <2>5. \A r \in DOMAIN fcn : \A s \in DOMAIN fcn[r] : fcn[r][s] = reset
      BY <2>1
    <2> QED
      BY <2>3, <2>4, <2>5 DEF SelectedLast
  <1>2. TypeOK /\ SelectedLast /\ [Next]_vars => SelectedLast'
    <2> SUFFICES ASSUME TypeOK, SelectedLast, [Next]_vars PROVE SelectedLast'
      OBVIOUS
    <2>1. CASE InitFunction
      <3> DEFINE row == board.pins[step]
      <3>1. row.pin \in Pads /\ aud_i2s_gpio_select_function(row.pin, row.function)
            /\ reset' = reset
        BY <2>1 DEF InitFunction
      <3>2. row.function # Nothing
        BY <2>1, AudioPadsAssumption DEF InitFunction, TypeOK, AudioPadsAssumption
      <3> QED
        BY <3>1, <3>2, SelectKeepsLast
    <2>2. CASE InitConfig
      BY <2>2, OthersKeepLast DEF InitConfig, aud_i2s_gpio_configure_pin
    <2>3. CASE InitHal
      BY <2>3, OthersKeepLast DEF InitHal
    <2>4. CASE AppSelect
      <3>1. PICK p \in Pads, f \in Functions : aud_i2s_gpio_select_function(p, f)
        BY <2>4 DEF AppSelect
      <3>2. f # Nothing
        BY AudioPadsAssumption DEF AudioPadsAssumption
      <3> QED
        BY <2>4, <3>1, <3>2, SelectKeepsLast DEF AppSelect
    <2>5. CASE AppConfigure
      BY <2>5, OthersKeepLast DEF AppConfigure, aud_i2s_gpio_configure_pin
    <2>6. CASE UNCHANGED vars
      BY <2>6, OthersKeepLast DEF vars
    <2> QED
      BY <2>1, <2>2, <2>3, <2>4, <2>5, <2>6 DEF Next
  <1> QED
    BY <1>1, <1>2, FieldsKept, PTL DEF Spec

==============================================================================
