------------------------------ MODULE AudioPads ------------------------------
(***************************************************************************)
(* The pads of the audio interface, WICED_GPIO_24 to WICED_GPIO_28, as     *)
(* platforms/wiced_platform.c sets them: their function in a 4 bit field of*)
(* a function register, their electrical configuration in a byte of a      *)
(* configuration register.  Each register is shared by several pads and    *)
(* updated by reading it and writing it back.  Pins below 24 go through    *)
(* the HAL, which is external and touches none of these registers.         *)
(*                                                                         *)
(* A register is a function from the positions of its fields to the sets   *)
(* of bits that are set there.                                             *)
(***************************************************************************)
EXTENDS Naturals, Sequences

CONSTANTS
  Boards,    (* generated tables: [pins, leds, buttons, gpios]            *)
  Resets,    (* what the fields may hold before wiced_platform_init       *)
  Functions, (* functions an application selects later                    *)
  Configs,   (* configurations an application sets later                  *)
  Nothing    (* no request for a pad yet                                  *)

Pads == 24..28

Flags == {"GPIO_PULL_UP", "GPIO_PULL_DOWN", "GPIO_OUTPUT_ENABLE", "GPIO_HYSTERESIS_ON"}

ASSUME AudioPadsAssumption ==
  /\ Resets \subseteq SUBSET (0..3)
  /\ Configs \subseteq SUBSET Flags
  /\ Nothing \notin Functions
  /\ \A b \in Boards : \A k \in DOMAIN b.pins : b.pins[k].function # Nothing

VARIABLES
  board,     (* the tables of this product                                *)
  reset,     (* history: what all fields held at first                    *)
  fcn,       (* cr_pad_fcn_ctl_adr5 and adr6                              *)
  config,    (* cr_pad_config_adr13 and adr14                             *)
  step,      (* how far wiced_platform_init is                            *)
  selected,  (* history: the last function selected for each pad          *)
  configured (* history: the last configuration of each pad               *)

vars == <<board, reset, fcn, config, step, selected, configured>>

FcnShifts == {0, 4, 8, 12, 16, 20, 24, 28}
ConfigShifts == {0, 8, 16, 24}

(* No value leaves its field: 4 bits for a function, 8 for a configuration.*)
TypeOK ==
  /\ board \in Boards /\ reset \in Resets /\ step \in Nat
  /\ fcn \in [{5, 6} -> [FcnShifts -> SUBSET (0..3)]]
  /\ config \in [{13, 14} -> [ConfigShifts -> SUBSET (0..7)]]
  /\ DOMAIN selected = Pads /\ DOMAIN configured = Pads

Init ==
  /\ board \in Boards /\ reset \in Resets
  /\ fcn = [r \in {5, 6} |-> [s \in FcnShifts |-> reset]]
  /\ config = [r \in {13, 14} |-> [s \in ConfigShifts |-> reset]]
  /\ step = 1
  /\ selected = [p \in Pads |-> Nothing]
  /\ configured = [p \in Pads |-> Nothing]

-----------------------------------------------------------------------------

(* Where a pad's function is: register and shift. *)
FcnField(p) ==
  CASE p = 24 -> <<6, 4>> [] p = 25 -> <<6, 0>> [] p = 26 -> <<5, 24>>
    [] p = 27 -> <<5, 28>> [] p = 28 -> <<6, 8>>

(* The code of a function: AUD_I2S_SELECT_A_GPIO, AUD_I2S_SELECT_*         *)
(* (WICED_AUDIO_I2S_TARGET), and 0 for functions the pad does not have.  A *)
(* slip: a code of five bits.                                              *)
CodeWide(f) == CASE f = "A_GPIO" -> {0, 1} [] f = "AUDIO" -> {4} [] OTHER -> {}

Code(f) == CASE f = "A_GPIO" -> {0, 1} [] f = "AUDIO" -> {1} [] OTHER -> {}

(* A slip: the functions of the other pads are cleared, too. *)
ClearAll(reg, s) == [x \in DOMAIN reg |-> {}]

Clear(reg, s) == [reg EXCEPT ![s] = {}]

(* Read, mask, write back, read, set, write back. *)
Into(reg, s, bits) ==
  LET cleared == Clear(reg, s) IN [cleared EXCEPT ![s] = cleared[s] \cup bits]

aud_i2s_gpio_select_function(p, f) ==
  LET r == FcnField(p)[1]
      s == FcnField(p)[2]
  IN  /\ fcn' = [fcn EXCEPT ![r] = Into(fcn[r], s, Code(f))]
      /\ selected' = [selected EXCEPT ![p] = f]
      /\ UNCHANGED <<config, configured>>

(* Where a pad's configuration is. *)
ConfigField(p) ==
  CASE p = 24 -> <<13, 8>> [] p = 25 -> <<13, 0>> [] p = 28 -> <<13, 16>>
    [] p = 26 -> <<14, 16>> [] p = 27 -> <<14, 24>>

(* The byte for a set of flags.  Both pulls together are how the HAL spells*)
(* GPIO_INPUT_DISABLE.                                                     *)
Encoded(flags) ==
  {0 : x \in flags \cap {"GPIO_OUTPUT_ENABLE"}}
  \cup {1 : x \in flags \cap {"GPIO_PULL_UP"}}
  \cup {2 : x \in flags \cap {"GPIO_PULL_DOWN"}}
  \cup {3 : x \in flags \cap {"GPIO_HYSTERESIS_ON"}}
  \cup {6 : x \in {y \in {1} : {"GPIO_PULL_UP", "GPIO_PULL_DOWN"} \subseteq flags}}

(* The mask is 0xff << shift: it keeps the pad's old byte and clears the   *)
(* other pads of the register.                                             *)
IntoConfig(reg, s, bits) ==
  [x \in DOMAIN reg |-> IF x = s THEN reg[s] \cup bits ELSE {}]

aud_i2s_gpio_configure_pin(p, flags) ==
  LET r == ConfigField(p)[1]
      s == ConfigField(p)[2]
  IN  /\ config' = [config EXCEPT ![r] = IntoConfig(config[r], s, Encoded(flags))]
      /\ configured' = [configured EXCEPT ![p] = flags]
      /\ UNCHANGED <<fcn, selected>>

-----------------------------------------------------------------------------

(* The loops of wiced_platform_init, one after the other. *)
Rows == board.pins \o board.leds \o board.buttons \o board.gpios

Row == Rows[step]

InitFunction ==
  /\ step \in DOMAIN board.pins
  /\ LET row == board.pins[step]
     IN  row.pin \in Pads /\ aud_i2s_gpio_select_function(row.pin, row.function)
  /\ step' = step + 1
  /\ UNCHANGED <<board, reset>>

InitConfig ==
  /\ step \in DOMAIN Rows \ DOMAIN board.pins /\ Row.pin \in Pads
  /\ aud_i2s_gpio_configure_pin(Row.pin, Row.config)
  /\ step' = step + 1
  /\ UNCHANGED <<board, reset>>

(* A pin that the HAL looks after. *)
InitHal ==
  /\ step \in DOMAIN Rows /\ Row.pin \notin Pads
  /\ step' = step + 1
  /\ UNCHANGED <<board, reset, fcn, config, selected, configured>>

Done == step > Len(Rows)

(* Later the application calls the two functions as it likes. *)
AppSelect ==
  /\ Done
  /\ \E p \in Pads, f \in Functions : aud_i2s_gpio_select_function(p, f)
  /\ UNCHANGED <<board, reset, step>>

AppConfigure ==
  /\ Done
  /\ \E p \in Pads, flags \in Configs : aud_i2s_gpio_configure_pin(p, flags)
  /\ UNCHANGED <<board, reset, step>>

Next == InitFunction \/ InitConfig \/ InitHal \/ AppSelect \/ AppConfigure

Spec == Init /\ [][Next]_vars

-----------------------------------------------------------------------------
(* Properties. *)

(* Whatever the order of the rows and calls, a pad has the function that   *)
(* was selected last for it, and a field nobody selected is as it was.     *)
SelectedLast ==
  /\ \A p \in Pads :
       fcn[FcnField(p)[1]][FcnField(p)[2]] =
         IF selected[p] = Nothing THEN reset ELSE Code(selected[p])
  /\ \A r \in DOMAIN fcn : \A s \in DOMAIN fcn[r] :
       (\A p \in Pads : FcnField(p) # <<r, s>>) => fcn[r][s] = reset

(* "Initialize LEDs", "Initialize buttons with the default configuration", *)
(* "Initialize GPIOs with the default configuration": when                 *)
(* wiced_platform_init is done, each pad is configured as its row says.    *)
ConfiguredByInit ==
  step = Len(Rows) + 1 =>
    \A p \in Pads : configured[p] # Nothing =>
      config[ConfigField(p)[1]][ConfigField(p)[2]] = Encoded(configured[p])

==============================================================================
