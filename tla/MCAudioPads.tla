----------------------------- MODULE MCAudioPads -----------------------------
(* Two products.  One leaves MCK alone and drives an LED from DO; the other*)
(* uses all five pads, lists one of them twice, and has pins of the HAL    *)
(* between them.                                                           *)
EXTENDS AudioPads

Selects(p, f) == [pin |-> p, function |-> f]
Sets(p, flags) == [pin |-> p, config |-> flags]

MCBoards ==
  { [pins |-> <<Selects(26, "A_GPIO"), Selects(24, "AUDIO"), Selects(28, "AUDIO")>>,
     leds |-> <<Sets(26, {"GPIO_OUTPUT_ENABLE"})>>,
     buttons |-> <<>>, gpios |-> <<>>],
    [pins |-> <<Selects(28, "AUDIO"), Selects(27, "AUDIO"), Selects(5, "UART"),
                Selects(25, "PWM"), Selects(24, "A_GPIO"), Selects(26, "AUDIO"),
                Selects(24, "AUDIO")>>,
     leds |-> <<Sets(5, {"GPIO_OUTPUT_ENABLE"})>>,
     buttons |-> <<Sets(24, {"GPIO_PULL_UP"})>>,
     gpios |-> <<Sets(25, {"GPIO_HYSTERESIS_ON", "GPIO_PULL_DOWN"}),
                 Sets(27, {"GPIO_PULL_UP", "GPIO_PULL_DOWN"})>>] }

MCResets == {{}, {1}, {0, 3}}
MCConfigs == {{"GPIO_PULL_UP"}}
MCFunctions == {"A_GPIO", "AUDIO", "PWM"}
==============================================================================
