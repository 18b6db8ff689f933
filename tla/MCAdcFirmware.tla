---------------------------- MODULE MCAdcFirmware ----------------------------
(* Instances of AdcFirmware for TLC. *)
EXTENDS AdcFirmware

Written(component, wifi, voltage, current, phase, attenuation, samples, frequency) ==
  [component |-> component, variant |-> "ESP32", wifi |-> wifi, raw |-> FALSE,
   voltage |-> voltage, current |-> current, phase |-> phase,
   attenuation |-> attenuation, samples |-> samples, frequency |-> frequency]

\* A pin of each converter, and one of none; other chips.
OnePin ==
  {[Written("adc_continous", w, <<p>>, <<>>, <<>>, a, s, f) EXCEPT !.raw = r, !.variant = v] :
     w \in BOOLEAN, p \in {4, 5, 34}, a \in {"unset", "11db", "auto"}, s \in {Unset, 2},
     f \in {Unset, 50}, r \in BOOLEAN, v \in {"ESP32", "ESP32C3", "ESP32S2"}}

Clamp ==
  {Written("clamp", w, <<p[1]>>, <<p[2], p[3], p[4]>>, <<0, 0, 0>>, a, s, Unset) :
     w \in BOOLEAN, p \in {<<34, 35, 36, 39>>, <<34, 35, 36, 4>>, <<4, 0, 2, 15>>, <<34, 36, 36, 39>>},
     a \in {"unset", "11db", "auto"}, s \in {1, Unset}}

\* Pins 14 and 34 have the same channel of their converters.
Clamp2 ==
  UNION {{Written("clamp2", w, v, c, [i \in DOMAIN c |-> IF i = 2 THEN d ELSE 0], a, s, f) :
            w \in BOOLEAN, v \in {<<>>, <<34>>, <<14>>, <<34, 35>>}, d \in {-90, 0, 90},
            a \in {"unset", "auto"}, s \in {1, 3}, f \in {Unset, 50}} :
           c \in {<<>>, <<36>>, <<36, 39>>, <<36, 39, 32>>, <<14, 39, 32>>, <<36, 36, 32>>,
                  <<36, 39, 32, 33>>}}

MCConfigs == OnePin \cup Clamp \cup Clamp2
==============================================================================
