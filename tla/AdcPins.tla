-------------------------------- MODULE AdcPins --------------------------------
(***************************************************************************)
(* The pins that can be sampled: the tables of __init__.py (clamp,          *)
(* adc_continous and clamp2 each have a copy) and validate_adc_pin.         *)
(***************************************************************************)
EXTENDS Integers, Sequences

ESP32Variants == {"ESP32", "ESP32S2", "ESP32S3", "ESP32C2", "ESP32C3", "ESP32C6",
                  "ESP32H2"}

\* ESP32_VARIANT_ADC1_PIN_TO_CHANNEL: the channel of each pin of the first
\* converter.
Adc1Channel ==
  [ESP32   |-> [p \in 32 .. 39 |-> IF p >= 36 THEN p - 36 ELSE p - 28],
   ESP32S2 |-> [p \in 1 .. 10 |-> p - 1],
   ESP32S3 |-> [p \in 1 .. 10 |-> p - 1],
   ESP32C2 |-> [p \in 0 .. 4 |-> p],
   ESP32C3 |-> [p \in 0 .. 4 |-> p],
   ESP32C6 |-> [p \in 0 .. 6 |-> p],
   ESP32H2 |-> [p \in 1 .. 5 |-> p - 1]]

\* ESP32_VARIANT_ADC2_PIN_TO_CHANNEL: of the second converter.
Adc2Channel ==
  LET pins == <<4, 0, 2, 15, 13, 12, 14, 27, 25, 26>>
  IN  [ESP32   |-> [p \in {pins[i] : i \in 1 .. 10} |->
                      CHOOSE c \in 0 .. 9 : pins[c + 1] = p],
       ESP32S2 |-> [p \in 11 .. 20 |-> p - 11],
       ESP32S3 |-> [p \in 11 .. 20 |-> p - 11],
       ESP32C2 |-> [p \in {} |-> 0],
       ESP32C3 |-> [p \in {5} |-> 0],
       ESP32C6 |-> [p \in {} |-> 0],
       ESP32H2 |-> [p \in {} |-> 0]]

OnAdc1(variant, pin) == pin \in DOMAIN Adc1Channel[variant]
OnAdc2(variant, pin) == pin \in DOMAIN Adc2Channel[variant]

\* The channel that code generation passes to set_channel or set_channel2.
ChannelOf(variant, pin) ==
  IF OnAdc1(variant, pin) THEN Adc1Channel[variant][pin] ELSE Adc2Channel[variant][pin]

\* validate_adc_pin, for an ESP32 (the firmware needs its converter's driver;
\* "VCC" and "TEMPERATURE" are for other chips).
ValidAdcPin(variant, pin) ==
  /\ variant \in ESP32Variants
  /\ OnAdc1(variant, pin) \/ OnAdc2(variant, pin)
==============================================================================
