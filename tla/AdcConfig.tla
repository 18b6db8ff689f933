------------------------------- MODULE AdcConfig -------------------------------
(***************************************************************************)
(* From the YAML of the sampling sensors (adc_continous, clamp, clamp2) to  *)
(* a firmware: the schema and validate_config, the final validation, the    *)
(* setters that to_code generates, and the compiler, which knows only the   *)
(* members that the component's header declares.                            *)
(***************************************************************************)
EXTENDS AdcPins, SequencesExt

CONSTANT Configs   \* what users write

Unset == -1        \* an option that is left out

Yaml ==
  [component : {"adc_continous", "clamp", "clamp2"},
   variant : ESP32Variants, wifi : BOOLEAN, raw : BOOLEAN,
   voltage : Seq(Nat), current : Seq(Nat), phase : Seq(Int),
   attenuation : {"unset", "0db", "2.5db", "6db", "11db", "12db", "auto"},
   samples : Nat \cup {Unset}, frequency : Nat \cup {Unset}]

Pins(c)    == c.voltage \o c.current
NumPins(c) == Len(c.voltage) + Len(c.current)

\* A phase for each current pin; channel[] and channels[] have ten entries.
Wellformed(c) == c \in Yaml /\ Len(c.phase) = Len(c.current) /\ NumPins(c) <= 10

ASSUME ConfigsAssumption == \A c \in Configs : Wellformed(c)

VARIABLES
  config,  \* as written, then as validation leaves it
  stage,   \* how far it has come
  calls    \* the calls of set_channel and set_channel2, in order

vars == <<config, stage, calls>>

Init ==
  /\ config \in Configs
  /\ stage = "written"
  /\ calls = <<>>
-----------------------------------------------------------------------------
(* CONFIG_SCHEMA *)

Default ==
  [adc_continous |-> [attenuation |-> "0db", samples |-> 1, frequency |-> 20000],
   clamp         |-> [attenuation |-> "12db", samples |-> 1400, frequency |-> 20000],
   clamp2        |-> [attenuation |-> "12db", samples |-> 1400, frequency |-> 50000]]

WithDefaults(c) ==
  LET d == Default[c.component]
  IN  [c EXCEPT !.attenuation = IF @ = "unset" THEN d.attenuation ELSE @,
                !.samples     = IF @ = Unset THEN d.samples ELSE @,
                !.frequency   = IF @ = Unset THEN d.frequency ELSE @]

\* The frequencies that the converter can have, and the samples of a frame.
Frequencies  == 20000 .. 8000000
SampleCounts == 1 .. 4096

\* One pin.
SchemaAdcContinous(c) ==
  Len(c.voltage) = 1 /\ c.current = <<>> /\ c.frequency \in Frequencies

\* pinV, pinA1, pinA2, pinA3, and no phases.
SchemaClamp(c) ==
  /\ Len(c.voltage) = 1 /\ c.phase = <<0, 0, 0>>
  /\ c.frequency \in Frequencies

\* Lists of any length. The frequency is that of the mains: the default, which
\* is validated like a value the user gives, is outside.
SchemaClamp2(c) == c.frequency \in 50 .. 60

Schema(c) ==
  /\ \A p \in ToSet(Pins(c)) : ValidAdcPin(c.variant, p)
  /\ c.samples \in SampleCounts
  /\ \/ c.component = "adc_continous" /\ SchemaAdcContinous(c)
     \/ c.component = "clamp" /\ SchemaClamp(c)
     \/ c.component = "clamp2" /\ SchemaClamp2(c)

\* validate_config
AutoFits(c)   == c.attenuation = "auto" => ~c.raw /\ c.samples <= 1
Normalised(c) == [c EXCEPT !.attenuation = IF @ = "11db" THEN "12db" ELSE @]

Validate ==
  /\ stage = "written"
  /\ LET c == WithDefaults(config) IN
     IF Schema(c) /\ AutoFits(c)
       THEN config' = Normalised(c) /\ stage' = "valid"
       ELSE UNCHANGED config /\ stage' = "rejected"
  /\ UNCHANGED calls

\* final_validate_config: with Wi-Fi, not every pin may be on the second
\* converter (for adc_continous: not the one pin).
UsableWithWifi(c) == \E p \in ToSet(Pins(c)) : ~OnAdc2(c.variant, p)

FinalValidate ==
  /\ stage = "valid"
  /\ stage' = IF config.wifi => UsableWithWifi(config) THEN "accepted" ELSE "rejected"
  /\ UNCHANGED <<config, calls>>
-----------------------------------------------------------------------------
(* to_code *)

\* The channel of a pin is an adc_channel_t or an adc2_channel_t.
Setter(name, index, c, pin) ==
  [name |-> name, index |-> index, channel |-> ChannelOf(c.variant, pin),
   converter |-> IF OnAdc1(c.variant, pin) THEN 1 ELSE 2]

\* A pin of the second converter gets a setter of its own.
ByConverter(c, pin) == IF OnAdc1(c.variant, pin) THEN "set_channel" ELSE "set_channel2"

CallsAdcContinous(c) == <<Setter(ByConverter(c, c.voltage[1]), 0, c, c.voltage[1])>>

CallsClamp(c) ==
  [i \in 1 .. NumPins(c) |-> Setter(ByConverter(c, Pins(c)[i]), i - 1, c, Pins(c)[i])]

\* The first voltage pin, and the current pins.
Sampled(c) == <<c.voltage[1]>> \o c.current

\* (mutant of CallsClamp2: the current channels are counted from 0)
CallsClamp2FromZero(c) ==
  [i \in 1 .. Len(Sampled(c)) |->
     Setter("set_channel", IF i = 1 THEN 0 ELSE i - 2, c, Sampled(c)[i])]

CallsClamp2(c) ==
  [i \in 1 .. Len(Sampled(c)) |-> Setter("set_channel", i - 1, c, Sampled(c)[i])]

Calls(c) ==
  IF c.component = "adc_continous" THEN CallsAdcContinous(c)
  ELSE IF c.component = "clamp" THEN CallsClamp(c) ELSE CallsClamp2(c)

\* Without a voltage pin, voltage_pins[0] is an IndexError.
Generate ==
  /\ stage = "accepted"
  /\ IF config.voltage = <<>>
       THEN stage' = "broken" /\ UNCHANGED calls
       ELSE stage' = "generated" /\ calls' = Calls(config)
  /\ UNCHANGED config
-----------------------------------------------------------------------------
(* The compiler: set_channel2 is declared nowhere, set_channel takes an     *)
(* adc_channel_t and no adc2_channel_t; set_autorange is not declared in    *)
(* clamp2, and ADC_ATTEN_DB_12_COMPAT not in adc_continous.                 *)

HasSetChannel(call) == call.name = "set_channel" /\ call.converter = 1
HasSetters(c) == c.attenuation = "auto" => c.component # "clamp2"
HasConstant(c) == c.attenuation = "12db" => c.component # "adc_continous"

Compile ==
  /\ stage = "generated"
  /\ stage' = IF /\ \A i \in DOMAIN calls : HasSetChannel(calls[i])
                 /\ HasSetters(config) /\ HasConstant(config)
                THEN "built" ELSE "broken"
  /\ UNCHANGED <<config, calls>>

Build == Validate \/ FinalValidate \/ Generate \/ Compile
==============================================================================
