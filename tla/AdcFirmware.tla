------------------------------ MODULE AdcFirmware ------------------------------
(***************************************************************************)
(* What a built configuration does: which pins the converter samples, to    *)
(* which pins the results are attributed, and, for clamp2, whether the      *)
(* arrays of loop() are as long as it takes them to be.  A result stands    *)
(* for its SOC_ADC_DIGI_RESULT_BYTES bytes.                                 *)
(***************************************************************************)
EXTENDS AdcConfig

VARIABLES
  channel,   \* channel[]: what each entry of the converter's pattern samples
  channels,  \* channels[]: the pin that the results of a channel are for
  pool,      \* results converted, and not read
  len,       \* results that the last loop() read
  late       \* history: loop() has let two frames wait

firmware == <<channel, channels, pool, len, late>>
allVars  == <<vars, firmware>>

Channels == 0 .. 9
Frame    == config.samples * NumPins(config)   \* conv_frame_size

TypeOK ==
  /\ Wellformed(config)
  /\ stage \in {"written", "rejected", "valid", "accepted", "generated", "broken",
                "built", "running"}
  /\ calls \in Seq([name : {"set_channel", "set_channel2"}, index : Channels,
                    channel : Channels, converter : {1, 2}])
  /\ channel \in [Channels -> Channels]
  /\ channels \in [Channels -> 0 .. 255]
  /\ IF stage = "running" THEN pool \in 0 .. 2 * Frame /\ len \in 0 .. 2 * Frame
                           ELSE pool = 0 /\ len = 0
  /\ late \in BOOLEAN

\* channel[] and channels[] are not initialised.
FirmwareInit ==
  /\ Init
  /\ \E c \in {0, 9} : channel = [i \in Channels |-> c]
  /\ \E p \in {0, 255} : channels = [c \in Channels |-> p]
  /\ pool = 0
  /\ len = 0
  /\ late = FALSE

BuildStep == Build /\ UNCHANGED firmware

\* The generated calls of set_channel, one after the other: the last one for an
\* entry counts.
SetChannels ==
  /\ channel' = [i \in Channels |->
       LET set == {k \in DOMAIN calls : calls[k].index = i}
       IN  IF set = {} THEN channel[i] ELSE calls[Max(set)].channel]
  /\ channels' = [c \in Channels |->
       LET set == {k \in DOMAIN calls : calls[k].channel = c}
       IN  IF set = {} THEN channels[c] ELSE calls[Max(set)].index]

\* setup(): every entry of the pattern is for the first converter.
Setup ==
  /\ stage = "built"
  /\ stage' = "running"
  /\ SetChannels
  /\ UNCHANGED <<config, calls, pool, len, late>>

Clamp2Runs == stage = "running" /\ config.component = "clamp2"

\* (mutant of Convert: a full pool is not flushed)
ConvertUnflushed ==
  /\ Clamp2Runs
  /\ pool' = pool + Frame
  /\ late' = (late \/ pool # 0)
  /\ UNCHANGED <<vars, channel, channels, len>>

\* A frame is converted; a pool of two frames that cannot take it is flushed.
Convert ==
  /\ Clamp2Runs
  /\ pool' = IF pool + Frame > 2 * Frame THEN Frame ELSE pool + Frame
  /\ late' = (late \/ pool # 0)
  /\ UNCHANGED <<vars, channel, channels, len>>

\* (mutants of Requested: two frames of four channels, and one of three)
RequestedTwice == 8 * config.samples
RequestedThree == 3 * config.samples

\* adc_continuous_read in loop(): frames of four channels are asked for.
Requested == 4 * config.samples

Loop ==
  /\ Clamp2Runs
  /\ pool > 0
  /\ len' = IF pool > Requested THEN Requested ELSE pool
  /\ pool' = pool - len'
  /\ UNCHANGED <<vars, channel, channels, late>>

Next == BuildStep \/ Setup \/ Convert \/ Loop

Spec == FirmwareInit /\ [][Next]_allVars
-----------------------------------------------------------------------------
(* Properties *)

OneVoltagePin == Len(config.voltage) = 1
Distinct(seq) == \A i, j \in DOMAIN seq : seq[i] = seq[j] => i = j

\* What the converter samples for a pin is that pin, and its results are used
\* for it.  setup() has every pin sampled by the first converter, validation
\* accepts pins of the second, and with Wi-Fi it refuses them only if every pin
\* is: none of them gets as far as running, or one would sample another pin.
ResultsAreOfPins ==
  stage = "running" /\ OneVoltagePin /\ Distinct(Pins(config))
  => \A i \in DOMAIN Pins(config) :
       LET c == channel[i - 1] IN
       /\ OnAdc1(config.variant, Pins(config)[i])
       /\ Adc1Channel[config.variant][Pins(config)[i]] = c
       /\ channels[c] = i - 1

\* What loop() reads fits its buffer, which is allocated for one frame of the
\* configured pins, except for fewer than four pins once two frames wait.
ReadFitsBuffer ==
  stage = "running" => len <= Frame \/ (NumPins(config) < 4 /\ late)

\* The C++ expression (int)(k + phase * n) % n, with phase in degrees.
Shifted(k, phase, n) ==
  LET x == 360 * k + phase * n
  IN  IF x >= 0 THEN (x \div 360) % n ELSE -(((-x) \div 360) % n)

\* With one voltage pin and three current pins and no negative phase, loop()
\* stays within its arrays and divides by no zero, whatever it has read.
FrameInBounds ==
  LET pins == NumPins(config)
      n    == len \div pins
  IN  /\ len > 0 /\ OneVoltagePin /\ Len(config.current) = 3
      /\ \A i \in 1 .. 3 : config.phase[i] >= 0
      => /\ n > 0
         /\ \A i \in 0 .. pins - 1 : channels[channel[i]] < pins   \* avg[pin]
         /\ \A k \in 0 .. len - 1 :
              /\ k \div pins < n                                  \* volts[]
              /\ k % pins = 0 => k + 3 < Frame                    \* buffer_[i + j]
         /\ \A k \in 0 .. n - 1, i \in 1 .. 3 :
              Shifted(k, config.phase[i], n) \in 0 .. n - 1       \* volts[]
==============================================================================
