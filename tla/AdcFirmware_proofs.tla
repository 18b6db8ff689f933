-------------------------- MODULE AdcFirmware_proofs --------------------------
(***************************************************************************)
(* Proofs about AdcFirmware, for every set of configurations.               *)
(***************************************************************************)
EXTENDS AdcFirmware, SequenceTheorems, TLAPS

-----------------------------------------------------------------------------
(* Building.  What is known of a configuration grows with the stages.       *)

Validated == {"valid", "accepted", "generated", "built", "running"}

LEMMA SampleCountsPositive == \A n \in SampleCounts : n \in Nat \ {0}
<1> SUFFICES ASSUME NEW n \in 1 .. 4096 PROVE n \in Nat \ {0}
  BY DEF SampleCounts
<1> QED OBVIOUS

BuildInv ==
  /\ Wellformed(config)
  /\ stage \in Validated => config.samples \in SampleCounts
  /\ stage \in Validated /\ config.component = "adc_continous"
       => Len(config.voltage) = 1 /\ config.current = <<>>
  /\ stage \in {"generated", "built"} => calls = Calls(config)
  /\ stage = "built" => \A i \in DOMAIN calls : HasSetChannel(calls[i])

\* Defaults and the renamed attenuation touch neither the pins nor the form.
LEMMA ValidationKeeps ==
  ASSUME NEW c, Wellformed(c)
  PROVE  LET d == Normalised(WithDefaults(c)) IN
         /\ Wellformed(d)
         /\ d.samples = WithDefaults(c).samples
         /\ d.component = WithDefaults(c).component
         /\ d.variant = WithDefaults(c).variant
         /\ d.voltage = WithDefaults(c).voltage
         /\ d.current = WithDefaults(c).current
<1> DEFINE w == WithDefaults(c)
<1>1. c \in Yaml /\ c.component \in {"adc_continous", "clamp", "clamp2"}
  BY DEF Wellformed, Yaml
<1>2. /\ Default[c.component].attenuation \in {"0db", "12db"}
      /\ Default[c.component].samples \in Nat
      /\ Default[c.component].frequency \in Nat
  BY <1>1 DEF Default
<1>3. w \in Yaml /\ w.voltage = c.voltage /\ w.current = c.current /\ w.phase = c.phase
  BY <1>1, <1>2 DEF WithDefaults, Yaml
<1>4. /\ Normalised(w) \in Yaml
      /\ Normalised(w).voltage = w.voltage /\ Normalised(w).current = w.current
      /\ Normalised(w).phase = w.phase /\ Normalised(w).samples = w.samples
      /\ Normalised(w).component = w.component /\ Normalised(w).variant = w.variant
  BY <1>3 DEF Normalised, Yaml
<1> QED BY <1>3, <1>4 DEF Wellformed, NumPins

LEMMA BuildInit == FirmwareInit => BuildInv
  BY ConfigsAssumption DEF FirmwareInit, Init, BuildInv, Validated

LEMMA BuildNext == BuildInv /\ [Next]_allVars => BuildInv'
<1> SUFFICES ASSUME BuildInv, [Next]_allVars PROVE BuildInv'
  OBVIOUS
<1>1. CASE Validate
  <2> DEFINE c == WithDefaults(config)
  <2>1. CASE Schema(c) /\ AutoFits(c)
    <3>1. config' = Normalised(c) /\ stage' = "valid"
      BY <1>1, <2>1 DEF Validate
    <3>2. Wellformed(config)
      BY DEF BuildInv
    <3>3. c.samples \in SampleCounts
      BY <2>1 DEF Schema
    <3>4. c.component = "adc_continous" => SchemaAdcContinous(c)
      BY <2>1 DEF Schema
    <3>5. c.component = "adc_continous" => Len(c.voltage) = 1 /\ c.current = <<>>
      BY <3>4 DEF SchemaAdcContinous
    <3>6. /\ Wellformed(config')
          /\ config'.samples = c.samples /\ config'.component = c.component
          /\ config'.voltage = c.voltage /\ config'.current = c.current
      BY <3>1, <3>2, ValidationKeeps
    <3> HIDE DEF c
    <3> QED BY <3>1, <3>3, <3>5, <3>6 DEF BuildInv
  <2>2. CASE ~(Schema(c) /\ AutoFits(c))
    <3>1. config' = config /\ stage' = "rejected"
      BY <1>1, <2>2 DEF Validate
    <3> QED BY <3>1 DEF BuildInv, Validated
  <2> QED BY <2>1, <2>2
<1>2. CASE FinalValidate
  BY <1>2 DEF FinalValidate, BuildInv, Validated
<1>3. CASE Generate
  BY <1>3 DEF Generate, BuildInv, Validated
<1>4. CASE Compile
  <2>1. /\ stage = "generated" /\ stage' \in {"built", "broken"}
        /\ config' = config /\ calls' = calls
        /\ stage' = "built" => \A i \in DOMAIN calls : HasSetChannel(calls[i])
    BY <1>4 DEF Compile
  <2> QED BY <2>1 DEF BuildInv, Validated
<1>5. CASE Setup
  BY <1>5 DEF Setup, BuildInv, Validated
<1>6. CASE Convert \/ Loop \/ UNCHANGED allVars
  <2>1. config' = config /\ stage' = stage /\ calls' = calls
    BY <1>6 DEF Convert, Loop, allVars, vars
  <2> QED BY <2>1 DEF BuildInv
<1> QED BY <1>1, <1>2, <1>3, <1>4, <1>5, <1>6 DEF Next, BuildStep, Build
-----------------------------------------------------------------------------
(* Frames.  late is a history variable of type BOOLEAN.                     *)

\* More than one frame waits only after loop() has let two frames wait.
FrameInv ==
  /\ late \in BOOLEAN
  /\ stage # "running" => pool = 0 /\ len = 0
  /\ stage = "running" => /\ Frame \in Nat
                          /\ pool \in 0 .. 2 * Frame /\ len \in 0 .. 2 * Frame
                          /\ pool <= Frame \/ late
                          /\ ReadFitsBuffer

LEMMA FrameType ==
  ASSUME BuildInv, stage \in Validated
  PROVE  Frame \in Nat /\ NumPins(config) \in Nat /\ config.samples \in Nat \ {0}
<1>1. config.samples \in Nat \ {0}
  <2>1. config.samples \in SampleCounts
    BY Zenon DEF BuildInv
  <2> QED BY <2>1, SampleCountsPositive, Zenon
<1>2. Len(config.voltage) \in Nat /\ Len(config.current) \in Nat
  BY LenProperties DEF BuildInv, Wellformed, Yaml
<1>3. NumPins(config) \in Nat
  <2>1. \A a, b \in Nat : a + b \in Nat
    OBVIOUS
  <2> QED BY <1>2, <2>1, Zenon DEF NumPins
<1>4. \A a, b \in Nat : a * b \in Nat
  OBVIOUS
<1> QED BY <1>1, <1>3, <1>4 DEF Frame

\* With four pins or more, a frame has what loop() asks for.
LEMMA RequestFits ==
  ASSUME NEW s \in Nat, NEW n \in Nat, n >= 4
  PROVE  4 * s <= s * n
<1>1. PICK k \in Nat : n = k + 4
  <2>1. n - 4 \in Nat /\ n = (n - 4) + 4
    OBVIOUS
  <2> QED BY <2>1
<1>2. s * (k + 4) = s * k + 4 * s /\ s * k \in Nat
  OBVIOUS
<1> QED BY <1>1, <1>2

LEMMA FrameInit == FirmwareInit => FrameInv
<1> SUFFICES ASSUME FirmwareInit PROVE FrameInv
  OBVIOUS
<1>1. late \in BOOLEAN
  BY Zenon DEF FirmwareInit
<1>2. stage = "written" /\ pool = 0 /\ len = 0
  BY DEF FirmwareInit, Init
<1> QED BY <1>1, <1>2 DEF FrameInv

LEMMA FrameNext == BuildInv /\ FrameInv /\ [Next]_allVars => FrameInv'
<1> SUFFICES ASSUME BuildInv, FrameInv, [Next]_allVars PROVE FrameInv'
  OBVIOUS
<1>1. CASE BuildStep
  <2>1. /\ stage # "running" /\ stage' # "running"
        /\ pool' = pool /\ len' = len
    BY <1>1 DEF BuildStep, Build, Validate, FinalValidate, Generate, Compile, firmware
  <2>2. late' = late
    BY <1>1, Zenon DEF BuildStep, firmware
  <2> QED BY <2>1, <2>2, Zenon DEF FrameInv
<1>2. CASE Setup
  <2>1. stage' = "running" /\ pool' = 0 /\ len' = 0 /\ Frame' = Frame /\ stage = "built"
    BY <1>2 DEF Setup, Frame, FrameInv
  <2>2. late' = late
    BY <1>2, Zenon DEF Setup
  <2>3. Frame \in Nat
    BY <2>1, FrameType DEF Validated
  <2>4. 0 \in 0 .. 2 * Frame /\ 0 <= Frame
    BY <2>3
  <2>5. late' \in BOOLEAN
    BY <2>2, Zenon DEF FrameInv
  <2>6. ReadFitsBuffer'
    BY <2>1, <2>4, Zenon DEF ReadFitsBuffer
  <2> QED BY <2>1, <2>3, <2>4, <2>5, <2>6, Zenon DEF FrameInv
<1>3. CASE Convert
  <2>1. /\ stage = "running" /\ stage' = "running" /\ Frame' = Frame /\ len' = len
        /\ NumPins(config)' = NumPins(config)
        /\ pool' = IF pool + Frame > 2 * Frame THEN Frame ELSE pool + Frame
    BY <1>3 DEF Convert, Clamp2Runs, Frame, NumPins, vars
  <2>2. late' = (late \/ pool # 0)
    BY <1>3, Zenon DEF Convert
  <2>3. Frame \in Nat /\ pool \in 0 .. 2 * Frame /\ len \in 0 .. 2 * Frame
    BY <2>1 DEF FrameInv
  <2>4. pool' \in 0 .. 2 * Frame /\ (pool' <= Frame \/ pool # 0)
    BY <2>1, <2>3
  <2>5. late' \in BOOLEAN /\ (late => late') /\ (pool # 0 => late')
    BY <2>2, Zenon
  <2>6. ReadFitsBuffer'
    BY <2>1, <2>5, Zenon DEF FrameInv, ReadFitsBuffer
  <2> QED BY <2>1, <2>3, <2>4, <2>5, <2>6, Zenon DEF FrameInv
<1>4. CASE Loop
  <2>1. /\ stage = "running" /\ stage' = "running" /\ Frame' = Frame
        /\ NumPins(config)' = NumPins(config)
        /\ len' = IF pool > 4 * config.samples THEN 4 * config.samples ELSE pool
        /\ pool' = pool - len'
    BY <1>4 DEF Loop, Clamp2Runs, Frame, NumPins, vars, Requested
  <2>2. late' = late /\ late \in BOOLEAN /\ (pool <= Frame \/ late)
    BY <1>4, <2>1, Zenon DEF Loop, FrameInv
  <2>3. Frame \in Nat /\ pool \in 0 .. 2 * Frame
    BY <2>1 DEF FrameInv
  <2>4. NumPins(config) \in Nat /\ config.samples \in Nat
    BY <2>1, FrameType DEF Validated
  <2>5. len' \in 0 .. pool /\ len' <= 4 * config.samples
    BY <2>1, <2>3, <2>4
  <2>6. pool' \in 0 .. pool /\ pool' <= pool
    BY <2>1, <2>3, <2>5
  <2>7. NumPins(config) < 4 \/ len' <= Frame
    <3> SUFFICES ASSUME NumPins(config) >= 4 PROVE len' <= Frame
      BY <2>4
    <3>1. 4 * config.samples <= Frame
      BY <2>4, RequestFits DEF Frame
    <3> QED BY <3>1, <2>3, <2>4, <2>5
  <2>8. pool <= Frame => len' <= Frame /\ pool' <= Frame
    BY <2>3, <2>5, <2>6
  <2>9. len' \in 0 .. 2 * Frame /\ pool' \in 0 .. 2 * Frame
    BY <2>3, <2>5, <2>6
  <2>10. ReadFitsBuffer'
    BY <2>1, <2>2, <2>7, <2>8, Zenon DEF ReadFitsBuffer
  <2> QED BY <2>1, <2>2, <2>3, <2>8, <2>9, <2>10, Zenon DEF FrameInv
<1>5. CASE UNCHANGED allVars
  <2>1. /\ stage' = stage /\ pool' = pool /\ len' = len /\ Frame' = Frame
        /\ NumPins(config)' = NumPins(config)
    BY <1>5 DEF allVars, vars, firmware, Frame, NumPins
  <2>2. late' = late
    BY <1>5, Zenon DEF allVars, firmware
  <2> QED BY <2>1, <2>2, Zenon DEF FrameInv, ReadFitsBuffer
<1> QED BY <1>1, <1>2, <1>3, <1>4, <1>5, Zenon DEF Next

\* loop() of clamp2 never reads beyond its buffer, unless it has fewer than
\* four pins and two frames have waited: for all configurations and speeds.
THEOREM ReadsFitTheBuffer == Spec => []ReadFitsBuffer
<1>1. FrameInv => ReadFitsBuffer
  BY Zenon DEF FrameInv, ReadFitsBuffer
<1> QED BY <1>1, BuildInit, BuildNext, FrameInit, FrameNext, PTL DEF Spec
-----------------------------------------------------------------------------
(* Channels.                                                                *)

LEMMA OneAndMore ==
  ASSUME NEW v \in Seq(Nat), NEW w \in Seq(Nat), Len(v) = 1
  PROVE  /\ v \o w \in Seq(Nat) /\ Len(v \o w) = 1 + Len(w) /\ Len(w) \in Nat
         /\ (v \o w)[1] = v[1] /\ v = <<v[1]>>
<1>1. Len(w) \in Nat /\ v[1] \in Nat
  <2>1. 1 \in 1 .. Len(v)
    OBVIOUS
  <2>2. v[1] \in Nat
    BY <2>1, ElementOfSeq, Zenon
  <2> QED BY <2>2, LenProperties, Zenon
<1>2. v \o w \in Seq(Nat) /\ Len(v \o w) = 1 + Len(w) /\ (v \o w)[1] = v[1]
  <2>1. /\ v \o w \in Seq(Nat) /\ Len(v \o w) = Len(v) + Len(w)
        /\ \A i \in 1 .. Len(v) + Len(w) :
             (v \o w)[i] = IF i <= Len(v) THEN v[i] ELSE w[i - Len(v)]
    BY ConcatProperties, Zenon
  <2>2. 1 \in 1 .. Len(v) + Len(w) /\ 1 <= Len(v)
    BY <1>1
  <2>3. (v \o w)[1] = v[1]
    BY <2>1, <2>2, Zenon
  <2> QED BY <2>1, <2>3, Zenon
<1>3. v = <<v[1]>>
  BY <1>1, SeqEqual
<1> QED BY <1>1, <1>2, <1>3

\* With one voltage pin, whatever the component, the calls are one for each
\* pin, in order.
LEMMA CallsArePins ==
  ASSUME NEW c, Wellformed(c), Len(c.voltage) = 1,
         c.component = "adc_continous" => c.current = <<>>
  PROVE  /\ DOMAIN Calls(c) = 1 .. NumPins(c)
         /\ NumPins(c) \in 1 .. 10
         /\ Pins(c) \in Seq(Nat) /\ Len(Pins(c)) = NumPins(c)
         /\ \A i \in 1 .. NumPins(c) :
              /\ Calls(c)[i].index = i - 1
              /\ Calls(c)[i].channel = ChannelOf(c.variant, Pins(c)[i])
              /\ Calls(c)[i].converter = IF OnAdc1(c.variant, Pins(c)[i]) THEN 1 ELSE 2
<1>1. /\ c.voltage \in Seq(Nat) /\ c.current \in Seq(Nat)
      /\ c.component \in {"adc_continous", "clamp", "clamp2"}
  BY DEF Wellformed, Yaml
<1>2. /\ Pins(c) \in Seq(Nat) /\ Len(Pins(c)) = 1 + Len(c.current)
      /\ NumPins(c) = 1 + Len(c.current) /\ Len(c.current) \in Nat
      /\ Pins(c)[1] = c.voltage[1] /\ c.voltage = <<c.voltage[1]>>
  BY <1>1, OneAndMore, Zenon DEF Pins, NumPins
<1>3. NumPins(c) \in 1 .. 10
  <2>1. NumPins(c) <= 10
    BY Zenon DEF Wellformed
  <2>2. \A k \in Nat : 1 + k <= 10 => 1 + k \in 1 .. 10
    OBVIOUS
  <2> QED BY <1>2, <2>1, <2>2, Zenon
<1>4. Len(Pins(c)) = NumPins(c) /\ (c.current = <<>> => NumPins(c) = 1)
  <2>1. Len(<<>>) = 0 /\ 1 + 0 = 1
    OBVIOUS
  <2> QED BY <1>2, <2>1, Zenon
<1>5. Sampled(c) = Pins(c)
  BY <1>2, Zenon DEF Sampled, Pins
<1> DEFINE Call(i) == Setter(Calls(c)[i].name, i - 1, c, Pins(c)[i])
<1>6. DOMAIN Calls(c) = 1 .. NumPins(c) /\ \A i \in 1 .. NumPins(c) : Calls(c)[i] = Call(i)
  <2>1. CASE c.component = "adc_continous"
    <3>1. NumPins(c) = 1
      BY <2>1, <1>4
    <3> QED BY <2>1, <3>1, <1>2 DEF Calls, CallsAdcContinous, Setter
  <2>2. CASE c.component = "clamp"
    BY <2>2 DEF Calls, CallsClamp, Setter
  <2>3. CASE c.component = "clamp2"
    BY <2>3, <1>4, <1>5 DEF Calls, CallsClamp2, Setter
  <2> QED BY <1>1, <2>1, <2>2, <2>3
<1>7. \A i \in 1 .. NumPins(c) :
        /\ Calls(c)[i].index = i - 1
        /\ Calls(c)[i].channel = ChannelOf(c.variant, Pins(c)[i])
        /\ Calls(c)[i].converter = IF OnAdc1(c.variant, Pins(c)[i]) THEN 1 ELSE 2
  BY <1>6 DEF Setter
<1> HIDE DEF Call
<1> QED BY <1>2, <1>3, <1>4, <1>6, <1>7, Zenon

\* The channels of the first converter's pins are different, and of its pattern.
LEMMA Adc1Injective ==
  ASSUME NEW v \in ESP32Variants, NEW p, OnAdc1(v, p), NEW q, OnAdc1(v, q)
  PROVE  /\ Adc1Channel[v][p] \in Channels
         /\ Adc1Channel[v][p] = Adc1Channel[v][q] => p = q
<1> USE DEF OnAdc1, Adc1Channel, Channels
<1>1. CASE v = "ESP32"
  BY <1>1
<1>2. CASE v \in {"ESP32S2", "ESP32S3"}
  BY <1>2
<1>3. CASE v \in {"ESP32C2", "ESP32C3", "ESP32C6", "ESP32H2"}
  BY <1>3
<1> QED BY <1>1, <1>2, <1>3 DEF ESP32Variants

LEMMA MaxIn ==
  ASSUME NEW S \in SUBSET (1 .. 10), S # {}
  PROVE  Max(S) \in S
<1> DEFINE Above(k) == \A y \in S : k >= y
<1>1. \E x \in S : Above(x)
  <2> SUFFICES ASSUME \A x \in S : ~Above(x) PROVE FALSE
    OBVIOUS
  <2>1. Above(10) /\ ~Above(0)
    <3>1. \A y \in S : y \in 1 .. 10
      OBVIOUS
    <3>2. PICK y \in S : TRUE
      OBVIOUS
    <3>3. y \in 1 .. 10
      BY <3>1
    <3>4. ~(0 >= y)
      BY <3>3
    <3>5. Above(10)
      BY <3>1
    <3> QED BY <3>4, <3>5
  <2>2. \A k \in Int : Above(k) => Above(k - 1)
    OBVIOUS
  <2> HIDE DEF Above
  <2>3. Above(9) /\ Above(8) /\ Above(7) /\ Above(6) /\ Above(5)
    BY <2>1, <2>2
  <2>4. Above(4) /\ Above(3) /\ Above(2) /\ Above(1) /\ Above(0)
    BY <2>2, <2>3
  <2> QED BY <2>1, <2>4
<1> QED BY <1>1 DEF Max

LEMMA MaxOfOne == ASSUME NEW x \in Int PROVE Max({x}) = x
<1>1. x \in {x} /\ \A y \in {x} : x >= y
  OBVIOUS
<1>2. \A z \in {x} : z = x
  OBVIOUS
<1> QED BY <1>1, <1>2, Zenon DEF Max

\* What a running component has in its two tables for each of its pins.
PinTables ==
  \A i \in 1 .. NumPins(config) :
    LET pin == Pins(config)[i] IN
    /\ OnAdc1(config.variant, pin)
    /\ channel[i - 1] = Adc1Channel[config.variant][pin]
    /\ channels[channel[i - 1]] \in 0 .. NumPins(config) - 1
    /\ Distinct(Pins(config)) => channels[channel[i - 1]] = i - 1

ChannelInv == stage = "running" /\ OneVoltagePin => PinTables

LEMMA InChannels ==
  ASSUME NEW n \in 1 .. 10
  PROVE  (\A i \in 1 .. n : i - 1 \in Channels) /\ 1 .. n \in SUBSET (1 .. 10)
  BY DEF Channels

LEMMA SetupTables ==
  ASSUME BuildInv, Setup, OneVoltagePin
  PROVE  PinTables'
<1> DEFINE n == NumPins(config)
           pins == Pins(config)
           v == config.variant
<1>1. /\ stage = "built" /\ config' = config /\ calls = Calls(config) /\ SetChannels
      /\ \A i \in DOMAIN calls : HasSetChannel(calls[i])
      /\ Wellformed(config) /\ Len(config.voltage) = 1
      /\ config.component = "adc_continous" => config.current = <<>>
  BY DEF BuildInv, Setup, Validated, OneVoltagePin
<1>2. v \in ESP32Variants
  BY <1>1 DEF Wellformed, Yaml
<1>3. /\ DOMAIN calls = 1 .. n /\ n \in 1 .. 10
      /\ pins \in Seq(Nat) /\ Len(pins) = n
      /\ \A i \in 1 .. n : /\ calls[i].index = i - 1
                           /\ calls[i].channel = ChannelOf(v, pins[i])
                           /\ calls[i].converter = IF OnAdc1(v, pins[i]) THEN 1 ELSE 2
  BY <1>1, CallsArePins, Zenon
<1>4. \A i \in 1 .. n : OnAdc1(v, pins[i]) /\ calls[i].channel = Adc1Channel[v][pins[i]]
  <2> SUFFICES ASSUME NEW i \in 1 .. n
               PROVE  OnAdc1(v, pins[i]) /\ calls[i].channel = Adc1Channel[v][pins[i]]
    OBVIOUS
  <2>1. calls[i].converter = 1
    BY <1>1, <1>3 DEF HasSetChannel
  <2>2. OnAdc1(v, pins[i])
    BY <1>3, <2>1
  <2> QED BY <1>3, <2>2 DEF ChannelOf
<1>5. DOMAIN pins = 1 .. n
  BY <1>3, LenProperties
<1> SUFFICES ASSUME NEW i \in 1 .. n
             PROVE  /\ OnAdc1(v, pins[i])
                    /\ channel'[i - 1] = Adc1Channel[v][pins[i]]
                    /\ channels'[channel'[i - 1]] \in 0 .. n - 1
                    /\ Distinct(pins) => channels'[channel'[i - 1]] = i - 1
  BY <1>1, Zenon DEF PinTables
<1> DEFINE c == Adc1Channel[v][pins[i]]
           set == {k \in DOMAIN calls : calls[k].channel = c}
<1>6. OnAdc1(v, pins[i]) /\ c \in Channels
  BY <1>2, <1>4, Adc1Injective
<1>7. channel'[i - 1] = c
  <2>1. i - 1 \in Channels
    BY <1>3, InChannels, Zenon
  <2>2. {k \in DOMAIN calls : calls[k].index = i - 1} = {i}
    BY <1>3
  <2>3. Max({i}) = i /\ {i} # {}
    BY MaxOfOne
  <2> HIDE DEF n, pins, v, c
  <2>4. channel'[i - 1] = calls[i].channel
    BY <1>1, <2>1, <2>2, <2>3 DEF SetChannels
  <2> QED BY <1>4, <2>4 DEF c
<1>8. i \in set /\ set \in SUBSET (1 .. n) /\ set \in SUBSET (1 .. 10)
  <2>1. 1 .. n \in SUBSET (1 .. 10)
    BY <1>3, InChannels, Zenon
  <2>2. i \in set /\ set \in SUBSET (1 .. n)
    BY <1>3, <1>4, Zenon
  <2> QED BY <2>1, <2>2, Zenon
<1>9. channels'[c] = calls[Max(set)].index
  <2> HIDE DEF n, pins, v, c
  <2> QED BY <1>1, <1>6, <1>8 DEF SetChannels
<1>10. Max(set) \in set
  BY <1>8, MaxIn, Zenon
<1>11. channels'[c] = Max(set) - 1 /\ Max(set) \in 1 .. n
  BY <1>3, <1>8, <1>9, <1>10
<1>12. channels'[c] \in 0 .. n - 1
  BY <1>3, <1>11
<1>13. ASSUME Distinct(pins) PROVE channels'[c] = i - 1
  <2>1. calls[Max(set)].channel = c /\ Max(set) \in 1 .. n
    BY <1>10, <1>11
  <2>2. Adc1Channel[v][pins[Max(set)]] = Adc1Channel[v][pins[i]]
    BY <1>4, <2>1
  <2>3. pins[Max(set)] = pins[i]
    BY <1>2, <1>4, <2>1, <2>2, Adc1Injective, Zenon
  <2>4. Max(set) = i
    BY <1>5, <1>13, <2>1, <2>3, Zenon DEF Distinct
  <2> QED BY <1>11, <2>4
<1> QED BY <1>6, <1>7, <1>12, <1>13, Zenon

LEMMA ChannelInit == FirmwareInit => ChannelInv
  BY DEF FirmwareInit, Init, ChannelInv

LEMMA ChannelNext == BuildInv /\ ChannelInv /\ [Next]_allVars => ChannelInv'
<1> SUFFICES ASSUME BuildInv, ChannelInv, [Next]_allVars PROVE ChannelInv'
  OBVIOUS
<1>1. CASE BuildStep
  <2>1. stage' # "running"
    BY <1>1 DEF BuildStep, Build, Validate, FinalValidate, Generate, Compile
  <2> QED BY <2>1, Zenon DEF ChannelInv
<1>2. CASE Setup
  <2>1. OneVoltagePin' => OneVoltagePin
    BY <1>2, Zenon DEF Setup, OneVoltagePin
  <2> QED BY <1>2, <2>1, SetupTables, Zenon DEF ChannelInv
<1>3. CASE Convert \/ Loop \/ UNCHANGED allVars
  <2>1. config' = config /\ stage' = stage /\ channel' = channel /\ channels' = channels
    BY <1>3, Zenon DEF Convert, Loop, allVars, vars, firmware
  <2> QED BY <2>1, Zenon DEF ChannelInv, PinTables, OneVoltagePin
<1> QED BY <1>1, <1>2, <1>3, Zenon DEF Next

\* Every configuration that gets as far as running samples the pins that it
\* names, and attributes their results to them: on all chips, for all pins.
THEOREM SamplesTheirPins == Spec => []ResultsAreOfPins
<1>1. BuildInv /\ ChannelInv => ResultsAreOfPins
  <2> SUFFICES ASSUME BuildInv, ChannelInv, stage = "running", OneVoltagePin,
                      Distinct(Pins(config)), NEW i \in DOMAIN Pins(config)
               PROVE  LET c == channel[i - 1] IN
                      /\ OnAdc1(config.variant, Pins(config)[i])
                      /\ Adc1Channel[config.variant][Pins(config)[i]] = c
                      /\ channels[c] = i - 1
    BY Zenon DEF ResultsAreOfPins
  <2>1. /\ Wellformed(config) /\ Len(config.voltage) = 1
        /\ config.component = "adc_continous" => config.current = <<>>
    BY Zenon DEF BuildInv, Validated, OneVoltagePin
  <2>2. Pins(config) \in Seq(Nat) /\ Len(Pins(config)) = NumPins(config)
    BY <2>1, CallsArePins, Zenon
  <2>3. i \in 1 .. NumPins(config)
    BY <2>2, LenProperties, Zenon
  <2> QED BY <2>3, Zenon DEF ChannelInv, PinTables
<1> QED BY <1>1, BuildInit, BuildNext, ChannelInit, ChannelNext, PTL DEF Spec
-----------------------------------------------------------------------------
(* The arrays of loop().                                                    *)

\* With four pins, what is read is a frame or nothing.
WholeFrames ==
  /\ len > 0 => stage = "running"
  /\ stage = "running" /\ NumPins(config) = 4
       => pool \in {0, Frame, 2 * Frame} /\ len \in {0, Frame}

LEMMA FourPins ==
  ASSUME BuildInv, stage \in Validated, NumPins(config) = 4
  PROVE  Frame = 4 * config.samples /\ config.samples \in Nat \ {0}
<1>1. config.samples \in Nat \ {0}
  BY FrameType, Zenon
<1>2. \A s \in Nat : s * 4 = 4 * s
  OBVIOUS
<1> QED BY <1>1, <1>2, Zenon DEF Frame

LEMMA WholeFramesInit == FirmwareInit => WholeFrames
  BY DEF FirmwareInit, Init, WholeFrames

LEMMA WholeFramesNext ==
  BuildInv /\ FrameInv /\ WholeFrames /\ [Next]_allVars => WholeFrames'
<1> SUFFICES ASSUME BuildInv, FrameInv, WholeFrames, [Next]_allVars PROVE WholeFrames'
  OBVIOUS
<1>1. CASE BuildStep
  <2>1. stage # "running" /\ stage' # "running" /\ len' = len
    BY <1>1 DEF BuildStep, Build, Validate, FinalValidate, Generate, Compile, firmware
  <2> QED BY <2>1, Zenon DEF WholeFrames
<1>2. CASE Setup
  <2>1. stage' = "running" /\ stage = "built" /\ pool' = pool /\ len' = len
    BY <1>2 DEF Setup
  <2>2. pool = 0 /\ len = 0
    BY <2>1 DEF FrameInv
  <2> QED BY <2>1, <2>2 DEF WholeFrames
<1>3. CASE Convert \/ Loop
  <2>1. /\ stage = "running" /\ stage' = "running"
        /\ NumPins(config)' = NumPins(config) /\ Frame' = Frame
    BY <1>3 DEF Convert, Loop, Clamp2Runs, Frame, NumPins, vars
  <2>2. CASE NumPins(config) = 4
    <3>1. Frame = 4 * config.samples /\ config.samples \in Nat \ {0}
      BY <2>1, <2>2, FourPins DEF Validated
    <3>2. pool \in {0, Frame, 2 * Frame} /\ len \in {0, Frame}
      BY <2>1, <2>2 DEF WholeFrames
    <3>3. CASE Convert
      <4>1. /\ len' = len
            /\ pool' = IF pool + Frame > 2 * Frame THEN Frame ELSE pool + Frame
        BY <3>3 DEF Convert
      <4>2. pool' \in {0, Frame, 2 * Frame}
        BY <3>1, <3>2, <4>1
      <4> QED BY <2>1, <3>2, <4>1, <4>2, Zenon DEF WholeFrames
    <3>4. CASE Loop
      <4>1. /\ len' = IF pool > 4 * config.samples THEN 4 * config.samples ELSE pool
            /\ pool' = pool - len'
        BY <3>4 DEF Loop, Requested
      <4>2. len' \in {0, Frame} /\ pool' \in {0, Frame, 2 * Frame}
        BY <3>1, <3>2, <4>1
      <4> QED BY <2>1, <4>2, Zenon DEF WholeFrames
    <3> QED BY <1>3, <3>3, <3>4
  <2> QED BY <2>1, <2>2, Zenon DEF WholeFrames
<1>4. CASE UNCHANGED allVars
  <2>1. /\ stage' = stage /\ pool' = pool /\ len' = len /\ Frame' = Frame
        /\ NumPins(config)' = NumPins(config)
    BY <1>4 DEF allVars, vars, firmware, Frame, NumPins
  <2> QED BY <2>1, Zenon DEF WholeFrames
<1> QED BY <1>1, <1>2, <1>3, <1>4, Zenon DEF Next

\* Shifting by a phase that is not negative stays among the samples.
LEMMA ShiftedInRange ==
  ASSUME NEW n \in Nat \ {0}, NEW k \in 0 .. n - 1, NEW phase \in Nat
  PROVE  Shifted(k, phase, n) \in 0 .. n - 1
<1>1. phase * n \in Nat
  OBVIOUS
<1>2. 360 * k + phase * n \in Nat
  BY <1>1
<1>3. \A x \in Nat : x \div 360 \in Nat
  OBVIOUS
<1>4. \A y \in Nat : y % n \in 0 .. n - 1
  OBVIOUS
<1>5. \A x \in Nat : x >= 0
  OBVIOUS
<1> QED BY <1>2, <1>3, <1>4, <1>5, Zenon DEF Shifted

\* A frame of four channels, result by result.
LEMMA FourToAFrame ==
  ASSUME NEW s \in Nat \ {0}
  PROVE  /\ (4 * s) \div 4 = s
         /\ \A k \in 0 .. 4 * s - 1 : /\ k \div 4 < s
                                      /\ k % 4 = 0 => k + 3 < 4 * s
  OBVIOUS

\* With one voltage and three current pins, loop() of clamp2 stays within its
\* arrays and divides by no zero: for all pins, phases and numbers of samples.
THEOREM StaysInBounds == Spec => []FrameInBounds
<1>1. BuildInv /\ FrameInv /\ ChannelInv /\ WholeFrames => FrameInBounds
  <2> DEFINE pins == NumPins(config)
             n    == len \div pins
             s    == config.samples
  <2> SUFFICES ASSUME BuildInv, FrameInv, ChannelInv, WholeFrames,
                      len > 0, OneVoltagePin, Len(config.current) = 3,
                      \A i \in 1 .. 3 : config.phase[i] >= 0
               PROVE  /\ n > 0
                      /\ \A i \in 0 .. pins - 1 : channels[channel[i]] < pins
                      /\ \A k \in 0 .. len - 1 :
                           /\ k \div pins < n
                           /\ k % pins = 0 => k + 3 < Frame
                      /\ \A k \in 0 .. n - 1, i \in 1 .. 3 :
                           Shifted(k, config.phase[i], n) \in 0 .. n - 1
    BY Zenon DEF FrameInBounds
  <2>1. stage = "running" /\ stage \in Validated
    BY Zenon DEF WholeFrames, Validated
  <2>2. pins = 4
    <3>1. Len(config.voltage) = 1 /\ 1 + 3 = 4
      BY DEF OneVoltagePin
    <3> QED BY <3>1, Zenon DEF NumPins
  <2>3. Frame = 4 * s /\ s \in Nat \ {0}
    BY <2>1, <2>2, FourPins, Zenon
  <2>4. len = Frame
    <3>1. len \in {0, Frame}
      BY <2>1, <2>2, Zenon DEF WholeFrames
    <3>2. len # 0
      OBVIOUS
    <3> QED BY <3>1, <3>2
  <2>5. n = s
    BY <2>2, <2>3, <2>4, FourToAFrame, Zenon
  <2>6. ASSUME NEW i \in 0 .. pins - 1 PROVE channels[channel[i]] < pins
    <3>1. i + 1 \in 1 .. pins /\ (i + 1) - 1 = i
      BY <2>2
    <3>2. channels[channel[i]] \in 0 .. pins - 1
      BY <2>1, <3>1, Zenon DEF ChannelInv, PinTables
    <3> QED BY <2>2, <3>2
  <2>7. ASSUME NEW k \in 0 .. len - 1
        PROVE  k \div pins < n /\ (k % pins = 0 => k + 3 < Frame)
    BY <2>2, <2>3, <2>4, <2>5, FourToAFrame, Zenon
  <2>8. ASSUME NEW k \in 0 .. n - 1, NEW i \in 1 .. 3
        PROVE  Shifted(k, config.phase[i], n) \in 0 .. n - 1
    <3>1. config.phase \in Seq(Int) /\ Len(config.phase) = 3
      <4>1. config \in Yaml /\ Len(config.phase) = Len(config.current)
        BY Zenon DEF BuildInv, Wellformed
      <4> QED BY <4>1 DEF Yaml
    <3>2. config.phase[i] \in Int
      BY <3>1, ElementOfSeq, Zenon
    <3>3. \A x \in Int : x >= 0 => x \in Nat
      OBVIOUS
    <3>4. config.phase[i] \in Nat
      BY <3>2, <3>3, Zenon
    <3> QED BY <2>3, <2>5, <3>4, ShiftedInRange, Zenon
  <2>9. n > 0
    <3>1. \A x \in Nat \ {0} : x > 0
      OBVIOUS
    <3> QED BY <2>3, <2>5, <3>1, Zenon
  <2> QED BY <2>6, <2>7, <2>8, <2>9, Zenon
<1> QED BY <1>1, BuildInit, BuildNext, FrameInit, FrameNext, ChannelInit, ChannelNext,
           WholeFramesInit, WholeFramesNext, PTL DEF Spec
-----------------------------------------------------------------------------
(* Types.                                                                   *)

Stages == {"written", "rejected", "valid", "accepted", "generated", "broken",
           "built", "running"}
SetterCalls == [name : {"set_channel", "set_channel2"}, index : Channels,
                channel : Channels, converter : {1, 2}]

\* A validated configuration has pins with a channel; no more calls are
\* generated than channel[] has entries.
TypeInv ==
  /\ stage \in Stages
  /\ stage \in Validated =>
       \A p \in ToSet(Pins(config)) : ValidAdcPin(config.variant, p)
  /\ calls \in Seq(SetterCalls) /\ Len(calls) <= 10
  /\ channel \in [Channels -> Channels]
  /\ channels \in [Channels -> 0 .. 255]

\* The channel of a valid pin is one of the pattern's.
LEMMA ChannelType ==
  ASSUME NEW v, NEW p, ValidAdcPin(v, p)
  PROVE  ChannelOf(v, p) \in Channels
<1>1. v \in ESP32Variants /\ (OnAdc1(v, p) \/ OnAdc2(v, p))
  BY DEF ValidAdcPin
<1>2. CASE OnAdc1(v, p)
  BY <1>1, <1>2, Adc1Injective DEF ChannelOf
<1>3. CASE OnAdc2(v, p) /\ ~OnAdc1(v, p)
  <2>1. Adc2Channel[v][p] \in Channels
    <3>1. CASE v = "ESP32"
      <4> DEFINE pins == <<4, 0, 2, 15, 13, 12, 14, 27, 25, 26>>
      <4>1. /\ p \in {pins[i] : i \in 1 .. 10}
            /\ Adc2Channel[v][p] = CHOOSE c \in 0 .. 9 : pins[c + 1] = p
        BY <1>3, <3>1 DEF OnAdc2, Adc2Channel
      <4> HIDE DEF pins
      <4>2. PICK i \in 1 .. 10 : p = pins[i]
        BY <4>1
      <4>3. i - 1 \in 0 .. 9 /\ pins[(i - 1) + 1] = p
        BY <4>2
      <4>4. \E c \in 0 .. 9 : pins[c + 1] = p
        BY <4>3
      <4>5. (CHOOSE c \in 0 .. 9 : pins[c + 1] = p) \in 0 .. 9
        BY <4>4
      <4> QED BY <4>1, <4>5 DEF Channels
    <3>2. CASE v \in {"ESP32S2", "ESP32S3"}
      BY <1>3, <3>2 DEF OnAdc2, Adc2Channel, Channels
    <3>3. CASE v \in {"ESP32C2", "ESP32C3", "ESP32C6", "ESP32H2"}
      BY <1>3, <3>3 DEF OnAdc2, Adc2Channel, Channels
    <3> QED BY <1>1, <3>1, <3>2, <3>3 DEF ESP32Variants
  <2> QED BY <1>3, <2>1 DEF ChannelOf
<1> QED BY <1>1, <1>2, <1>3

LEMMA SetterType ==
  ASSUME NEW name \in {"set_channel", "set_channel2"}, NEW i \in Channels,
         NEW c, NEW p, ValidAdcPin(c.variant, p)
  PROVE  Setter(name, i, c, p) \in SetterCalls
<1>1. ChannelOf(c.variant, p) \in Channels
  BY ChannelType
<1> QED BY <1>1 DEF Setter, SetterCalls

\* The pins of a configuration with a voltage pin.
LEMMA PinLists ==
  ASSUME NEW v \in Seq(Nat), NEW w \in Seq(Nat), v # <<>>, Len(v) + Len(w) <= 10
  PROVE  /\ Len(v) + Len(w) \in 1 .. 10 /\ 1 + Len(w) \in 1 .. 10 /\ v[1] \in Nat
         /\ v \o w \in Seq(Nat) /\ Len(v \o w) = Len(v) + Len(w)
         /\ (v \o w)[1] = v[1]
         /\ \A j \in 1 .. Len(w) : \E i \in 1 .. Len(v) + Len(w) : (v \o w)[i] = w[j]
<1> DEFINE a == Len(v)
           b == Len(w)
           s == v \o w
<1>1. a \in Nat /\ b \in Nat /\ a # 0 /\ a + b <= 10
  BY EmptySeq
<1>2. v[1] \in Nat
  <2>1. 1 \in 1 .. a
    BY <1>1
  <2> QED BY <2>1, ElementOfSeq
<1>3. /\ s \in Seq(Nat) /\ Len(s) = a + b
      /\ \A i \in 1 .. a + b : s[i] = IF i <= a THEN v[i] ELSE w[i - a]
  BY ConcatProperties, Zenon
<1> HIDE DEF a, b, s
<1>4. a + b \in 1 .. 10 /\ 1 + b \in 1 .. 10 /\ 1 \in 1 .. a + b /\ 1 <= a
  BY <1>1
<1>5. s[1] = v[1]
  BY <1>3, <1>4
<1>6. \A j \in 1 .. b : \E i \in 1 .. a + b : s[i] = w[j]
  <2> TAKE j \in 1 .. b
  <2>1. a + j \in 1 .. a + b /\ ~(a + j <= a) /\ (a + j) - a = j
    BY <1>1
  <2> QED BY <1>3, <2>1
<1> QED BY <1>2, <1>3, <1>4, <1>5, <1>6 DEF a, b, s

\* What to_code generates is a call for each pin, or for each but the voltage
\* pins after the first.
LEMMA CallsType ==
  ASSUME NEW c, Wellformed(c), c.voltage # <<>>,
         \A p \in ToSet(Pins(c)) : ValidAdcPin(c.variant, p)
  PROVE  Calls(c) \in Seq(SetterCalls) /\ Len(Calls(c)) <= 10
<1> DEFINE n == NumPins(c)
           m == 1 + Len(c.current)
<1>1. /\ c.voltage \in Seq(Nat) /\ c.current \in Seq(Nat)
      /\ Len(c.voltage) + Len(c.current) <= 10
  BY DEF Wellformed, Yaml, NumPins
<1>2. /\ n \in 1 .. 10 /\ m \in 1 .. 10 /\ c.voltage[1] \in Nat
      /\ Len(Pins(c)) = n /\ Pins(c)[1] = c.voltage[1] /\ Pins(c) \in Seq(Nat)
      /\ \A j \in 1 .. Len(c.current) : \E i \in 1 .. n : Pins(c)[i] = c.current[j]
  BY <1>1, PinLists, Zenon DEF Pins, NumPins
<1> HIDE DEF n
<1>3. /\ \A i \in 1 .. n : ValidAdcPin(c.variant, Pins(c)[i])
      /\ ValidAdcPin(c.variant, c.voltage[1])
      /\ \A j \in 1 .. Len(c.current) : ValidAdcPin(c.variant, c.current[j])
  <2>1. \A i \in 1 .. n : Pins(c)[i] \in ToSet(Pins(c))
    BY <1>2 DEF ToSet
  <2>2. 1 \in 1 .. n
    BY <1>2
  <2> QED BY <1>2, <2>1, <2>2
<1>4. CASE c.component = "adc_continous"
  <2>1. /\ ByConverter(c, c.voltage[1]) \in {"set_channel", "set_channel2"}
        /\ 0 \in Channels
    BY DEF ByConverter, Channels
  <2>2. Setter(ByConverter(c, c.voltage[1]), 0, c, c.voltage[1]) \in SetterCalls
    BY <1>3, <2>1, SetterType
  <2>3. Calls(c) = <<Setter(ByConverter(c, c.voltage[1]), 0, c, c.voltage[1])>>
    BY <1>4 DEF Calls, CallsAdcContinous
  <2> QED BY <2>2, <2>3
<1>5. CASE c.component = "clamp"
  <2>1. \A i \in 1 .. n :
          Setter(ByConverter(c, Pins(c)[i]), i - 1, c, Pins(c)[i]) \in SetterCalls
    <3> TAKE i \in 1 .. n
    <3>1. i - 1 \in Channels /\ ByConverter(c, Pins(c)[i]) \in {"set_channel", "set_channel2"}
      BY <1>2 DEF Channels, ByConverter
    <3> QED BY <1>3, <3>1, SetterType
  <2>2. Calls(c) = [i \in 1 .. n |->
                      Setter(ByConverter(c, Pins(c)[i]), i - 1, c, Pins(c)[i])]
    BY <1>5 DEF Calls, CallsClamp, n
  <2>3. Calls(c) \in Seq(SetterCalls) /\ Len(Calls(c)) = n
    BY <1>2, <2>1, <2>2
  <2> QED BY <1>2, <2>3
<1>6. CASE ~(c.component = "adc_continous") /\ ~(c.component = "clamp")
  <2>1. Len(Sampled(c)) = m
    BY <1>1, <1>2, ConcatProperties DEF Sampled
  <2>2. m = 1 + Len(c.current) /\ Len(c.current) \in Nat
    BY <1>1
  <2>3. \A i \in 1 .. m : ValidAdcPin(c.variant, Sampled(c)[i])
    <3> TAKE i \in 1 .. m
    <3>1. CASE i = 1
      <4>1. Sampled(c)[1] = c.voltage[1]
        BY <1>1, <1>2 DEF Sampled
      <4> QED BY <1>3, <3>1, <4>1
    <3>2. CASE i # 1
      <4>1. i - 1 \in 1 .. Len(c.current) /\ Sampled(c)[i] = c.current[i - 1]
        BY <1>1, <1>2, <2>2, <3>2 DEF Sampled
      <4> QED BY <1>3, <4>1
    <3> QED BY <3>1, <3>2
  <2> HIDE DEF m
  <2>4. \A i \in 1 .. m : Setter("set_channel", i - 1, c, Sampled(c)[i]) \in SetterCalls
    <3> TAKE i \in 1 .. m
    <3>1. i - 1 \in Channels
      BY <1>2 DEF Channels
    <3> QED BY <2>3, <3>1, SetterType
  <2>5. Calls(c) = [i \in 1 .. m |-> Setter("set_channel", i - 1, c, Sampled(c)[i])]
    BY <1>6, <2>1 DEF Calls, CallsClamp2
  <2>6. Calls(c) \in Seq(SetterCalls) /\ Len(Calls(c)) = m
    BY <1>2, <2>4, <2>5
  <2> QED BY <1>2, <2>6
<1> QED BY <1>4, <1>5, <1>6

LEMMA TypeInit == FirmwareInit => TypeInv
<1> SUFFICES ASSUME FirmwareInit PROVE TypeInv
  OBVIOUS
<1>1. stage = "written" /\ stage \in Stages /\ stage \notin Validated
  BY DEF FirmwareInit, Init, Stages, Validated
<1>2. calls = <<>> /\ calls \in Seq(SetterCalls) /\ Len(calls) <= 10
  BY DEF FirmwareInit, Init
<1>3. channel \in [Channels -> Channels]
  <2>1. PICK c \in {0, 9} : channel = [i \in Channels |-> c]
    BY DEF FirmwareInit
  <2>2. c \in Channels
    BY DEF Channels
  <2> QED BY <2>1, <2>2
<1>4. channels \in [Channels -> 0 .. 255]
  <2>1. PICK p \in {0, 255} : channels = [c \in Channels |-> p]
    BY DEF FirmwareInit
  <2>2. p \in 0 .. 255
    OBVIOUS
  <2> QED BY <2>1, <2>2
<1> QED BY <1>1, <1>2, <1>3, <1>4 DEF TypeInv

\* Validation leaves pins with a channel.
LEMMA ValidateTypes == BuildInv /\ TypeInv /\ Validate /\ UNCHANGED firmware => TypeInv'
<1> SUFFICES ASSUME BuildInv, TypeInv, Validate, UNCHANGED firmware PROVE TypeInv'
  OBVIOUS
<1> DEFINE c == WithDefaults(config)
<1>1. UNCHANGED <<calls, channel, channels>>
  BY DEF Validate, firmware
<1>2. CASE Schema(c) /\ AutoFits(c)
  <2>1. config' = Normalised(c) /\ stage' = "valid"
    BY <1>2 DEF Validate
  <2>2. config'.variant = c.variant /\ Pins(config') = Pins(c)
    <3>1. Wellformed(config)
      BY DEF BuildInv
    <3> QED BY <2>1, <3>1, ValidationKeeps DEF Pins
  <2>3. \A p \in ToSet(Pins(c)) : ValidAdcPin(c.variant, p)
    BY <1>2 DEF Schema
  <2>4. stage' \in Stages
    BY <2>1 DEF Stages
  <2> HIDE DEF c
  <2>5. (\A p \in ToSet(Pins(config)) : ValidAdcPin(config.variant, p))'
    BY <2>2, <2>3
  <2> QED BY <1>1, <2>4, <2>5 DEF TypeInv
<1>3. CASE ~(Schema(c) /\ AutoFits(c))
  <2>1. stage' = "rejected"
    BY <1>3 DEF Validate
  <2>2. stage' \in Stages /\ stage' \notin Validated
    BY <2>1 DEF Stages, Validated
  <2> QED BY <1>1, <2>2 DEF TypeInv
<1> QED BY <1>2, <1>3

\* setup() fills the tables with what it is called with.
LEMMA TableTypes ==
  ASSUME TypeInv, SetChannels
  PROVE  channel' \in [Channels -> Channels] /\ channels' \in [Channels -> 0 .. 255]
<1>1. /\ calls \in Seq(SetterCalls) /\ DOMAIN calls = 1 .. Len(calls)
      /\ DOMAIN calls \in SUBSET (1 .. 10)
  <2>1. calls \in Seq(SetterCalls) /\ Len(calls) <= 10
    BY DEF TypeInv
  <2>2. DOMAIN calls = 1 .. Len(calls) /\ Len(calls) \in Nat
    BY <2>1, LenProperties
  <2> QED BY <2>1, <2>2
<1>2. ASSUME NEW S \in SUBSET (DOMAIN calls), S # {}
      PROVE  calls[Max(S)].channel \in Channels /\ calls[Max(S)].index \in 0 .. 255
  <2>1. Max(S) \in DOMAIN calls
    BY <1>1, <1>2, MaxIn
  <2>2. calls[Max(S)] \in SetterCalls
    BY <1>1, <2>1
  <2> QED BY <2>2 DEF SetterCalls, Channels
<1>3. channel \in [Channels -> Channels] /\ channels \in [Channels -> 0 .. 255]
  BY DEF TypeInv
<1>4. ASSUME NEW i \in Channels
      PROVE  (LET set == {k \in DOMAIN calls : calls[k].index = i}
              IN  IF set = {} THEN channel[i] ELSE calls[Max(set)].channel) \in Channels
  BY <1>2, <1>3
<1>5. ASSUME NEW c \in Channels
      PROVE  (LET set == {k \in DOMAIN calls : calls[k].channel = c}
              IN  IF set = {} THEN channels[c] ELSE calls[Max(set)].index) \in 0 .. 255
  BY <1>2, <1>3
<1> QED BY <1>4, <1>5 DEF SetChannels

LEMMA TypeNext == BuildInv /\ TypeInv /\ [Next]_allVars => TypeInv'
<1> SUFFICES ASSUME BuildInv, TypeInv, [Next]_allVars PROVE TypeInv'
  OBVIOUS
<1>1. CASE Validate /\ UNCHANGED firmware
  BY <1>1, ValidateTypes
<1>2. CASE FinalValidate /\ UNCHANGED firmware
  <2>1. /\ UNCHANGED <<config, calls, channel, channels>> /\ stage \in Validated
        /\ stage' \in Stages
    BY <1>2 DEF FinalValidate, firmware, Validated, Stages
  <2> QED BY <2>1 DEF TypeInv
<1>3. CASE Generate /\ UNCHANGED firmware
  <2>1. /\ UNCHANGED <<config, channel, channels>> /\ stage \in Validated
        /\ stage' \in Stages
        /\ calls' = calls \/ (config.voltage # <<>> /\ calls' = Calls(config))
    BY <1>3 DEF Generate, firmware, Validated, Stages
  <2>2. calls' \in Seq(SetterCalls) /\ Len(calls') <= 10
    <3>1. Wellformed(config) /\ \A p \in ToSet(Pins(config)) : ValidAdcPin(config.variant, p)
      BY <2>1 DEF BuildInv, TypeInv
    <3>2. CASE calls' = calls
      BY <3>2 DEF TypeInv
    <3>3. CASE config.voltage # <<>> /\ calls' = Calls(config)
      BY <3>1, <3>3, CallsType
    <3> QED BY <2>1, <3>2, <3>3
  <2> QED BY <2>1, <2>2 DEF TypeInv
<1>4. CASE Compile /\ UNCHANGED firmware
  <2>1. /\ UNCHANGED <<config, calls, channel, channels>> /\ stage \in Validated
        /\ stage' \in Stages
    BY <1>4 DEF Compile, firmware, Validated, Stages
  <2> QED BY <2>1 DEF TypeInv
<1>5. CASE Setup
  <2>1. /\ UNCHANGED <<config, calls>> /\ stage \in Validated /\ stage' \in Stages
        /\ SetChannels
    BY <1>5 DEF Setup, Validated, Stages
  <2> QED BY <2>1, TableTypes DEF TypeInv
<1>6. CASE Convert \/ Loop \/ UNCHANGED allVars
  <2>1. UNCHANGED <<config, stage, calls, channel, channels>>
    BY <1>6 DEF Convert, Loop, allVars, vars, firmware
  <2> QED BY <2>1 DEF TypeInv
<1> QED BY <1>1, <1>2, <1>3, <1>4, <1>5, <1>6 DEF Next, BuildStep, Build

\* Every reachable state is well typed, whatever users configure: in particular
\* no call of set_channel names an entry that the tables do not have, and loop()
\* never has more than two frames to read.
THEOREM TypeCorrect == Spec => []TypeOK
<1>1. BuildInv /\ FrameInv /\ TypeInv => TypeOK
  <2> SUFFICES ASSUME BuildInv, FrameInv, TypeInv PROVE TypeOK
    OBVIOUS
  <2>1. Wellformed(config) /\ late \in BOOLEAN
    BY Zenon DEF BuildInv, FrameInv
  <2>2. IF stage = "running" THEN pool \in 0 .. 2 * Frame /\ len \in 0 .. 2 * Frame
                             ELSE pool = 0 /\ len = 0
    BY Zenon DEF FrameInv
  <2> QED BY <2>1, <2>2, Zenon DEF TypeOK, TypeInv, Stages, SetterCalls
<1> QED BY <1>1, BuildInit, BuildNext, FrameInit, FrameNext, TypeInit, TypeNext, PTL DEF Spec
==============================================================================
