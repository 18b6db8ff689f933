------------------------------ MODULE Rigol_proofs ------------------------------
(***************************************************************************)
(* Proofs about Rigol, for every number of clients, of samples and of       *)
(* frames, and every width of the trigger's counter.                        *)
(***************************************************************************)
EXTENDS Rigol, TLAPS

\* The interrupt has copied the first samples of its frame, and of every frame
\* it has copied one notification at most is pending.
Copying ==
  /\ \A i \in 1 .. copied : buffer_[i] = frame
  /\ notified <= frame
  /\ copied < SampleCount => notified < frame

AllOf(samples, n) == \A i \in DOMAIN samples : samples[i] = n

\* A waveform that was asked for in calm has the last frame.
Calm ==
  /\ stopped => ~converting
  /\ \A c \in Clients : calm[c] => stopped
  /\ \A c \in Clients : calm[c] => copied = SampleCount
  /\ \A c \in Clients : at[c] # "waveform" => reply[c] = <<>>
  /\ \A c \in Clients : calm[c] => AllOf(reply[c], frame)

\* As long as they do not overlap, a query of the trigger has read the counter
\* as it still is, and the counter of a trigger just stopped is 1.
Told ==
  /\ \A c, d \in Clients : at[c] = "trigger" /\ at[d] = "trigger" => c = d
  /\ \A c \in Clients : at[c] = "trigger" => taken[c] = block
  /\ status = "STOP" => block = 1

\* The variables of the interrupt and of the clients, without the Booleans.
Numbers ==
  /\ frame \in 0 .. MaxFrames
  /\ copied \in 0 .. SampleCount
  /\ buffer_ \in [1 .. SampleCount -> 0 .. MaxFrames]
  /\ notified \in 0 .. MaxFrames
  /\ reported \in 0 .. MaxFrames
  /\ block \in 0 .. Wrap - 1
  /\ taken \in [Clients -> 0 .. Wrap - 1]

Replies ==
  /\ reply \in [Clients -> Seq(0 .. MaxFrames)]
  /\ \A c \in Clients : Len(reply[c]) <= SampleCount

Places ==
  /\ adc_task \in {"take", "data", "seen"}
  /\ at \in [Clients -> {"idle", "trigger", "waveform"}]
  /\ status \in {"", "STOP", "AUTO"}

Flags ==
  /\ converting \in BOOLEAN /\ stopped \in BOOLEAN /\ overlapped \in BOOLEAN
  /\ calm \in [Clients -> BOOLEAN]

Types == Numbers /\ Replies /\ Places /\ Flags

LEMMA TypesAreRight == Types <=> TypeOK
  BY Zenon DEF TypeOK, Types, Numbers, Replies, Places, Flags

IInv == Types /\ Copying /\ Calm /\ (~overlapped => Told)

LEMMA Bounds ==
  /\ SampleCount \in Nat /\ SampleCount >= 1
  /\ Wrap \in Nat /\ Wrap >= 2 /\ MaxFrames \in Nat
  BY SampleCountAssumption, WrapAssumption, MaxFramesAssumption

\* The quotient by which a frame is known to be complete.
LEMMA FrameComplete ==
  ASSUME NEW k \in 1 .. SampleCount
  PROVE  k \div SampleCount = IF k = SampleCount THEN 1 ELSE 0
  BY SampleCountAssumption

LEMMA Wraps ==
  ASSUME NEW k \in 0 .. Wrap - 1
  PROVE  (k + 1) % Wrap \in 0 .. Wrap - 1 /\ (0 + 1) % Wrap = 1
  BY WrapAssumption

LEMMA RigolInit == Init => IInv
<1> SUFFICES ASSUME Init PROVE IInv
  OBVIOUS
<1>0. /\ frame = 0 /\ copied = SampleCount /\ notified = 0 /\ reported = 0 /\ block = 0
      /\ buffer_ = [i \in 1 .. SampleCount |-> 0] /\ taken = [c \in Clients |-> 0]
  BY Zenon DEF Init
<1>1. Numbers
  <2>1. /\ frame \in 0 .. MaxFrames /\ copied \in 0 .. SampleCount
        /\ notified \in 0 .. MaxFrames /\ reported \in 0 .. MaxFrames
        /\ block \in 0 .. Wrap - 1
    BY <1>0, Bounds
  <2>2. /\ buffer_ \in [1 .. SampleCount -> 0 .. MaxFrames]
        /\ taken \in [Clients -> 0 .. Wrap - 1]
    BY <1>0, Bounds
  <2> QED BY <2>1, <2>2, Zenon DEF Numbers
<1>2. Replies /\ Places
  <2>1. /\ adc_task = "take" /\ at = [c \in Clients |-> "idle"] /\ status = ""
    BY Zenon DEF Init
  <2>2. Places
    BY <2>1 DEF Places
  <2>3. reply = [c \in Clients |-> <<>>]
    BY Zenon DEF Init
  <2>4. Replies
    BY <2>3, Bounds DEF Replies
  <2> QED BY <2>2, <2>4, Zenon
<1>3. Flags
  <2>1. [c \in Clients |-> FALSE] \in [Clients -> BOOLEAN]
    OBVIOUS
  <2> QED BY <2>1, Zenon DEF Init, Flags
<1>4. Copying
  BY <1>0, Bounds DEF Copying
<1>5. \A c \in Clients : reply[c] = <<>> /\ at[c] = "idle" /\ calm[c] = FALSE
  BY Zenon DEF Init
<1>6. "idle" # "trigger" /\ status # "STOP"
  <2>1. status = ""
    BY Zenon DEF Init
  <2> QED BY <2>1
<1>7. converting = FALSE /\ stopped = FALSE
  BY Zenon DEF Init
<1>8. Calm
  BY <1>5, <1>7, Zenon DEF Calm
<1>9. Told
  BY <1>5, <1>6, Zenon DEF Told
<1> QED BY <1>1, <1>2, <1>3, <1>4, <1>8, <1>9, Zenon DEF IInv, Types

\* Steps of the sampling task.
LEMMA AdcTaskInv == IInv /\ (TakeNotification \/ Report \/ Reported) => IInv'
<1> SUFFICES ASSUME IInv, TakeNotification \/ Report \/ Reported PROVE IInv'
  OBVIOUS
<1>1. /\ frame' = frame /\ copied' = copied
      /\ buffer_' = buffer_ /\ block' = block /\ at' = at /\ taken' = taken
      /\ reply' = reply /\ status' = status /\ calm' = calm
  BY Zenon DEF TakeNotification, Report, Reported, scpi, history
<1>0. converting' = converting /\ stopped' = stopped /\ overlapped' = overlapped
  BY Zenon DEF TakeNotification, Report, Reported, history
<1>2. Numbers /\ Replies /\ Places /\ Flags /\ Copying
  BY Zenon DEF IInv, Types
<1>3. /\ notified' = notified \/ (notified > 0 /\ notified' = 0)
      /\ reported' = reported \/ reported' = buffer_[1]
      /\ adc_task' \in {"take", "data", "seen"}
  BY DEF TakeNotification, Report, Reported
<1>4. buffer_[1] \in 0 .. MaxFrames
  BY <1>2, SampleCountAssumption DEF Numbers
<1>5. Numbers'
  <2>1. notified' \in 0 .. MaxFrames /\ reported' \in 0 .. MaxFrames
    <3>1. notified \in 0 .. MaxFrames /\ reported \in 0 .. MaxFrames
      BY <1>2, Zenon DEF Numbers
    <3> QED BY <1>3, <1>4, <3>1, Bounds
  <2> QED BY <1>1, <1>2, <2>1, Zenon DEF Numbers
<1>6. Replies' /\ Places' /\ Flags'
  BY <1>0, <1>1, <1>2, <1>3, Zenon DEF Replies, Places, Flags
<1>7. Copying'
  BY <1>1, <1>2, <1>3 DEF Copying, Numbers
<1>8. Calm' /\ (Told => Told')
  BY <1>0, <1>1, Zenon DEF IInv, Calm, Told
<1> QED BY <1>0, <1>1, <1>5, <1>6, <1>7, <1>8, Zenon DEF IInv, Types

LEMMA ConvertInv == IInv /\ Convert => IInv'
<1> SUFFICES ASSUME IInv, Convert PROVE IInv'
  OBVIOUS
<1>1. /\ copied = SampleCount /\ frame < MaxFrames
      /\ frame' = frame + 1 /\ copied' = 0
      /\ buffer_' = buffer_ /\ notified' = notified /\ adc_task' = adc_task
      /\ reported' = reported
  BY Zenon DEF Convert
<1>2. block' = block /\ at' = at /\ taken' = taken /\ reply' = reply /\ status' = status
  BY Zenon DEF Convert, scpi
<1>0. /\ converting' = converting /\ stopped' = stopped /\ calm' = calm
      /\ overlapped' = overlapped /\ converting
  BY Zenon DEF Convert, history
<1>3. Numbers /\ Replies /\ Places /\ Flags /\ Copying
  BY Zenon DEF IInv, Types
<1>4. Numbers'
  <2>1. frame' \in 0 .. MaxFrames /\ copied' \in 0 .. SampleCount
    <3>1. frame \in 0 .. MaxFrames
      BY <1>3, Zenon DEF Numbers
    <3> QED BY <1>1, <3>1, Bounds
  <2> QED BY <1>1, <1>2, <1>3, <2>1, Zenon DEF Numbers
<1>5. Replies' /\ Places' /\ Flags'
  BY <1>0, <1>1, <1>2, <1>3, Zenon DEF Replies, Places, Flags
<1>6. Copying'
  BY <1>1, <1>3 DEF Copying, Numbers
<1>7. \A c \in Clients : ~calm[c]
  BY <1>0, <1>2, Zenon DEF IInv, Calm
<1>8. Calm'
  BY <1>0, <1>1, <1>2, <1>7, Zenon DEF IInv, Calm
<1>9. Told => Told'
  BY <1>0, <1>2, Zenon DEF Told
<1> QED BY <1>0, <1>2, <1>4, <1>5, <1>6, <1>8, <1>9, Zenon DEF IInv, Types

LEMMA CallbackInv == IInv /\ Callback => IInv'
<1> SUFFICES ASSUME IInv, Callback PROVE IInv'
  OBVIOUS
<1>1. /\ copied < SampleCount /\ copied' = copied + 1
      /\ buffer_' = [buffer_ EXCEPT ![copied'] = frame]
      /\ notified' = notified + (copied' \div SampleCount)
      /\ frame' = frame /\ adc_task' = adc_task /\ reported' = reported
  BY Zenon DEF Callback
<1>2. block' = block /\ at' = at /\ taken' = taken /\ reply' = reply /\ status' = status
  BY Zenon DEF Callback, scpi
<1>0. /\ converting' = converting /\ stopped' = stopped /\ calm' = calm
      /\ overlapped' = overlapped
  BY Zenon DEF Callback, history
<1>3. Numbers /\ Replies /\ Places /\ Flags /\ Copying
  BY Zenon DEF IInv, Types
<1>4. copied \in 0 .. SampleCount /\ copied' \in 1 .. SampleCount
  BY <1>1, <1>3, SampleCountAssumption DEF Numbers
<1>5. copied' \div SampleCount = IF copied' = SampleCount THEN 1 ELSE 0
  BY <1>4, FrameComplete
<1>6. /\ notified' \in 0 .. MaxFrames /\ notified' <= frame
      /\ copied' < SampleCount => notified' < frame
  <2>1. /\ notified \in 0 .. MaxFrames /\ frame \in 0 .. MaxFrames
        /\ notified < frame
    BY <1>1, <1>3 DEF Numbers, Copying
  <2>2. notified' = notified + IF copied' = SampleCount THEN 1 ELSE 0
    BY <1>1, <1>5
  <2> HIDE DEF Callback
  <2> QED BY <1>4, <2>1, <2>2, SampleCountAssumption, MaxFramesAssumption
<1>7. /\ buffer_' \in [1 .. SampleCount -> 0 .. MaxFrames]
      /\ \A i \in 1 .. copied' : buffer_'[i] = frame
  BY <1>1, <1>3, <1>4 DEF Numbers, Copying
<1>8. Numbers'
  BY <1>1, <1>2, <1>3, <1>4, <1>6, <1>7 DEF Numbers
<1>9. Replies' /\ Places' /\ Flags'
  BY <1>0, <1>1, <1>2, <1>3, Zenon DEF Replies, Places, Flags
<1>10. Copying'
  BY <1>1, <1>6, <1>7 DEF Copying
<1>11. \A c \in Clients : ~calm[c]
  <2>1. copied # SampleCount
    BY <1>1, <1>4
  <2> QED BY <2>1, Zenon DEF IInv, Calm
<1>12. Calm'
  BY <1>0, <1>1, <1>2, <1>11, Zenon DEF IInv, Calm
<1>13. Told => Told'
  BY <1>0, <1>2, Zenon DEF Told
<1> QED BY <1>0, <1>2, <1>8, <1>9, <1>10, <1>12, <1>13, Zenon DEF IInv, Types

\* Starting and stopping, by a client or by an update.
LEMMA SwitchInv ==
  IInv /\ (OtaStarted \/ \E c \in Clients : Run(c) \/ Stop(c)) => IInv'
<1> SUFFICES ASSUME IInv, OtaStarted \/ \E c \in Clients : Run(c) \/ Stop(c) PROVE IInv'
  OBVIOUS
<1>1. /\ frame' = frame /\ copied' = copied /\ buffer_' = buffer_ /\ notified' = notified
      /\ adc_task' = adc_task /\ reported' = reported
      /\ block' = block /\ at' = at /\ taken' = taken /\ reply' = reply
      /\ status' = status /\ overlapped' = overlapped
  BY Zenon DEF OtaStarted, Run, Stop, Start, StopConverter, scpi
<1>2. \/ converting' = TRUE /\ stopped' = FALSE /\ calm' = [c \in Clients |-> FALSE]
      \/ converting' = FALSE /\ stopped' = TRUE /\ calm' = calm
  BY Zenon DEF OtaStarted, Run, Stop, Start, StopConverter
<1>3. Numbers /\ Replies /\ Places /\ Flags /\ Copying
  BY Zenon DEF IInv, Types
<1>4. Numbers' /\ Replies' /\ Places'
  BY <1>1, <1>3, Zenon DEF Numbers, Replies, Places
<1>5. Flags'
  <2>1. [c \in Clients |-> FALSE] \in [Clients -> BOOLEAN]
    OBVIOUS
  <2> QED BY <1>1, <1>2, <1>3, <2>1, Zenon DEF Flags
<1>6. Copying'
  BY <1>1, <1>3, Zenon DEF Copying
<1>7. Calm'
  <2>1. stopped' => ~converting'
    BY <1>2, Zenon
  <2>2. \A c \in Clients : calm'[c] => stopped' /\ calm[c]
    BY <1>2, Zenon
  <2>3. /\ \A c \in Clients : calm[c] => copied = SampleCount
        /\ \A c \in Clients : at[c] # "waveform" => reply[c] = <<>>
        /\ \A c \in Clients : calm[c] => AllOf(reply[c], frame)
    BY Zenon DEF IInv, Calm
  <2> QED BY <1>1, <2>1, <2>2, <2>3, Zenon DEF Calm
<1>8. Told => Told'
  BY <1>1, Zenon DEF Told
<1> QED BY <1>1, <1>4, <1>5, <1>6, <1>7, <1>8, Zenon DEF IInv, Types

LEMMA TriggerStatusInv ==
  ASSUME IInv, NEW c \in Clients, TriggerStatus(c)
  PROVE  IInv'
<1>1. /\ frame' = frame /\ copied' = copied /\ buffer_' = buffer_ /\ notified' = notified
      /\ adc_task' = adc_task /\ reported' = reported
      /\ block' = block /\ reply' = reply /\ status' = status /\ calm' = calm
      /\ at[c] = "idle" /\ at' = [at EXCEPT ![c] = "trigger"]
      /\ taken' = [taken EXCEPT ![c] = block]
  BY Zenon DEF TriggerStatus, sampling
<1>0. /\ converting' = converting /\ stopped' = stopped
      /\ overlapped' = (overlapped \/ \E d \in Clients : at[d] = "trigger")
  BY Zenon DEF TriggerStatus, sampling
<1>2. Numbers /\ Replies /\ Places /\ Flags /\ Copying
  BY Zenon DEF IInv, Types
<1>3. /\ taken' \in [Clients -> 0 .. Wrap - 1]
      /\ taken'[c] = block
      /\ \A d \in Clients : d # c => taken'[d] = taken[d]
  BY <1>1, <1>2, Zenon DEF Numbers
<1>4. /\ at' \in [Clients -> {"idle", "trigger", "waveform"}]
      /\ at'[c] = "trigger"
      /\ \A d \in Clients : d # c => at'[d] = at[d]
  BY <1>1, <1>2 DEF Places
<1>5. Numbers' /\ Replies' /\ Copying'
  BY <1>1, <1>2, <1>3, Zenon DEF Numbers, Replies, Copying
<1>6. Places'
  BY <1>1, <1>2, <1>4, Zenon DEF Places
<1>7. Flags'
  BY <1>0, <1>1, <1>2, Zenon DEF Flags
<1>8. Calm'
  <2>1. \A d \in Clients : at'[d] # "waveform" => at[d] # "waveform"
    <3>1. at[c] # "waveform"
      BY <1>1
    <3> QED BY <1>4, <3>1, Zenon
  <2> QED BY <1>0, <1>1, <2>1, Zenon DEF IInv, Calm
<1>9. ASSUME ~overlapped' PROVE Told'
  <2>1. Told /\ \A d \in Clients : at[d] # "trigger"
    BY <1>0, <1>9, Zenon DEF IInv
  <2>2. \A d \in Clients : at'[d] = "trigger" => d = c
    BY <1>4, <2>1, Zenon
  <2> QED BY <1>1, <1>3, <2>1, <2>2, Zenon DEF Told
<1> QED BY <1>5, <1>6, <1>7, <1>8, <1>9, Zenon DEF IInv, Types

LEMMA TriggerAnsweredInv ==
  ASSUME IInv, NEW c \in Clients, TriggerAnswered(c)
  PROVE  IInv'
<1>1. /\ frame' = frame /\ copied' = copied /\ buffer_' = buffer_ /\ notified' = notified
      /\ adc_task' = adc_task /\ reported' = reported
      /\ reply' = reply /\ calm' = calm
      /\ at[c] = "trigger" /\ at' = [at EXCEPT ![c] = "idle"]
      /\ taken' = [taken EXCEPT ![c] = 0]
      /\ block' = (taken[c] + 1) % Wrap
      /\ status' = IF taken[c] = 0 THEN "STOP" ELSE "AUTO"
  BY Zenon DEF TriggerAnswered, sampling, history
<1>0. converting' = converting /\ stopped' = stopped /\ overlapped' = overlapped
  BY Zenon DEF TriggerAnswered, sampling, history
<1>2. Numbers /\ Replies /\ Places /\ Flags /\ Copying
  BY Zenon DEF IInv, Types
<1>3. taken[c] \in 0 .. Wrap - 1 /\ 0 \in 0 .. Wrap - 1
  <2>1. taken[c] \in 0 .. Wrap - 1
    BY <1>2, Zenon DEF Numbers
  <2> QED BY <2>1, Bounds
<1>4. /\ taken' \in [Clients -> 0 .. Wrap - 1]
      /\ \A d \in Clients : d # c => taken'[d] = taken[d]
  BY <1>1, <1>2, <1>3, Zenon DEF Numbers
<1>5. block' \in 0 .. Wrap - 1 /\ (taken[c] = 0 => block' = 1)
  BY <1>1, <1>3, Wraps, Zenon
<1>6. /\ at' \in [Clients -> {"idle", "trigger", "waveform"}]
      /\ at'[c] = "idle"
      /\ \A d \in Clients : d # c => at'[d] = at[d]
  BY <1>1, <1>2 DEF Places
<1>7. /\ status' \in {"", "STOP", "AUTO"}
      /\ status' = "STOP" => taken[c] = 0
  BY <1>1
<1>8. Numbers' /\ Replies' /\ Copying'
  BY <1>1, <1>2, <1>4, <1>5, Zenon DEF Numbers, Replies, Copying
<1>9. Places' /\ Flags'
  BY <1>0, <1>1, <1>2, <1>6, <1>7, Zenon DEF Places, Flags
<1>10. Calm'
  <2>1. \A d \in Clients : at'[d] # "waveform" => at[d] # "waveform"
    <3>1. at[c] # "waveform"
      BY <1>1
    <3> QED BY <1>6, <3>1, Zenon
  <2> QED BY <1>0, <1>1, <2>1, Zenon DEF IInv, Calm
<1>11. Told => Told'
  <2> SUFFICES ASSUME Told PROVE Told'
    OBVIOUS
  <2>1. \A d \in Clients : at'[d] # "trigger"
    <3>1. \A d \in Clients : at[d] = "trigger" => d = c
      BY <1>1, Zenon DEF Told
    <3>2. at'[c] # "trigger"
      BY <1>6
    <3> QED BY <1>6, <3>1, <3>2, Zenon
  <2> QED BY <1>5, <1>7, <2>1, Zenon DEF Told
<1> QED BY <1>0, <1>8, <1>9, <1>10, <1>11, Zenon DEF IInv, Types

LEMMA WaveformInv ==
  ASSUME IInv, NEW c \in Clients, Waveform(c)
  PROVE  IInv'
<1>1. /\ frame' = frame /\ copied' = copied /\ buffer_' = buffer_ /\ notified' = notified
      /\ adc_task' = adc_task /\ reported' = reported
      /\ block' = block /\ taken' = taken /\ reply' = reply /\ status' = status
      /\ at[c] = "idle" /\ at' = [at EXCEPT ![c] = "waveform"]
  BY Zenon DEF Waveform, sampling
<1>0. converting' = converting /\ stopped' = stopped /\ overlapped' = overlapped
  BY Zenon DEF Waveform, sampling
<1>2. calm' = [calm EXCEPT ![c] = stopped /\ copied = SampleCount]
  BY Zenon DEF Waveform
<1>3. Numbers /\ Replies /\ Places /\ Flags /\ Copying /\ Calm
  BY Zenon DEF IInv, Types
<1>4. /\ at' \in [Clients -> {"idle", "trigger", "waveform"}]
      /\ \A d \in Clients : at'[d] # "waveform" => at[d] # "waveform"
      /\ \A d \in Clients : at'[d] = "trigger" => at[d] = "trigger"
  BY <1>1, <1>3 DEF Places
<1>5. Numbers' /\ Replies' /\ Places' /\ Copying'
  BY <1>1, <1>3, <1>4, Zenon DEF Numbers, Replies, Places, Copying
<1>6. Flags'
  <2>1. (stopped /\ copied = SampleCount) \in BOOLEAN
    OBVIOUS
  <2>2. calm' \in [Clients -> BOOLEAN]
    BY <1>2, <1>3, <2>1, Zenon DEF Flags
  <2> QED BY <1>0, <1>3, <2>2, Zenon DEF Flags
<1>7. /\ calm'[c] = (stopped /\ copied = SampleCount)
      /\ \A d \in Clients : d # c => calm'[d] = calm[d]
  BY <1>2, <1>3, Zenon DEF Flags
<1>8. Calm'
  <2>1. reply[c] = <<>>
    <3>1. at[c] # "waveform"
      BY <1>1
    <3> QED BY <1>3, <3>1, Zenon DEF Calm
  <2>2. AllOf(reply[c], frame)
    BY <2>1 DEF AllOf
  <2>3. \A d \in Clients : calm'[d] => stopped /\ copied = SampleCount
    BY <1>3, <1>7, Zenon DEF Calm
  <2>4. \A d \in Clients : calm'[d] => AllOf(reply[d], frame)
    BY <1>3, <1>7, <2>2, Zenon DEF Calm
  <2>5. (stopped => ~converting) /\ \A d \in Clients : at'[d] # "waveform" => reply[d] = <<>>
    BY <1>3, <1>4, Zenon DEF Calm
  <2> QED BY <1>0, <1>1, <2>3, <2>4, <2>5, Zenon DEF Calm
<1>9. Told => Told'
  BY <1>1, <1>4, Zenon DEF Told
<1> QED BY <1>0, <1>5, <1>6, <1>8, <1>9, Zenon DEF IInv, Types

LEMMA WaveformSampleInv ==
  ASSUME IInv, NEW c \in Clients, WaveformSample(c)
  PROVE  IInv'
<1> DEFINE n == Len(reply[c]) + 1
<1>1. /\ frame' = frame /\ copied' = copied /\ buffer_' = buffer_ /\ notified' = notified
      /\ adc_task' = adc_task /\ reported' = reported
      /\ block' = block /\ taken' = taken /\ status' = status /\ at' = at /\ calm' = calm
      /\ at[c] = "waveform" /\ Len(reply[c]) < SampleCount
  BY Zenon DEF WaveformSample, sampling, history
<1>0. converting' = converting /\ stopped' = stopped /\ overlapped' = overlapped
  BY Zenon DEF WaveformSample, sampling, history
<1>2. reply' = [reply EXCEPT ![c] = Append(@, buffer_[Len(@) + 1])]
  BY Zenon DEF WaveformSample
<1>3. Numbers /\ Replies /\ Places /\ Flags /\ Copying /\ Calm
  BY Zenon DEF IInv, Types
<1>4. /\ reply[c] \in Seq(0 .. MaxFrames) /\ Len(reply[c]) \in Nat
      /\ n \in 1 .. SampleCount /\ buffer_[n] \in 0 .. MaxFrames
  <2>1. reply[c] \in Seq(0 .. MaxFrames) /\ buffer_ \in [1 .. SampleCount -> 0 .. MaxFrames]
    BY <1>3, Zenon DEF Numbers, Replies
  <2>2. Len(reply[c]) \in Nat
    BY <2>1
  <2>3. n \in 1 .. SampleCount
    BY <1>1, <2>2, Bounds
  <2> QED BY <2>1, <2>2, <2>3
<1>5. /\ reply'[c] = Append(reply[c], buffer_[n])
      /\ \A d \in Clients : d # c => reply'[d] = reply[d]
      /\ reply' = [reply EXCEPT ![c] = Append(reply[c], buffer_[n])]
  BY <1>2, <1>3 DEF Replies
<1> HIDE DEF n
<1>6. /\ Append(reply[c], buffer_[n]) \in Seq(0 .. MaxFrames)
      /\ Len(Append(reply[c], buffer_[n])) = Len(reply[c]) + 1
      /\ \A i \in DOMAIN Append(reply[c], buffer_[n]) :
           Append(reply[c], buffer_[n])[i] = IF i \in DOMAIN reply[c] THEN reply[c][i]
                                                                      ELSE buffer_[n]
  BY <1>4
<1>7. Replies'
  <2>1. reply' \in [Clients -> Seq(0 .. MaxFrames)]
    BY <1>3, <1>5, <1>6, Zenon DEF Replies
  <2>2. Len(reply'[c]) <= SampleCount
    BY <1>1, <1>4, <1>5, <1>6, Bounds
  <2> QED BY <1>3, <1>5, <2>1, <2>2, Zenon DEF Replies
<1>8. Numbers' /\ Places' /\ Flags' /\ Copying'
  BY <1>0, <1>1, <1>3, Zenon DEF Numbers, Places, Flags, Copying
<1>9. Calm'
  <2>1. calm[c] => buffer_[n] = frame
    <3>1. calm[c] => copied = SampleCount
      BY <1>3, Zenon DEF Calm
    <3> QED BY <1>3, <1>4, <3>1, Zenon DEF Copying
  <2>2. calm[c] => AllOf(reply'[c], frame)
    <3>1. calm[c] => AllOf(reply[c], frame)
      BY <1>3, Zenon DEF Calm
    <3> QED BY <1>5, <1>6, <2>1, <3>1, Zenon DEF AllOf
  <2>3. \A d \in Clients : calm[d] => AllOf(reply'[d], frame)
    BY <1>3, <1>5, <2>2, Zenon DEF Calm
  <2>4. \A d \in Clients : at[d] # "waveform" => reply'[d] = <<>>
    BY <1>1, <1>3, <1>5, Zenon DEF Calm
  <2> QED BY <1>0, <1>1, <1>3, <2>3, <2>4, Zenon DEF Calm
<1>10. Told => Told'
  BY <1>1, Zenon DEF Told
<1> QED BY <1>0, <1>7, <1>8, <1>9, <1>10, Zenon DEF IInv, Types

LEMMA WaveformEndInv ==
  ASSUME IInv, NEW c \in Clients, WaveformEnd(c)
  PROVE  IInv'
<1>1. /\ frame' = frame /\ copied' = copied /\ buffer_' = buffer_ /\ notified' = notified
      /\ adc_task' = adc_task /\ reported' = reported
      /\ block' = block /\ taken' = taken /\ status' = status /\ calm' = calm
      /\ at[c] = "waveform" /\ at' = [at EXCEPT ![c] = "idle"]
      /\ reply' = [reply EXCEPT ![c] = <<>>]
  BY Zenon DEF WaveformEnd, sampling, history
<1>0. converting' = converting /\ stopped' = stopped /\ overlapped' = overlapped
  BY Zenon DEF WaveformEnd, sampling, history
<1>2. Numbers /\ Replies /\ Places /\ Flags /\ Copying /\ Calm
  BY Zenon DEF IInv, Types
<1>3. /\ at' \in [Clients -> {"idle", "trigger", "waveform"}]
      /\ \A d \in Clients : d # c => at'[d] = at[d]
      /\ \A d \in Clients : at'[d] = "trigger" => at[d] = "trigger"
  BY <1>1, <1>2 DEF Places
<1>4. /\ reply'[c] = <<>>
      /\ \A d \in Clients : d # c => reply'[d] = reply[d]
      /\ <<>> \in Seq(0 .. MaxFrames) /\ Len(<<>>) <= SampleCount /\ DOMAIN <<>> = {}
  <2>1. <<>> \in Seq(0 .. MaxFrames) /\ Len(<<>>) <= SampleCount /\ DOMAIN <<>> = {}
    BY Bounds
  <2> QED BY <1>1, <1>2, <2>1, Zenon DEF Replies
<1>5. Replies'
  BY <1>1, <1>2, <1>4, Zenon DEF Replies
<1>6. Numbers' /\ Places' /\ Flags' /\ Copying'
  BY <1>0, <1>1, <1>2, <1>3, Zenon DEF Numbers, Places, Flags, Copying
<1>7. Calm'
  <2>1. \A d \in Clients : at'[d] # "waveform" => reply'[d] = <<>>
    BY <1>2, <1>3, <1>4, Zenon DEF Calm
  <2>2. AllOf(reply'[c], frame)
    BY <1>4 DEF AllOf
  <2>3. \A d \in Clients : calm[d] => AllOf(reply'[d], frame)
    BY <1>2, <1>4, <2>2, Zenon DEF Calm
  <2> QED BY <1>0, <1>1, <1>2, <2>1, <2>3, Zenon DEF Calm
<1>8. Told => Told'
  BY <1>1, <1>3, Zenon DEF Told
<1> QED BY <1>0, <1>5, <1>6, <1>7, <1>8, Zenon DEF IInv, Types

LEMMA RigolNext == IInv /\ [Next]_vars => IInv'
<1> SUFFICES ASSUME IInv, [Next]_vars PROVE IInv'
  OBVIOUS
<1>1. CASE UNCHANGED vars
  <2>1. /\ frame' = frame /\ copied' = copied /\ buffer_' = buffer_ /\ notified' = notified
        /\ adc_task' = adc_task /\ reported' = reported
        /\ block' = block /\ at' = at /\ taken' = taken /\ reply' = reply
        /\ status' = status /\ calm' = calm
    BY <1>1, Zenon DEF vars, sampling, scpi, history
  <2>2. converting' = converting /\ stopped' = stopped /\ overlapped' = overlapped
    BY <1>1, Zenon DEF vars, sampling, history
  <2>3. Types'
    BY <2>1, <2>2, Zenon DEF IInv, Types, Numbers, Replies, Places, Flags
  <2>4. Copying' /\ Calm' /\ (Told => Told')
    BY <2>1, <2>2, Zenon DEF IInv, Copying, Calm, Told
  <2> QED BY <2>2, <2>3, <2>4, Zenon DEF IInv
<1>2. CASE Next
  BY <1>2, ConvertInv, CallbackInv, AdcTaskInv, SwitchInv, TriggerStatusInv,
     TriggerAnsweredInv, WaveformInv, WaveformSampleInv, WaveformEndInv, Zenon
     DEF Next, Parse
<1> QED BY <1>1, <1>2, Zenon

LEMMA RigolAlways == Spec => []IInv
  BY RigolInit, RigolNext, PTL DEF Spec

\* Every reachable state is well typed: the interrupt stays within the buffer,
\* a waveform within its announced length, and the counter within its width.
THEOREM TypeCorrect == Spec => []TypeOK
<1>1. IInv => TypeOK
  BY TypesAreRight, Zenon DEF IInv
<1> QED BY <1>1, RigolAlways, PTL

\* A waveform asked for while the converter is stopped and its interrupt at
\* rest is the last frame, whole, however many clients there are, until one of
\* them starts the converter again.
THEOREM StoppedWaveformIsWhole == Spec => []StoppedWaveformIsLastFrame
<1>1. IInv => StoppedWaveformIsLastFrame
  BY Zenon DEF IInv, Calm, AllOf, StoppedWaveformIsLastFrame
<1> QED BY <1>1, RigolAlways, PTL

\* The client that asks next after STOP was told is told AUTO, for every width
\* of the counter, as long as no two queries overlap.
THEOREM StopOnce == Spec => StopIsToldOnce
<1> DEFINE Once ==
      ~overlapped /\ status = "STOP"
        => \A c \in Clients : at[c] = "trigger" /\ at'[c] = "idle" => status' = "AUTO"
<1>1. IInv /\ [Next]_vars => [Once]_vars
  <2> SUFFICES ASSUME IInv, Next, ~overlapped, status = "STOP",
                      NEW c \in Clients, at[c] = "trigger", at'[c] = "idle"
               PROVE  status' = "AUTO"
    BY Zenon
  <2>1. taken[c] = 1 /\ 1 # 0
    <3>1. taken[c] = block /\ block = 1
      BY Zenon DEF IInv, Told
    <3> QED BY <3>1
  <2>2. "trigger" # "idle" /\ "trigger" # "waveform" /\ "idle" # "waveform"
    OBVIOUS
  <2>3. at \in [Clients -> {"idle", "trigger", "waveform"}]
    BY Zenon DEF IInv, Types, Places
  <2>4. at' # at
    BY <2>2, Zenon
  <2>5. PICK d \in Clients : TriggerStatus(d) \/ TriggerAnswered(d) \/ Waveform(d) \/ WaveformEnd(d)
    BY <2>4, Zenon DEF Next, Parse, Convert, Callback, TakeNotification, Report, Reported,
       OtaStarted, Run, Stop, WaveformSample, scpi
  <2>6. d = c
    BY <2>2, <2>3, <2>5, Zenon DEF TriggerStatus, TriggerAnswered, Waveform, WaveformEnd
  <2>7. TriggerAnswered(c)
    BY <2>2, <2>5, <2>6, Zenon DEF TriggerStatus, Waveform, WaveformEnd
  <2> QED BY <2>1, <2>7, Zenon DEF TriggerAnswered
<1>2. Spec => [][Once]_vars
  BY <1>1, RigolAlways, PTL DEF Spec
<1> QED BY <1>2, Zenon DEF StopIsToldOnce
==============================================================================
