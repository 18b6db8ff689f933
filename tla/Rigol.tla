-------------------------------- MODULE Rigol --------------------------------
(***************************************************************************)
(* The emulated oscilloscope: Rigol answers the SCPI commands that the      *)
(* tasks of TcpServer hand to it, and ADCContinuousSensor (adc_continous)   *)
(* samples a channel into one buffer.                                       *)
(*                                                                          *)
(* Nothing is locked.  The driver's interrupt (callback) copies each frame  *)
(* into buffer_, sample by sample, while a client's task may be sending     *)
(* buffer_, byte by byte; the sampling task is notified after each frame.   *)
(* A client sends its next command when it likes, on its own connection.    *)
(***************************************************************************)
EXTENDS Naturals, SequencesExt

CONSTANTS
  Clients,      \* connections, each with its task
  SampleCount,  \* sample_count_
  Wrap,         \* values of a char: 256
  MaxFrames     \* bound: frames converted

ASSUME SampleCountAssumption == SampleCount \in Nat \ {0}
ASSUME WrapAssumption        == Wrap \in Nat \ {0, 1}
ASSUME MaxFramesAssumption   == MaxFrames \in Nat

VARIABLES
  converting,  \* the driver has been started
  frame,       \* number of the last frame converted
  copied,      \* samples of it that the interrupt has copied
  buffer_,     \* per sample, the frame it is from; 0: as malloc left it
  notified,    \* notification value of the sampling task
  adc_task,    \* position of the sampling task: "take", "data" or "seen"
  reported,    \* the frame whose first sample the ADC callback saw last
  block,       \* static in parse
  at,          \* per client: position of its task in parse
  taken,       \* per client: block as :TRIG:STAT? has read it
  reply,       \* per client: the samples of the waveform sent so far
  status,      \* the last answer to :TRIG:STAT?
  stopped,     \* history: a client has stopped the converter, nobody started it
  calm,        \* history: per client, so it was when it asked for its waveform
  overlapped   \* history: two tasks have been in :TRIG:STAT? at a time

sampling == <<converting, frame, copied, buffer_, notified, adc_task, reported>>
scpi     == <<block, at, taken, reply, status>>
history  == <<stopped, calm, overlapped>>
vars     == <<sampling, scpi, history>>

TypeOK ==
  /\ converting \in BOOLEAN
  /\ frame \in 0 .. MaxFrames
  /\ copied \in 0 .. SampleCount
  /\ buffer_ \in [1 .. SampleCount -> 0 .. MaxFrames]
  /\ notified \in 0 .. MaxFrames
  /\ adc_task \in {"take", "data", "seen"}
  /\ reported \in 0 .. MaxFrames
  /\ block \in 0 .. Wrap - 1
  /\ at \in [Clients -> {"idle", "trigger", "waveform"}]
  /\ taken \in [Clients -> 0 .. Wrap - 1]
  /\ reply \in [Clients -> Seq(0 .. MaxFrames)]
  /\ \A c \in Clients : Len(reply[c]) <= SampleCount
  /\ status \in {"", "STOP", "AUTO"}
  /\ stopped \in BOOLEAN
  /\ calm \in [Clients -> BOOLEAN]
  /\ overlapped \in BOOLEAN

Init ==
  /\ converting = FALSE
  /\ frame = 0
  /\ copied = SampleCount
  /\ buffer_ = [i \in 1 .. SampleCount |-> 0]
  /\ notified = 0
  /\ adc_task = "take"
  /\ reported = 0
  /\ block = 0
  /\ at = [c \in Clients |-> "idle"]
  /\ taken = [c \in Clients |-> 0]
  /\ reply = [c \in Clients |-> <<>>]
  /\ status = ""
  /\ stopped = FALSE
  /\ calm = [c \in Clients |-> FALSE]
  /\ overlapped = FALSE
-----------------------------------------------------------------------------
(* ADCContinuousSensor *)

\* The driver has converted a frame (external), and its interrupt begins.
Convert ==
  /\ converting /\ copied = SampleCount /\ frame < MaxFrames
  /\ frame' = frame + 1
  /\ copied' = 0
  /\ UNCHANGED <<converting, buffer_, notified, adc_task, reported, scpi, history>>

\* (mutant of Callback: one sample more than the buffer has)
CallbackOneMore ==
  /\ copied <= SampleCount
  /\ copied' = copied + 1
  /\ buffer_' = [buffer_ EXCEPT ![copied'] = frame]
  /\ notified' = notified + (copied' \div SampleCount)
  /\ UNCHANGED <<converting, frame, adc_task, reported, scpi, history>>

\* callback: one sample after another, and vTaskNotifyGiveFromISR at the end.
Callback ==
  /\ copied < SampleCount
  /\ copied' = copied + 1
  /\ buffer_' = [buffer_ EXCEPT ![copied'] = frame]
  /\ notified' = notified + (copied' \div SampleCount)
  /\ UNCHANGED <<converting, frame, adc_task, reported, scpi, history>>

\* adc_task: ulTaskNotifyTake(pdTRUE, portMAX_DELAY)
TakeNotification ==
  /\ adc_task = "take" /\ notified > 0
  /\ notified' = 0
  /\ adc_task' = "data"
  /\ UNCHANGED <<converting, frame, copied, buffer_, reported, scpi, history>>

\* data: an ADC callback looks at the buffer as it is by now.
Report ==
  /\ adc_task = "data"
  /\ reported' = buffer_[1]
  /\ adc_task' = "seen"
  /\ UNCHANGED <<converting, frame, copied, buffer_, notified, scpi, history>>

\* (mutant of Reported: notifications that came meanwhile are dropped)
ReportedClears ==
  /\ adc_task = "seen"
  /\ adc_task' = "take"
  /\ notified' = 0
  /\ UNCHANGED <<converting, frame, copied, buffer_, reported, scpi, history>>

\* The callbacks return, and the loop goes on.
Reported ==
  /\ adc_task = "seen"
  /\ adc_task' = "take"
  /\ UNCHANGED <<converting, frame, copied, buffer_, notified, reported, scpi, history>>

\* start: an error (the converter is running) is only logged.
Start ==
  /\ converting' = TRUE
  /\ stopped' = FALSE
  /\ calm' = [c \in Clients |-> FALSE]
  /\ UNCHANGED overlapped
  /\ UNCHANGED <<frame, copied, buffer_, notified, adc_task, reported>>

\* (mutant of StopConverter: nothing is stopped)
StopNothing ==
  /\ stopped' = TRUE
  /\ UNCHANGED <<sampling, calm, overlapped>>

\* stop: an interrupt under way runs to its end.
StopConverter ==
  /\ converting' = FALSE
  /\ stopped' = TRUE
  /\ UNCHANGED <<frame, copied, buffer_, notified, adc_task, reported, calm,
                 overlapped>>

\* The OTA state callback that setup() registers.
OtaStarted == StopConverter /\ UNCHANGED scpi
-----------------------------------------------------------------------------
(* Rigol::parse, for the line of a client.  Commands with a constant answer *)
(* change nothing and are left out.                                         *)

Run(c) ==
  /\ at[c] = "idle"
  /\ Start
  /\ UNCHANGED scpi

Stop(c) ==
  /\ at[c] = "idle"
  /\ StopConverter
  /\ UNCHANGED scpi

\* return block++ ? "AUTO" : "STOP": block is read, then written.
TriggerStatus(c) ==
  /\ at[c] = "idle"
  /\ at' = [at EXCEPT ![c] = "trigger"]
  /\ taken' = [taken EXCEPT ![c] = block]
  /\ overlapped' = (overlapped \/ \E d \in Clients : at[d] = "trigger")
  /\ UNCHANGED <<sampling, block, reply, status, stopped, calm>>

\* (mutant of TriggerAnswered: block is not written)
TriggerOnlyRead(c) ==
  /\ at[c] = "trigger"
  /\ at' = [at EXCEPT ![c] = "idle"]
  /\ status' = IF taken[c] = 0 THEN "STOP" ELSE "AUTO"
  /\ UNCHANGED <<sampling, block, taken, reply, history>>

TriggerAnswered(c) ==
  /\ at[c] = "trigger"
  /\ at' = [at EXCEPT ![c] = "idle"]
  /\ block' = (taken[c] + 1) % Wrap
  /\ taken' = [taken EXCEPT ![c] = 0]
  /\ status' = IF taken[c] = 0 THEN "STOP" ELSE "AUTO"
  /\ UNCHANGED <<sampling, reply, history>>

\* :WAV:DATA?, its header
Waveform(c) ==
  /\ at[c] = "idle"
  /\ at' = [at EXCEPT ![c] = "waveform"]
  /\ calm' = [calm EXCEPT ![c] = stopped /\ copied = SampleCount]
  /\ UNCHANGED <<sampling, block, taken, reply, status, stopped, overlapped>>

\* The samples, as write() gets to them.
WaveformSample(c) ==
  /\ at[c] = "waveform" /\ Len(reply[c]) < SampleCount
  /\ reply' = [reply EXCEPT ![c] = Append(@, buffer_[Len(@) + 1])]
  /\ UNCHANGED <<sampling, block, at, taken, status, history>>

\* The newline, and the end of the command.
WaveformEnd(c) ==
  /\ at[c] = "waveform" /\ Len(reply[c]) = SampleCount
  /\ at' = [at EXCEPT ![c] = "idle"]
  /\ reply' = [reply EXCEPT ![c] = <<>>]
  /\ UNCHANGED <<sampling, block, taken, status, history>>

Parse(c) ==
  \/ Run(c) \/ Stop(c) \/ TriggerStatus(c) \/ TriggerAnswered(c)
  \/ Waveform(c) \/ WaveformSample(c) \/ WaveformEnd(c)

Next ==
  \/ Convert \/ Callback \/ TakeNotification \/ Report \/ Reported \/ OtaStarted
  \/ \E c \in Clients : Parse(c)

Spec == Init /\ [][Next]_vars

\* The interrupt runs to its end and the sampling task is scheduled.
FairSpec == Spec /\ WF_vars(Callback) /\ WF_vars(TakeNotification \/ Report \/ Reported)
-----------------------------------------------------------------------------
(* Properties *)

\* A waveform asked for after the converter was stopped, with no interrupt
\* under way and nobody starting it again before the end, is the last frame
\* converted, whole: interrupts, other clients' commands and the sampling
\* task do not tear it.  (While sampling runs, a waveform may be torn.)
StoppedWaveformIsLastFrame ==
  \A c \in Clients :
    calm[c] => \A i \in DOMAIN reply[c] : reply[c][i] = frame

\* Of two queries of the trigger that follow each other, from one client or
\* from two, at most one is told STOP, as long as no two of them overlap:
\* whoever waits for a running trigger sees it at the latest on its second
\* query, also when the counter wraps around.
StopIsToldOnce ==
  [][~overlapped /\ status = "STOP"
       => \A c \in Clients : at[c] = "trigger" /\ at'[c] = "idle" => status' = "AUTO"]_vars

\* Every frame that the converter delivers is seen by the ADC callbacks, or
\* a later one is: a notification that comes while the sampling task is busy
\* is not lost.
FramesAreReported ==
  \A n \in 1 .. MaxFrames : frame = n ~> reported >= n
==============================================================================
