# A TLA+ model of esprigol

esprigol is a set of external components for [ESPHome](https://esphome.io): a
driver of Grow fingerprint readers (`fingerprint_grow`), a TCP server
(`tcp_server`) with an emulated oscilloscope behind it (`rigol` over
`adc_continous`), and two power meters with current clamps (`clamp`, `clamp2`).
This directory holds TLA+ models of them, translated from the sources under
`src/components`, the TLC configurations that check the models on small
instances, and proofs for TLAPS, in eight modules, about all of them but the
abstract ones and the configuration of the reader.

    tlc -config MCFingerprintGrow.cfg MCFingerprintGrow.tla
    tlapm FingerprintGrow_proofs.tla

## 1. Inventory

### fingerprint_grow: the component (`fingerprint_grow.cpp`, `.h`)

*State.* The image counter `enrollment_image_` (0: not enrolling),
`waiting_removal_`, `is_sensor_awake_`, the power pin, what the enrolling
sensor was told; in the reader, its feature buffers.
*Operations.* `setup()` (password, parameters), `update()` every half second
(touch, scan, match or enrol, wait for removal, store), and the actions of
automations: enrol, cancel, delete, delete all, LED.
*Interactions.* `update()` is one long call on the main loop. It blocks in
every exchange with the reader, while the finger moves; and it calls user
callbacks in its middle, whose automations call the component's own actions
before `update()` goes on with what it knew before.
*Hard.* Re-entry through callbacks; the finger between two exchanges; late
answers; buffers of the reader shared by enrolment, match and polling.
*Correct if* the counter and the enrolling sensor agree; a model is made of the
images of one enrolment; one touch is one image; what is collected is stored or
given up; the user sees a session that starts, collects, and ends.

### fingerprint_grow: the protocol (`transfer_`)

*State.* Bytes in the UART, the position in the packet, the caller's buffer.
*Operations.* Drain, send, parse byte by byte or wait a millisecond, give up.
*Hard.* An answer that arrives after `transfer_` gave up is the next command's
answer; lost bytes; a parser that starts in the middle of a frame. There is no
sequence number, and the checksum is not verified.
*Correct if* it returns, what it returns has the announced length and is the
body of one answer, an answer it has read is recognised, and answers pair with
commands as long as none was late.

### fingerprint_grow: configuration (`__init__.py`, `sensor.py`, `binary_sensor.py`) and the password

*State.* The options in YAML and the members that the generated setters leave;
in the reader, its password, which outlives every reset.
*Operations.* `validate`, `to_code`; at each start `setup()` verifies the
password of the configuration and, if it asks for a new one, sets it; the log
then tells the user to make it the password of the configuration.
*Hard.* A reset or a lost answer between the reader taking the password and the
log saying so; a late answer taken for that of another command; 0xFFFFFFFF,
which is both a password and "none".
*Correct if* the flashed configuration always names the reader's password, and a
start that was to set a password and succeeds has set it.

### tcp_server

*State.* `shared_socket` (hands an accepted socket to its task), `ss_` (the line
under way), one FreeRTOS task per connection.
*Operations.* `loop()` accepts and creates a task; `tcp_task` reads bytes and
parses lines; at its end it closes the socket and clears `shared_socket`.
*Hard.* Nothing is locked: the handover is a race between `loop()`, a new task
and a dying one, and all tasks collect their lines in one stream.
*Correct if* each socket has one reader and is closed in the end, no null
pointer is followed, and lines are whole.

`tcp_task` ends in `vTaskDelete`, which does not return: the `unique_ptr` on the
socket is never destroyed. Socket objects leak; they are not freed twice.

### rigol and adc_continous

*State.* `buffer_` (one frame), the notification value of the sampling task, the
static `block` of `parse`.
*Operations.* Interrupt: copy a frame, notify. Sampling task: call the ADC
callbacks. Client tasks, through `tcp_server`: `:RUN`, `:STOP`, `:TRIG:STAT?`,
`:WAV:DATA?`. An over-the-air update stops the converter.
*Hard.* The buffer is written by the interrupt while client tasks send it;
`block` is incremented by several tasks; notifications coalesce.
*Correct if* a waveform is one frame when it can be, no frame goes unnoticed,
and a client that polls the trigger gets to know that it is running.

### clamp, clamp2

*State.* clamp: two `State` buffers behind `set_` and `get_`. clamp2: `sumPower`,
the byte `cycles`, `started_`.
*Operations.* `loop()` reads a frame and adds its powers, `update()` publishes a
mean; start and stop. clamp walks each frame with six pointers (`calcIV`).
*Hard.* Swapping and clearing; the counter's width; errors of the driver;
pointers that run to the end of a frame at different times.
*Correct if* the published value is the mean of the frames of one interval, each
once; the flag and the driver agree; the walk stays in the frame and pairs the
samples of one scan.

### adc_continous, clamp, clamp2: from YAML to frames (`__init__.py`, `sensor.py`)

*State.* The configuration on its way through the schema, the validations, the
generated calls and the compiler; in the firmware, the tables `channel[]` and
`channels[]` and the buffer that `loop()` of clamp2 reads into.
*Operations.* `validate_adc_pin`, `validate_config`, `final_validate_config`,
`to_code`, `set_channel`, `setup()`, and the read at the start of `loop()`.
*Hard.* Two converters, of which the firmware samples with the first only; calls
numbered over two lists of pins; a buffer for the configured number of pins and a
read for four; phases that index into an array.
*Correct if* whatever gets as far as running samples the pins it names and
attributes the results to them, and reads and indexes within its arrays.

### Not modelled

- `calibration.cpp` (two copies): calls of the driver whose result nothing uses.
- `automation.h`: forwards a value to automations.
- `rigol/__init__.py`, `tcp_server/__init__.py`: they resolve identifiers and pass
  them to the constructors, without a state or a choice.
- `proftime.py`: a script that sends one command and waits for the answer. It ends
  the command with no newline, and `TcpServer` parses lines: there is no answer.
- `espc3.yaml`: an example configuration.

These are what is left of the repository: nothing in it has a state of its own.

## 2. Modules

| module | models | extends or instantiates |
|---|---|---|
| `GrowReply` | confirmation codes; the outcomes of one exchange | |
| `EnrollmentSession` | abstract: what a user sees of an enrolment | |
| `FingerprintGrow` | the component | `GrowReply`; implements `EnrollmentSession` |
| `GrowConfig` | schema, `validate`, `to_code` of the reader | |
| `GrowPassword` | the password over starts, resets and reflashes | `GrowReply`, `GrowConfig` |
| `GrowLink` | abstract: what `transfer_` promises | `GrowReply` |
| `GrowTransfer` | `transfer_`, byte by byte | implements `GrowLink` |
| `TcpServer` | accept loop, connection tasks, clients | |
| `Rigol` | `Rigol::parse`, the interrupt, the sampling task | |
| `ClampPower` | clamp: `loop`, `update`, the two buffers | |
| `ClampWindow` | clamp: the pointers of `calcIV` | |
| `Clamp2` | clamp2: `loop`, `update`, `start`, `stop` | |
| `AdcPins` | the pin tables and `validate_adc_pin` | |
| `AdcConfig` | YAML to a compiled firmware, for the three samplers | `AdcPins` |
| `AdcFirmware` | `setup()`, and the reads and indexes of `loop()` of clamp2 | `AdcConfig` |
| `*_proofs` | lemmas and theorems (`Clamp_proofs`: `ClampPower` and `ClampWindow`) | their component |
| `MC*` | instances for TLC | their component |

How the layers meet:

- `GrowTransfer` implements `GrowLink`, and every exchange of it is one of
  `Outcomes` in `GrowReply` (`ImplementsLink` and `ExchangeIsOutcome`, checked by the
  run `transfer` and proved). `FingerprintGrow` and `GrowPassword` use `Outcomes` for each of
  their commands, so that they are checked against a line on which answers may be
  late, without its bytes.
- The configurations of `FingerprintGrow` in the run `grow` are those that
  `Validate` of `GrowConfig` accepts, as `ToCode` turns them into members; the two
  passwords of `GrowPassword` go through the same `Member`.
- `AdcFirmware` runs what `AdcConfig` builds: its tables are filled by the calls
  generated from the user's YAML, not by assumption.

Correspondence. A variable has the name of the member it models, without the
trailing underscore where TLA+ reads better. In `FingerprintGrow`, `pc` is the
place in `setup()` or `update()`; it is cut at every exchange (the finger moves)
and at every callback (an automation runs), and `plan` holds the actions the
running automation has still to play: while it is not empty, `update()` waits.
In `GrowPassword` a step is one exchange of `setup()`, and a reset may come
between any two of them (a reset within one is an exchange whose answer is lost).
In `TcpServer` and `Rigol` a step is an access to a shared member: `loop()` of the
server is cut between `accept`, `setsockopt`, the creation of the task and the
log, each of which reads `shared_socket` again. In
`ClampPower` a frame is its number and a sum the set of frames summed, so that
"counted twice" and "in the wrong interval" can be told apart. Codes that every
caller treats alike are one value (`BAD_IMAGE`, `FAILURE`).

## 3. Runs

States are distinct states found by TLC.

| run | question | states |
|---|---|---|
| `grow` | every configuration of pins and passwords that is accepted, three buffers, one late answer, automations that enrol, cancel, delete, drive the LED from every callback but `on_enrollment_scan`: safety, the abstract session, and liveness | 201,574 |
| `grow_power` | *violated*: commands are sent to a powered reader | |
| `grow_phantom` | *violated*: counter and sensor agree, with an automation that cancels from `on_enrollment_scan` | |
| `transfer` | three commands, answers at any time, one byte lost anywhere: implements the link, exchanges are the component's outcomes, and `transfer_` returns | 1,044,388 |
| `password` | every pair of passwords, resets, reflashes, lost, refused and late answers | 8,806 |
| `tcp` | two connections, three lines, all interleavings; a connection hung up is closed | 171,262 |
| `tcp_network` | *violated*: open connections are closed when the network goes | |
| `rigol` | two clients, interrupt, sampling task, over-the-air update; notifications are not lost | 467,803 |
| `clamp_power` | five frames, a pool of two, starts and stops | 1,136 |
| `clamp_window` | frames of one to four scans that begin with any channel | 11,008 |
| `clamp2` | the code's byte, 260 frames between two updates | 410,293 |
| `adc_config` | configurations of the three samplers, from YAML to frames | 26,540 |

### What they show

*Holds.*
- Whatever automations do outside `on_enrollment_scan`, the image counter and the
  enrolling sensor agree, also when an answer is late; a model is made of the
  images of one enrolment, and one touch is one image. The component implements
  `EnrollmentSession`, notices a removed finger and resolves a full set of
  images, all of it with a line that may be late.
- `OneImagePerTouch` has a limit that the run does not reach: without a sensing
  pin, a NO_FINGER that comes three commands late is taken for the removal of a
  finger that stays. With up to two late answers at a time, or with a pin, it
  holds; the theorem `TouchIsUsedOnce` has the two conditions that were proved.
- Without a sensing pin the polling for removal refills feature buffer 1 during
  an enrolment. `ModelOfOneEnrollment` says so: what was captured first may be
  replaced by an image polled later.
- `transfer_` returns, and what it returns is as long as announced, even with a
  byte lost. Commands and answers pair up as long as no transfer has timed out;
  after that, an answer is at most returned once, and in order. An answer that
  was read to its end is recognised, unless bytes were lost or were there before.
- When the low byte of a length is lost, the first byte of the body is read as the
  length. If that is the length of a part of what follows (codes are small numbers),
  the answer is returned cut short, and its rest is on the line when the next command
  is sent. "At most once, and in order" then depends on what the rest says: it holds
  if no header is left behind the first byte of a packet (`NoHeaderLeft`). TLC finds
  a body for which two lost bytes leave one, and the same answer is returned twice.
- The configuration names the reader's password through every reset, reflash and
  lost answer, as long as no command was sent while an earlier answer was still to
  come. One OK that is late and taken for that of SET_PASSWORD tells the user to
  forget the password that the reader still has: `paired` is needed.
- What a configuration that runs samples is what it names: `set_channel2` is
  declared nowhere, and pins of the second converter that pass validation are
  stopped by the compiler (for clamp2 only by the type of the argument).
  `final_validate_config` alone would let some of them through.
- `loop()` of clamp2 reads frames of four channels into a buffer for the configured
  pins: with fewer pins it stays within it only while no two frames wait
  (`ReadFitsBuffer`). With one voltage and three current pins and no negative
  phase it stays within its arrays; other numbers of pins and negative phases are
  outside of `FrameInBounds`.
- In `tcp_server` each hazard has a name: a second accept before the first task
  has read `shared_socket` (`raced`), a task that ends in between (`crossed`),
  two tasks at a time (`overlapped`), a client that leaves within a line
  (`brokeoff`). The properties say exactly which of them is needed before a
  socket has two readers or none, a null pointer is followed (by `setsockopt`, the
  log, or the new task), or lines mix; TLC shows that without it they do not.
- A waveform asked for after `:STOP`, once the interrupt has ended, is the last
  frame, whole, until somebody starts the converter; while it runs, waveforms
  may be torn. Two queries of the trigger that do not overlap are not both told
  `STOP`, also when the counter wraps around.
- clamp publishes the mean of exactly the frames between the last two updates.
  The walk through a frame reads at most one result behind it and uses none, and
  it loses at most one scan, so the powers of a frame of two scans or more are
  means of at least one sample.
- clamp2's mean is right below 256 frames between two updates. At 256 the
  divisor wraps around to 0: the property's guard is where it stops being true.

*Violated: the code does not do what its comments say* (`findings`).
- `sensor_wakeup_` returns at once, so a reader with a power pin is never
  switched on; the comment describes a return only without a pin or when awake.
- An automation that cancels in `on_enrollment_scan` leaves the counter at 1 after
  the increment that follows: the component scans for an enrolment nobody
  started, with the sensor off; the comment says 0 is "Not in enrolment process".
- `loop()` is to "force disconnect immediately" when the network is gone; it
  only returns, and connections stay open.

### Bounds, and why they suffice

- `EnrollmentBuffers` is 3 in `grow` (the code's is 5): the code distinguishes
  first, middle and last image. In the runs with one violated property it is 1 or
  2. `MaxUnread` (answers on the line at a time) is 1 in `grow`: an answer taken
  for another command's, and another that stays behind; 2 in `password`. In the
  violated runs it is 0, so that what they show does not need a late answer.
  Automations play one action per callback, or cancel and enrol.
- `UINT32_MAX` is 3 in `password`: the default password 0, the value that means
  none, and two more to change between.
- `Polls` is 14 instead of 1000: the answer of the instance has 13 bytes, so that
  a command may be answered in full, in part, or late. The address and the packet
  are the protocol's own. The body ends in a byte that looks like the first of a start
  code, as a loss may leave it in front of a frame; and its code is small enough
  to be the length of a part of it, so that an answer may be cut short. Three
  commands let an answer be late for two of them.
- `adc_config` has three chips, pins of each converter, of both and of none, two of
  them with the same channel of their converters, no to five pins, with and
  without Wi-Fi, options left out, in and out of range.
- Two connections suffice for every race on `shared_socket` and `ss_`, which are
  between a task and another, or a task and `loop()`. Each client connects once.
- `SampleCount` 2 is enough to tear a waveform; `Wrap` 4 lets `block` wrap around
  several times. `MaxFrames` 3 allows a frame in the buffer, one being copied and
  one reported. In `clamp_power` five frames spread over four and more intervals
  and overflow a pool of two, the code's `max_store_buf_size` in frames.
- `clamp_window` has one to four scans with voltages of two levels: a crossing is
  a change between them. Two crossings (of 20) end a walk before the frame ends.
- `clamp2` uses the code's own width, 256, and passes it.

`CHECK_DEADLOCK FALSE` is set where the system stops: in `transfer`, whose commands
are used up, and in `adc_config`, where a configuration is rejected or does not
compile.

### Fairness, and why the code justifies it

- `FingerprintGrow`: `WF(Setup)`, `WF(Play)`: a call under way goes on, because
  exchanges end (`TransferReturns`) and automations are finite. `SF(Update)`: the
  scheduler visits `update()` in every iteration of the main loop, however often
  buttons are pressed in between, so that an `update()` enabled again and again is
  taken. Nothing is assumed of the finger, the reader or the user.
- `GrowTransfer`: `WF(Parse)`; the loop waits for nobody. Nothing of the wire.
- `TcpServer`: `WF` of `setup()`, of `loop()` and of each task, which FreeRTOS
  schedules. Nothing of clients and the network.
- `Rigol`: `WF(Callback)`, an interrupt runs to its end; `WF` of the sampling task.
- `ClampPower`: `WF(Update)`, the main loop polls the component. Nothing of the
  converter.

## 4. Proofs

For every value of the constants (`tlapm <module>`):

| theorem | says |
|---|---|
| `FingerprintGrow_proofs!TypeCorrect` | `Spec => []TypeOK` |
| `FingerprintGrow_proofs!SensorInSync` | under `PoliteScans`, `Spec => []EnrollingInSync` |
| `FingerprintGrow_proofs!ModelIsOfOneEnrollment` | under `PoliteScans`, `Spec => []ModelOfOneEnrollment` |
| `FingerprintGrow_proofs!ImplementsSession` | under `PoliteScans`, `Spec => FollowsSession`: the refinement of `EnrollmentSession` |
| `FingerprintGrow_proofs!TouchIsUsedOnce` | under `Prompt` or `Wired`, `Spec => OneImagePerTouch` |
| `GrowTransfer_proofs!TypeCorrect` | `Spec => []TypeOK` |
| `GrowTransfer_proofs!LengthIsReturned` | `Spec => []ReturnedLength` |
| `GrowTransfer_proofs!AnswersAreWhole` | under `HeaderOnlyInFront`, `Spec => []WholeAnswer` |
| `GrowTransfer_proofs!AnswerIsRecognised` | `Spec => AnswerRecognised` |
| `GrowTransfer_proofs!ImplementsTheLink` | under `NoHeaderLeft`, `Spec => ImplementsLink`: the refinement of `GrowLink` |
| `GrowTransfer_proofs!ExchangesAreOutcomes` | under `HeaderOnlyInFront`, `Spec => ExchangeIsOutcome` |
| `GrowPassword_proofs!TypeCorrect` | `Spec => []TypeOK` |
| `GrowPassword_proofs!PasswordIsNamed` | `Spec => []ConfigNamesPassword` |
| `GrowPassword_proofs!RunsWithNewPassword` | `Spec => []NewPasswordIsSet` |
| `TcpServer_proofs!TypeCorrect` | `Spec => []TypeOK` |
| `TcpServer_proofs!LinesStayWhole` | `Spec => []LinesAreWhole` |
| `TcpServer_proofs!NullNeedsCrossing` | `Spec => []NoNullSocket` |
| `TcpServer_proofs!SocketsHaveOneOwner` | `Spec => []OneOwner` |
| `Rigol_proofs!TypeCorrect` | `Spec => []TypeOK` |
| `Rigol_proofs!StoppedWaveformIsWhole` | `Spec => []StoppedWaveformIsLastFrame` |
| `Rigol_proofs!StopOnce` | `Spec => StopIsToldOnce` |
| `Clamp_proofs!TypeCorrect` | `Spec => []TypeOK` |
| `Clamp_proofs!MeanOfLastInterval` | `Spec => []PublishesLastInterval` |
| `Clamp_proofs!FrameIsUsedOnce` | `Spec => []FramesOnce` |
| `Clamp_proofs!WalkStaysInFrame` | `CalcSpec => []StaysInFrame` |
| `Clamp_proofs!SamplesAreInStep` | `CalcSpec => []SamplesInStep` |
| `Clamp_proofs!WholeFrameIsUsed` | `CalcSpec => []WindowUsesFrame` |
| `Clamp2_proofs!TypeCorrect` | `Spec => []TypeOK` |
| `Clamp2_proofs!MeanIsOfFrames` | `Spec => []MeanOfFrames` |
| `Clamp2_proofs!DriverInSync` | `Spec => []StartedInSync` |
| `AdcFirmware_proofs!TypeCorrect` | `Spec => []TypeOK` |
| `AdcFirmware_proofs!ReadsFitTheBuffer` | `Spec => []ReadFitsBuffer` |
| `AdcFirmware_proofs!SamplesTheirPins` | `Spec => []ResultsAreOfPins` |
| `AdcFirmware_proofs!StaysInBounds` | `Spec => []FrameInBounds` |

*Assumptions.* Those on the constants, named in the modules. `PoliteScans`: no
automation enrols or cancels from `on_enrollment_scan`. It is needed: without it
the run `grow_phantom` violates `EnrollingInSync`. `Prompt`: no answer is late;
`Wired`: every configuration has a sensing pin. One of the two, or a bound on late
answers, is needed (section 3). `HeaderOnlyInFront` and `NoHeaderLeft` speak of what
the reader answers: the protocol escapes nothing and nobody verifies the checksum,
so that the code does not exclude a body that holds a header. The instance asserts
both for its body, and `NoHeaderLeft` is needed (section 3). `MemoriesAssumption`:
the converter samples the four entries of its pattern in turn, which is what
`calcIV` relies on. `LinesAssumption`: a line has no newline in it, which is what a
line is.

*The inductive invariants.* `TypeOK` alone is not inductive for
`FingerprintGrow`: the counter is incremented after a scan, so that its bound
needs that images are scanned only while one is missing (`ScansMissingImage`),
and that a scan has a caller (`ScanHasCaller`); together `Typing`. The safety
theorems need `SessionInv` on top: no automation runs while `update()` is in an
exchange, and a harmless one at most when the increment is next (`PlanInv`); the
counter fits what the scan under way is for (`ImageInv`); every buffer below the
counter was filled by this enrolment (`TemplateInv`). For `ClampPower`, `IInv`
says which buffer stands for which interval (`Balance`), that a frame in the
pool is newer than any that was read (`Fresh`, without which a frame could be
summed again), and that intervals are disjoint (`Apart`). For `Clamp2` the
counter must be right while stopped as well (`CountsSummed`).

The refinement needs no more than `Typing` and `SessionInv`: `finish_enrollment`
is a `Close` or, outside of an enrolment, a stutter, which needs
`EnrollingInSync`; that `Announce` comes with a full set and no more is the bound
of the counter. `TouchInv` says that after an image was used the reader was free
or the component waits for the removal, and that a scan that may use an image
began while it did not wait.

For `GrowPassword`, `Paired` says what each place of `setup()` knows of the
reader's password, in particular that after the log has told the user to reflash
the reader has the new one (`told`). For `TcpServer`, `Followed` says that
`shared_socket` is not null at any place that is about to follow it, unless it was
cleared there; `Handed` that it holds the socket of the one task that is to take
it, and that every task reads its own, unless a second accept came before the
first socket was taken.
For `Rigol`, `Copying` ties the buffer to the frame and the place of the
interrupt, `Calm` what was sent to what the buffer holds since the converter came
to rest, and `Told` the counter to the answer given last. For `AdcFirmware`,
`BuildInv` carries what validation and generation established to the firmware,
`FrameInv` what waits in the pool, `ChannelInv` the tables that `setup()` leaves,
and `WholeFrames` that what is read are whole scans of four; `TypeInv` adds to
`TypeOK` what each stage has still to come.

For `GrowTransfer` the types need `Counted`: the position is that of the buffer, and
the high byte of the length is read first. `WholeAnswer` needs `InStep`: what is left
on the line is the end of an answer and whole answers (`Stream`); the bytes found of
a header are the last ones read (`Searching`), so that a whole one is the front of a
packet; and from there on the position is the place in that packet (`InBody`).
`AnswerRecognised` needs that the rest of an expected answer is on the line
(`Foreseen`). With losses, `Stream` is gone and the refinement needs `LinkInv`:
bytes are in the order in which they were sent, none is of an answer older than the
one returned last (`LineInv`), and as long as bytes of that answer are to come, the
part of a header that was found consists of bytes of this answer only (`RestInv`),
whence `NoHeaderLeft`. The answers still to come are a set, `Pending`, of which
`Unread` is the sequence in ascending order: that there is one, and only one, is
proved by induction over its upper bound, and that removing its first, its last
ones or any of its numbers does the same to the sequence gives the steps of the
link. `Exchange` says that `Pending` is an upper part of what was unread when the
command was sent, or of that and the command itself.

For `ClampWindow`, `Walked` says how far each of the six pointers is, in terms of
the number of samples used and the channel the frame begins with.
For `TcpServer`, `Apart` says that at most one task is alive as long as no two
overlapped, and `Gathered` that what was parsed and what is in the stream are the
beginning of what the client sent (`Progress`), cut at its newlines (`LineEnds`).

Two proofs are inductions: over the bound of a set of numbers, and over the lines
that `FlattenSeq` puts in a row (`TextLayout`). Both go through `SetInduction`: a
set of numbers that has 0 and with each number the next has all of them, since the
least number missing cannot exist.

*Only model-checked.* Liveness, as fairness and ENABLED are beyond the prover:
`RemovalNoticed`, `ImagesAreResolved`, `TransferReturns`, `HungUpIsClosed` and the
liveness properties of `Rigol` and `ClampPower`. `CommandsArePowered` and
`DisconnectForced`, and `EnrollingInSync` without `PoliteScans`, which are violated.
`GrowConfig` has no state: it is evaluated in the runs `grow` and `password`. No
module with a theorem reaches a RECURSIVE operator.

## 5. What is left out of the models

- The mains frequency of clamp2 must be given: the default 50000 is validated
  like a given value and is outside of 50 to 60. The models have that; calibration
  factors, actions and chips without this driver are left out of `AdcConfig`.
- The reader's library of stored templates, the slots (the assignment of
  `enrollment_slot_` is commented out) and the sensors' values.
- The command's own bytes: nothing reads them back.
- In `TcpServer` an operation on the stream is atomic, and in `Rigol` commands
  with a constant answer change nothing and are absent.
- Floating point: filters, powers, and what zero divided by zero publishes.
- The `on_data` callbacks: they do not change the components.
- The drivers of UART, ADC and sockets are external: modelled by how the code uses
  them, and free to fail wherever the code tests for failure.

## 6. Plan

Order: the component with the most control first (fingerprint reader), then its
protocol, the server, the sampling components, and last what configures them. All
of section 2 is done. What would come next:

1. Model: a composition of `TcpServer` with `Rigol` (one client's half line in
   the stream of another, parsed as its command); the actions' parameters in the
   configuration of the reader.
2. Prove: `OneImagePerTouch` with a bound on late answers in place of `Prompt`; for
   the composition, that the lines of one client are parsed as its commands.
