-------------------------------- MODULE Clamp2 --------------------------------
(***************************************************************************)
(* clamp2: ADCContinuousSensor reads a frame of samples in loop(), adds its *)
(* powers to sumPower and counts it in the byte cycles; update() publishes  *)
(* the mean, unless the sampling is stopped.  Both run on the main loop, as *)
(* do start() and stop(), which are called by automations, by setup(), and  *)
(* when an over-the-air update starts.                                      *)
(***************************************************************************)
EXTENDS Naturals

CONSTANTS
  Wrap,            \* values of the uint8_t cycles: 256
  FramesPerUpdate  \* bound: frames read between two updates

ASSUME WrapAssumption      == Wrap \in Nat /\ Wrap > 1
ASSUME FramesAssumption    == FramesPerUpdate \in Nat

VARIABLES
  pc,         \* "setup", or "loop" once set up
  driver,     \* the converter: "stopped" or "running"
  started_,
  pool,       \* frames converted and not read: 0, 1 or 2
  cycles,
  summed,     \* frames in sumPower
  published   \* what update() published last: frames and divisor, or Nothing

vars == <<pc, driver, started_, pool, cycles, summed, published>>

Nothing == [summed |-> 0, cycles |-> 1]   \* return {}

TypeOK ==
  /\ pc \in {"setup", "loop"}
  /\ driver \in {"stopped", "running"}
  /\ started_ \in BOOLEAN
  /\ pool \in 0 .. 2
  /\ cycles \in 0 .. Wrap - 1
  /\ summed \in 0 .. FramesPerUpdate
  /\ published \in [summed : 0 .. FramesPerUpdate, cycles : 0 .. Wrap - 1]

Init ==
  /\ pc = "setup"
  /\ driver = "stopped"
  /\ started_ = FALSE
  /\ pool = 0
  /\ cycles = 0
  /\ summed = 0
  /\ published = Nothing
-----------------------------------------------------------------------------
\* (mutant of Start: an error is a start)
StartAnyway ==
  /\ driver' \in {driver, "running"}
  /\ started_' = TRUE

\* start: the driver refuses to start twice, and may fail.
Start ==
  \/ driver = "stopped" /\ driver' = "running" /\ started_' = TRUE
  \/ UNCHANGED <<driver, started_>>

\* stop: the driver refuses to stop twice, and may fail.
Stop ==
  \/ driver = "running" /\ driver' = "stopped" /\ started_' = FALSE
  \/ UNCHANGED <<driver, started_>>

\* Without autostart_ nothing is started, as when start() fails.
Setup ==
  /\ pc = "setup"
  /\ pc' = "loop"
  /\ Start
  /\ UNCHANGED <<pool, cycles, summed, published>>

\* (mutant of Convert: the pool takes one frame more)
ConvertOverfull ==
  /\ driver = "running"
  /\ pool' = IF pool <= 2 THEN pool + 1 ELSE 1
  /\ UNCHANGED <<pc, driver, started_, cycles, summed, published>>

\* A frame is converted; a full pool is flushed first.
Convert ==
  /\ driver = "running"
  /\ pool' = IF pool < 2 THEN pool + 1 ELSE 1
  /\ UNCHANGED <<pc, driver, started_, cycles, summed, published>>

\* loop.  Without a frame, or stopped, no step.
Loop ==
  /\ pc = "loop" /\ started_ /\ pool > 0 /\ summed < FramesPerUpdate
  /\ pool' = pool - 1
  /\ summed' = summed + 1
  /\ cycles' = (cycles + 1) % Wrap
  /\ UNCHANGED <<pc, driver, started_, published>>

\* (mutant of Sample: cycles is not reset)
SampleKeepsCycles ==
  /\ published' = [summed |-> summed, cycles |-> cycles]
  /\ summed' = 0
  /\ UNCHANGED cycles

Sample ==
  /\ published' = [summed |-> summed, cycles |-> cycles]
  /\ summed' = 0
  /\ cycles' = 0

\* update
Update ==
  /\ pc = "loop"
  /\ \/ started_ /\ Sample
     \/ ~started_ /\ published' = Nothing /\ UNCHANGED <<cycles, summed>>
  /\ UNCHANGED <<pc, driver, started_, pool>>

\* An automation, or on_ota_global_state.
Command ==
  /\ pc = "loop"
  /\ Start \/ Stop
  /\ UNCHANGED <<pc, pool, cycles, summed, published>>

Next == Setup \/ Convert \/ Loop \/ Update \/ Command

Spec == Init /\ [][Next]_vars
-----------------------------------------------------------------------------
(* Properties *)

\* The divisor of what update() publishes is the number of frames summed, as
\* long as fewer than 256 of them came between two updates: stopping and
\* starting in between lose or count none of them twice.
MeanOfFrames ==
  published.summed < Wrap /\ published # Nothing => published.cycles = published.summed

\* While the component believes it is stopped, the converter is stopped, and
\* the other way round, whatever errors the driver returns.
StartedInSync == started_ <=> driver = "running"
==============================================================================
