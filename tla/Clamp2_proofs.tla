---------------------------- MODULE Clamp2_proofs ----------------------------
(***************************************************************************)
(* Proofs about Clamp2, for every width of the counter and every number of  *)
(* frames between two updates.                                              *)
(***************************************************************************)
EXTENDS Clamp2, Integers, TLAPS

\* The counter does not wrap around below its limit.
LEMMA SmallRemainder ==
  ASSUME NEW n \in Nat \ {0}, NEW x \in 0 .. n - 1
  PROVE  x % n = x
  OBVIOUS

\* Remainders are values of the counter.
LEMMA RemainderType ==
  ASSUME NEW n \in Nat \ {0}, NEW x \in Nat
  PROVE  x % n \in 0 .. n - 1
  OBVIOUS

\* cycles counts the frames summed until it wraps around, also while stopped.
CountsSummed == summed < Wrap => cycles = summed

IInv == TypeOK /\ CountsSummed /\ MeanOfFrames /\ StartedInSync

LEMMA InitInv == Init => IInv
<1> SUFFICES ASSUME Init PROVE IInv
  OBVIOUS
<1>1. TypeOK
  <2>1. 0 \in 0 .. FramesPerUpdate /\ 0 \in 0 .. Wrap - 1 /\ 1 \in 0 .. Wrap - 1
    BY WrapAssumption, FramesAssumption
  <2>2. started_ \in BOOLEAN
    BY Zenon DEF Init
  <2>3. Nothing \in [summed : 0 .. FramesPerUpdate, cycles : 0 .. Wrap - 1]
    BY <2>1 DEF Nothing
  <2> QED BY <2>1, <2>2, <2>3 DEF Init, TypeOK
<1>2. CountsSummed /\ MeanOfFrames
  BY DEF Init, CountsSummed, MeanOfFrames
<1>3. StartedInSync
  <2>1. started_ = FALSE /\ driver # "running"
    BY DEF Init
  <2> QED BY <2>1, Zenon DEF StartedInSync
<1> QED BY <1>1, <1>2, <1>3 DEF IInv

\* Starting and stopping keep the flag and the driver together.
LEMMA DriverSteps ==
  ASSUME StartedInSync, driver \in {"stopped", "running"}, started_ \in BOOLEAN,
         Start \/ Stop
  PROVE  StartedInSync' /\ driver' \in {"stopped", "running"} /\ started_' \in BOOLEAN
<1>1. CASE driver' = "running" /\ started_' = TRUE
  BY <1>1, Zenon DEF StartedInSync
<1>2. CASE driver' = "stopped" /\ started_' = FALSE
  BY <1>2, Zenon DEF StartedInSync
<1>3. CASE driver' = driver /\ started_' = started_
  BY <1>3, Zenon DEF StartedInSync
<1> QED BY <1>1, <1>2, <1>3, Zenon DEF Start, Stop

LEMMA NextInv == IInv /\ [Next]_vars => IInv'
<1> SUFFICES ASSUME IInv, [Next]_vars PROVE IInv'
  OBVIOUS
<1> USE WrapAssumption, FramesAssumption
    DEF IInv, TypeOK, CountsSummed, MeanOfFrames
<1>1. CASE Setup
  <2>1. StartedInSync' /\ driver' \in {"stopped", "running"} /\ started_' \in BOOLEAN
    BY <1>1, DriverSteps DEF Setup
  <2> QED BY <1>1, <2>1 DEF Setup
<1>2. CASE Convert
  BY <1>2 DEF Convert, StartedInSync
<1>3. CASE Loop
  <2>1. cycles' \in 0 .. Wrap - 1
    <3>1. cycles + 1 \in Nat /\ Wrap \in Nat \ {0}
      OBVIOUS
    <3> QED BY <1>3, <3>1, RemainderType DEF Loop
  <2>2. CountsSummed'
    <3> SUFFICES ASSUME summed + 1 < Wrap PROVE cycles' = summed + 1
      BY <1>3 DEF Loop
    <3>1. cycles = summed /\ summed + 1 \in 0 .. Wrap - 1 /\ Wrap \in Nat \ {0}
      OBVIOUS
    <3> QED BY <1>3, <3>1, SmallRemainder DEF Loop
  <2> QED BY <1>3, <2>1, <2>2 DEF Loop, StartedInSync
<1>4. CASE Update
  BY <1>4 DEF Update, Sample, Nothing, StartedInSync
<1>5. CASE Command
  <2>1. StartedInSync' /\ driver' \in {"stopped", "running"} /\ started_' \in BOOLEAN
    BY <1>5, DriverSteps DEF Command
  <2> QED BY <1>5, <2>1 DEF Command
<1>6. CASE UNCHANGED vars
  BY <1>6 DEF vars, StartedInSync
<1> QED BY <1>1, <1>2, <1>3, <1>4, <1>5, <1>6 DEF Next

\* Every reachable state is well typed.
THEOREM TypeCorrect == Spec => []TypeOK
<1>1. IInv => TypeOK
  BY DEF IInv
<1> QED BY <1>1, InitInv, NextInv, PTL DEF Spec

\* The published mean is divided by the number of frames summed, as long as
\* the counter did not wrap around.
THEOREM MeanIsOfFrames == Spec => []MeanOfFrames
<1>1. IInv => MeanOfFrames
  BY DEF IInv
<1> QED BY <1>1, InitInv, NextInv, PTL DEF Spec

\* started_ agrees with the converter, whatever errors the driver returns.
THEOREM DriverInSync == Spec => []StartedInSync
<1>1. IInv => StartedInSync
  BY DEF IInv
<1> QED BY <1>1, InitInv, NextInv, PTL DEF Spec
==============================================================================
