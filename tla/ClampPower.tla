------------------------------ MODULE ClampPower ------------------------------
(***************************************************************************)
(* clamp: ADCContinuousSensor reads frames of samples from the driver in    *)
(* loop(), computes the powers of each (calcIV), and sums them up in one of *)
(* two State buffers, while update() publishes the averages of the other    *)
(* and swaps them.  Both run on the main loop, the converter beside it.     *)
(*                                                                          *)
(* A frame is its number, and a sum of powers the set of frames summed.     *)
(* What the powers of a frame are computed from is the subject of           *)
(* ClampWindow.                                                             *)
(***************************************************************************)
EXTENDS Naturals, FiniteSets, SequencesExt

CONSTANTS
  Pool,       \* frames the driver's pool holds: 2 (max_store_buf_size)
  MaxFrames   \* bound: frames converted

ASSUME PoolAssumption      == Pool \in Nat \ {0}
ASSUME MaxFramesAssumption == MaxFrames \in Nat

VARIABLES
  converting,   \* the driver has been started
  frame,        \* number of the last frame converted
  pool,         \* frames converted and not read
  state_,       \* two buffers: frames summed, calc_count
  set_, get_,   \* which of them loop() and update() use
  published,    \* what update() published last: frames averaged, divisor
  intervals     \* history: frames read since the last update, and in the
                \* two intervals before

driver  == <<converting, frame, pool>>
buffers == <<state_, set_, get_>>
vars    == <<driver, buffers, published, intervals>>

Frames == 1 .. MaxFrames
Empty  == [frames |-> {}, calc_count |-> 0]

TypeOK ==
  /\ converting \in BOOLEAN
  /\ frame \in 0 .. MaxFrames
  /\ pool \in Seq(Frames) /\ Len(pool) <= Pool
  /\ state_ \in [{1, 2} -> [frames : SUBSET Frames, calc_count : 0 .. MaxFrames]]
  /\ set_ \in {1, 2} /\ get_ \in {1, 2}
  /\ published \in [frames : SUBSET Frames, calc_count : 0 .. MaxFrames]
  /\ intervals \in [1 .. 3 -> SUBSET Frames]

\* setup() ends with start(), whose failure is only logged.
Init ==
  /\ converting \in BOOLEAN
  /\ frame = 0
  /\ pool = <<>>
  /\ state_ = [s \in {1, 2} |-> Empty]
  /\ set_ = 1 /\ get_ = 2
  /\ published = Empty
  /\ intervals = [i \in 1 .. 3 |-> {}]
-----------------------------------------------------------------------------
\* (mutant of Convert: the pool takes one frame more)
ConvertOverfull ==
  /\ converting /\ frame < MaxFrames
  /\ frame' = frame + 1
  /\ pool' = IF Len(pool) <= Pool THEN Append(pool, frame') ELSE <<frame'>>
  /\ UNCHANGED <<converting, buffers, published, intervals>>

\* The driver converts a frame, and drops those in a full pool (flush_pool).
Convert ==
  /\ converting /\ frame < MaxFrames
  /\ frame' = frame + 1
  /\ pool' = IF Len(pool) < Pool THEN Append(pool, frame') ELSE <<frame'>>
  /\ UNCHANGED <<converting, buffers, published, intervals>>

\* (mutant of Loop: the count is left to update())
LoopUncounted ==
  /\ pool # <<>>
  /\ pool' = Tail(pool)
  /\ state_' = [state_ EXCEPT ![set_].frames = @ \cup {Head(pool)}]
  /\ intervals' = [intervals EXCEPT ![1] = @ \cup {Head(pool)}]
  /\ UNCHANGED <<converting, frame, set_, get_, published>>

\* loop: adc_continuous_read, calcIV, and the sums.  Without a frame, or when
\* the driver refuses to read, no step.
Loop ==
  /\ pool # <<>>
  /\ pool' = Tail(pool)
  /\ state_' = [state_ EXCEPT ![set_].frames = @ \cup {Head(pool)},
                              ![set_].calc_count = @ + 1]
  /\ intervals' = [intervals EXCEPT ![1] = @ \cup {Head(pool)}]
  /\ UNCHANGED <<converting, frame, set_, get_, published>>

\* (mutant of SampleAndReset: the sums stay)
SampleOnly == published' = state_[get_] /\ UNCHANGED state_

\* sample: the averages of *get_, which is then cleared.
SampleAndReset ==
  /\ published' = state_[get_]
  /\ state_' = [state_ EXCEPT ![get_] = Empty]

\* (mutant of Swap: one pointer follows the other)
SwapHalf == set_' = get_ /\ UNCHANGED get_

\* std::swap(set_, get_)
Swap == set_' = get_ /\ get_' = set_

\* update
Update ==
  /\ SampleAndReset
  /\ Swap
  /\ intervals' = [i \in 1 .. 3 |-> IF i = 1 THEN {} ELSE intervals[i - 1]]
  /\ UNCHANGED driver

\* start and stop, called from lambdas of the configuration; an error (the
\* converter already runs, or does not) is only logged.
Start == converting' = TRUE /\ UNCHANGED <<frame, pool, buffers, published, intervals>>
Stop  == converting' = FALSE /\ UNCHANGED <<frame, pool, buffers, published, intervals>>

Next == Convert \/ Loop \/ Update \/ Start \/ Stop

Spec == Init /\ [][Next]_vars

\* The main loop calls update() again and again.  (Whether loop() finds frames
\* is up to the driver.)
FairSpec == Spec /\ WF_vars(Update)
-----------------------------------------------------------------------------
(* Properties *)

\* The value update() publishes is the mean of the frames read between the
\* last two updates, all of them and no others: swapping and clearing lose
\* none, count none twice, and the value lags by exactly one interval.
PublishesLastInterval ==
  published.frames = intervals[3] /\ published.calc_count = Cardinality(intervals[3])

\* No frame is published twice, nor summed again after it was published.
FramesOnce ==
  state_[set_].frames \cap state_[get_].frames = {}
    /\ \A s \in {1, 2} : published.frames \cap state_[s].frames = {}

\* Every frame summed up is published in the end.
FramesArePublished ==
  \A f \in Frames : f \in state_[set_].frames ~> f \in published.frames
==============================================================================
