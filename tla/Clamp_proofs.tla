----------------------------- MODULE Clamp_proofs -----------------------------
(***************************************************************************)
(* Proofs about clamp. ClampPower: for every size of the driver's pool and  *)
(* every number of frames. ClampWindow: for every length, first channel and *)
(* contents of the frame, and anything behind it.                           *)
(***************************************************************************)
EXTENDS ClampPower, ClampWindow, FiniteSetTheorems, FunctionTheorems,
        SequenceTheorems, TLAPS

\* The sums and the divisor in a State belong to a set of frames.
SumsUp(s, F) == s.frames = F /\ s.calc_count = Cardinality(F)

\* The buffer in use has the interval under way, the other the one before,
\* and what was published the one before that.
Balance ==
  /\ set_ # get_
  /\ SumsUp(state_[set_], intervals[1])
  /\ SumsUp(state_[get_], intervals[2])
  /\ SumsUp(published, intervals[3])

\* A frame waits in the pool once, and has not been read before: frames are
\* numbered in the order they are converted and read.
Fresh ==
  /\ \A i, j \in DOMAIN pool : i < j => pool[i] < pool[j]
  /\ \A i \in DOMAIN pool : pool[i] <= frame
  /\ \A k \in 1 .. 3 : \A f \in intervals[k] : f <= frame
  /\ \A k \in 1 .. 3 : \A f \in intervals[k] : \A i \in DOMAIN pool : f < pool[i]

Apart == \A k, l \in 1 .. 3 : k # l => intervals[k] \cap intervals[l] = {}

IInv == TypeOK /\ Balance /\ Fresh /\ Apart

\* A set of frames has a size, of at most MaxFrames.
LEMMA FrameSets ==
  ASSUME NEW F \in SUBSET Frames
  PROVE  IsFiniteSet(F) /\ Cardinality(F) \in 0 .. MaxFrames
<1>1. IsFiniteSet(Frames) /\ Cardinality(Frames) = MaxFrames
  BY FS_Interval, MaxFramesAssumption DEF Frames
<1>2. IsFiniteSet(F) /\ Cardinality(F) <= MaxFrames
  BY <1>1, FS_Subset
<1> QED BY <1>2, FS_CardinalityType, MaxFramesAssumption

LEMMA InitInv == Init => IInv
<1> SUFFICES ASSUME Init PROVE IInv
  OBVIOUS
<1>1. TypeOK
  BY MaxFramesAssumption, PoolAssumption DEF Init, TypeOK, Empty, Frames
<1>2. Balance
  BY FS_EmptySet DEF Init, Balance, SumsUp, Empty
<1>3. Fresh /\ Apart
  BY DEF Init, Fresh, Apart
<1> QED BY <1>1, <1>2, <1>3 DEF IInv

LEMMA ConvertInv == IInv /\ Convert => IInv'
<1> SUFFICES ASSUME IInv, Convert PROVE IInv'
  OBVIOUS
<1>1. /\ frame \in Nat /\ frame' = frame + 1 /\ frame' \in Frames
      /\ pool \in Seq(Frames) /\ Len(pool) \in Nat /\ DOMAIN pool = 1 .. Len(pool)
      /\ \A i \in 1 .. Len(pool) : pool[i] \in Nat
  <2>1. pool \in Seq(Frames) /\ Frames \subseteq Nat
    BY DEF IInv, TypeOK, Frames
  <2>2. frame \in Nat /\ frame' = frame + 1 /\ frame' \in Frames
    BY MaxFramesAssumption DEF IInv, TypeOK, Convert, Frames
  <2>3. \A i \in 1 .. Len(pool) : pool[i] \in Frames
    BY <2>1, ElementOfSeq
  <2> QED BY <2>1, <2>2, <2>3, LenProperties
<1>2. \A k \in 1 .. 3 : intervals[k] \subseteq Nat
  BY DEF IInv, TypeOK, Frames
\* Whichever way the pool takes the frame, the rest follows.
<1>3. ASSUME pool' \in Seq(Frames), Len(pool') <= Pool,
             \A i, j \in DOMAIN pool' : i < j => pool'[i] < pool'[j],
             \A i \in DOMAIN pool' :
               pool'[i] = frame' \/ (i \in DOMAIN pool /\ pool'[i] = pool[i])
      PROVE  IInv'
  <2>1. TypeOK'
    BY <1>1, <1>3, MaxFramesAssumption DEF IInv, TypeOK, Convert, buffers, Frames
  <2>2. \A i \in DOMAIN pool' : pool'[i] <= frame'
    BY <1>1, <1>3 DEF IInv, Fresh
  <2>3. \A k \in 1 .. 3 : \A f \in intervals[k] : f < frame'
    BY <1>1, <1>2 DEF IInv, Fresh
  <2>4. \A k \in 1 .. 3 : \A f \in intervals[k] : \A i \in DOMAIN pool' : f < pool'[i]
    BY <1>1, <1>2, <1>3, <2>3 DEF IInv, Fresh
  <2>5. Fresh'
    BY <1>1, <1>2, <1>3, <2>2, <2>3, <2>4 DEF Fresh, Convert
  <2> QED BY <2>1, <2>5 DEF IInv, Balance, Apart, SumsUp, Convert, buffers
<1>4. CASE pool' = Append(pool, frame') /\ Len(pool) < Pool
  <2>1. /\ pool' \in Seq(Frames) /\ Len(pool') = Len(pool) + 1
        /\ \A i \in 1 .. Len(pool) : pool'[i] = pool[i]
        /\ pool'[Len(pool) + 1] = frame'
    BY <1>1, <1>4, AppendProperties
  <2>2. Len(pool') <= Pool
    BY <1>1, <1>4, <2>1, PoolAssumption
  <2>3. DOMAIN pool' = 1 .. Len(pool) + 1
    BY <2>1, LenProperties
  <2>4. \A i, j \in DOMAIN pool' : i < j => pool'[i] < pool'[j]
    <3> SUFFICES ASSUME NEW i \in DOMAIN pool', NEW j \in DOMAIN pool', i < j
                 PROVE  pool'[i] < pool'[j]
      OBVIOUS
    <3>1. i \in 1 .. Len(pool) /\ pool'[i] = pool[i] /\ pool[i] <= frame
      BY <1>1, <2>1, <2>3 DEF IInv, Fresh
    <3>2. CASE j \in 1 .. Len(pool)
      BY <1>1, <2>1, <3>1, <3>2 DEF IInv, Fresh
    <3>3. CASE j = Len(pool) + 1
      BY <1>1, <2>1, <3>1, <3>3
    <3> QED BY <1>1, <2>3, <3>2, <3>3
  <2>5. \A i \in DOMAIN pool' : pool'[i] = frame' \/ (i \in DOMAIN pool /\ pool'[i] = pool[i])
    BY <1>1, <2>1, <2>3
  <2> QED BY <2>1, <2>2, <2>4, <2>5, <1>3
<1>5. CASE pool' = <<frame'>>
  <2>1. pool' \in Seq(Frames) /\ Len(pool') = 1 /\ pool'[1] = frame' /\ DOMAIN pool' = 1 .. 1
    BY <1>1, <1>5
  <2>2. Len(pool') <= Pool
    BY <2>1, PoolAssumption
  <2>3. \A i, j \in DOMAIN pool' : i < j => pool'[i] < pool'[j]
    BY <2>1
  <2>4. \A i \in DOMAIN pool' : pool'[i] = frame'
    BY <2>1
  <2> QED BY <2>1, <2>2, <2>3, <2>4, <1>3
<1> QED BY <1>4, <1>5 DEF Convert

LEMMA LoopInv == IInv /\ Loop => IInv'
<1> SUFFICES ASSUME IInv, Loop PROVE IInv'
  OBVIOUS
<1> DEFINE f == Head(pool)
<1>1. /\ pool \in Seq(Frames) /\ pool # <<>> /\ Frames \subseteq Nat
      /\ frame \in Nat /\ set_ \in {1, 2} /\ get_ \in {1, 2} /\ set_ # get_
  BY MaxFramesAssumption DEF IInv, TypeOK, Loop, Frames, Balance
<1>2. /\ f \in Frames /\ f = pool[1] /\ 1 \in DOMAIN pool
      /\ Tail(pool) \in Seq(Frames) /\ Len(Tail(pool)) = Len(pool) - 1
      /\ DOMAIN pool = 1 .. Len(pool) /\ Len(pool) \in Nat
      /\ DOMAIN Tail(pool) = 1 .. Len(pool) - 1
      /\ \A i \in 1 .. Len(pool) - 1 : Tail(pool)[i] = pool[i + 1]
  BY <1>1, HeadTailProperties
<1>3. /\ intervals \in [1 .. 3 -> SUBSET Frames]
      /\ intervals' = [intervals EXCEPT ![1] = @ \cup {f}]
      /\ intervals'[1] = intervals[1] \cup {f} /\ intervals'[2] = intervals[2]
      /\ intervals'[3] = intervals[3]
  BY DEF IInv, TypeOK, Loop
<1>4. \A k \in 1 .. 3 : f \notin intervals[k]
  <2> SUFFICES ASSUME NEW k \in 1 .. 3, f \in intervals[k] PROVE FALSE
    OBVIOUS
  <2>1. f < pool[1]
    BY <1>2 DEF IInv, Fresh
  <2>2. f \in Nat
    BY <1>1, <1>2
  <2> QED BY <1>2, <2>1, <2>2
<1>5. IsFiniteSet(intervals[1]) /\ Cardinality(intervals'[1]) = Cardinality(intervals[1]) + 1
  BY <1>3, <1>4, FrameSets, FS_AddElement
<1>6. /\ state_'[set_] = [frames |-> intervals'[1], calc_count |-> Cardinality(intervals'[1])]
      /\ state_'[get_] = state_[get_]
      /\ DOMAIN state_' = {1, 2}
  BY <1>1, <1>3, <1>5 DEF IInv, TypeOK, Balance, SumsUp, Loop
<1>7. /\ intervals' \in [1 .. 3 -> SUBSET Frames]
      /\ Cardinality(intervals'[1]) \in 0 .. MaxFrames
  BY <1>2, <1>3, FrameSets
<1>8. TypeOK'
  <2>1. state_' \in [{1, 2} -> [frames : SUBSET Frames, calc_count : 0 .. MaxFrames]]
    <3>1. \A s \in {1, 2} : s = set_ \/ s = get_
      BY <1>1
    <3>2. state_' = [s \in {1, 2} |-> state_'[s]]
      BY DEF IInv, TypeOK, Loop
    <3>3. \A s \in {1, 2} : state_'[s] \in [frames : SUBSET Frames, calc_count : 0 .. MaxFrames]
      BY <1>1, <1>6, <1>7, <3>1 DEF IInv, TypeOK
    <3> QED BY <3>2, <3>3
  <2>2. pool' \in Seq(Frames) /\ Len(pool') <= Pool
    BY <1>2, PoolAssumption DEF IInv, TypeOK, Loop
  <2> QED BY <1>7, <2>1, <2>2 DEF IInv, TypeOK, Loop
<1>9. Balance'
  BY <1>1, <1>3, <1>6 DEF IInv, Balance, SumsUp, Loop
<1>10. Fresh'
  <2>1. \A k \in 1 .. 3 : intervals[k] \subseteq Nat
    BY <1>1, <1>3
  <2>2. \A i \in 1 .. Len(pool) : pool[i] \in Nat
    BY <1>1, ElementOfSeq
  <2>3. \A k \in 1 .. 3 : \A g \in intervals'[k] : g = f \/ g \in intervals[k]
    BY <1>3
  <2>4. \A i \in DOMAIN pool' : i \in Nat /\ i + 1 \in DOMAIN pool /\ pool'[i] = pool[i + 1]
    BY <1>2 DEF Loop
  <2>5. \A i, j \in DOMAIN pool' : i < j => pool'[i] < pool'[j]
    BY <2>4 DEF IInv, Fresh
  <2>6. \A i \in DOMAIN pool' : pool'[i] <= frame'
    BY <2>4 DEF IInv, Fresh, Loop
  <2>7. f <= frame /\ \A i \in DOMAIN pool' : f < pool'[i]
    BY <1>1, <1>2, <2>4 DEF IInv, Fresh
  <2>8. \A k \in 1 .. 3 : \A g \in intervals'[k] : g <= frame'
    BY <2>3, <2>7 DEF IInv, Fresh, Loop
  <2>9. \A k \in 1 .. 3 : \A g \in intervals'[k] : \A i \in DOMAIN pool' : g < pool'[i]
    BY <2>3, <2>4, <2>7 DEF IInv, Fresh
  <2> QED BY <2>5, <2>6, <2>8, <2>9 DEF Fresh
<1>11. Apart'
  <2> SUFFICES ASSUME NEW k \in 1 .. 3, NEW l \in 1 .. 3, k # l
               PROVE  intervals'[k] \cap intervals'[l] = {}
    BY DEF Apart
  <2> QED BY <1>3, <1>4 DEF IInv, Apart
<1> QED BY <1>8, <1>9, <1>10, <1>11 DEF IInv

LEMMA UpdateInv == IInv /\ Update => IInv'
<1> SUFFICES ASSUME IInv, Update PROVE IInv'
  OBVIOUS
<1> USE DEF Update, SampleAndReset, Swap
<1>1. set_ \in {1, 2} /\ get_ \in {1, 2} /\ set_ # get_
  BY DEF IInv, TypeOK, Balance
<1>2. /\ intervals \in [1 .. 3 -> SUBSET Frames]
      /\ intervals' \in [1 .. 3 -> SUBSET Frames]
      /\ intervals'[1] = {} /\ intervals'[2] = intervals[1] /\ intervals'[3] = intervals[2]
  BY DEF IInv, TypeOK
<1>3. state_' = [state_ EXCEPT ![get_] = Empty] /\ Empty \in [frames : SUBSET Frames, calc_count : 0 .. MaxFrames]
  BY MaxFramesAssumption DEF Empty
<1>4. TypeOK'
  BY <1>1, <1>2, <1>3 DEF IInv, TypeOK, driver
<1>5. Balance'
  <2>1. state_'[get_] = Empty /\ state_'[set_] = state_[set_]
    BY <1>1, <1>3 DEF IInv, TypeOK
  <2>2. SumsUp(Empty, {})
    BY FS_EmptySet DEF SumsUp, Empty
  <2> QED BY <1>1, <1>2, <2>1, <2>2 DEF IInv, Balance, SumsUp
<1>6. Fresh'
  <2>1. \A k \in 1 .. 3 : \A f \in intervals'[k] : \E l \in 1 .. 3 : f \in intervals[l]
    BY <1>2
  <2>2. pool' = pool /\ frame' = frame
    BY DEF driver
  <2> QED BY <2>1, <2>2 DEF IInv, Fresh
<1>7. Apart'
  BY <1>2 DEF IInv, Apart
<1> QED BY <1>4, <1>5, <1>6, <1>7 DEF IInv

LEMMA NextInv == IInv /\ [Next]_vars => IInv'
<1> SUFFICES ASSUME IInv, [Next]_vars PROVE IInv'
  OBVIOUS
<1>1. CASE Convert
  BY <1>1, ConvertInv
<1>2. CASE Loop
  BY <1>2, LoopInv
<1>3. CASE Update
  BY <1>3, UpdateInv
<1>4. CASE Start \/ Stop
  <2>1. /\ UNCHANGED <<frame, pool, state_, set_, get_, published, intervals>>
        /\ converting' \in BOOLEAN
    BY <1>4 DEF Start, Stop, buffers
  <2> QED BY <2>1 DEF IInv, TypeOK, Balance, SumsUp, Fresh, Apart
<1>5. CASE UNCHANGED vars
  BY <1>5 DEF vars, driver, buffers, IInv, TypeOK, Balance, SumsUp, Fresh, Apart
<1> QED BY <1>1, <1>2, <1>3, <1>4, <1>5 DEF Next

\* The invariant above holds in every reachable state.
THEOREM Balanced == Spec => []IInv
<1> QED BY InitInv, NextInv, PTL DEF Spec

\* Every state is well typed; in particular the sums of a buffer count no more
\* frames than there were.
THEOREM TypeCorrect == Spec => []TypeOK
<1>1. IInv => TypeOK
  BY DEF IInv
<1> QED BY <1>1, Balanced, PTL

\* What update() publishes is the mean of the frames of the last interval, all
\* of them and no others.
THEOREM MeanOfLastInterval == Spec => []PublishesLastInterval
<1>1. IInv => PublishesLastInterval
  BY DEF IInv, Balance, SumsUp, PublishesLastInterval
<1> QED BY <1>1, Balanced, PTL

\* No frame is published twice, nor summed again after it was published.
THEOREM FrameIsUsedOnce == Spec => []FramesOnce
<1>1. IInv => FramesOnce
  <2> SUFFICES ASSUME IInv PROVE FramesOnce
    OBVIOUS
  <2>1. /\ intervals[1] \cap intervals[2] = {} /\ intervals[3] \cap intervals[1] = {}
        /\ intervals[3] \cap intervals[2] = {}
    BY DEF IInv, Apart
  <2>2. \A s \in {1, 2} : s = set_ \/ s = get_
    BY DEF IInv, TypeOK, Balance
  <2> QED BY <2>1, <2>2 DEF IInv, Balance, SumsUp, FramesOnce
<1> QED BY <1>1, Balanced, PTL
-----------------------------------------------------------------------------
(* The walk of calcIV *)

\* In a frame that begins with channel f, the address of the first sample that
\* the pointer p comes to; it goes on in steps of a scan.
Base(p, f) == phaseCal[p] + ((channel[p] + 8 - f - phaseCal[p]) % 4)

\* After k iterations each pointer is right behind its k-th sample; the pointers
\* have used nothing but these, and nothing behind the frame.
Walked(f) ==
  /\ memory.scans \in Nat \ {0} /\ Interleaved(memory, f)
  /\ pc \in {"start", "walk", "done"}
  /\ pc = "start" => data = phaseCal /\ used = <<>>
  /\ used \in Seq([Pointers -> Nat])
  /\ \A k \in DOMAIN used : \A p \in Pointers :
       used[k][p] = Base(p, f) + 4 * (k - 1) /\ used[k][p] < end
  /\ data \in [Pointers -> Nat]
  /\ \A p \in Pointers :
       IF used = <<>>
         THEN data[p] \in 0 .. 3 /\ data[p] \in Base(p, f) - 3 .. Base(p, f)
         ELSE data[p] = Base(p, f) + 4 * Len(used) - 3 /\ data[p] <= end
  /\ read \in Int /\ read <= end
  /\ pc = "done" => crossCount = Crossings \/ Len(used) + 1 >= memory.scans

WalkInv == \E f \in 0 .. 3 : Walked(f)

\* The smallest element of a set.
LEMMA MinIs ==
  ASSUME NEW S \in SUBSET Int, NEW m \in S, \A x \in S : m <= x
  PROVE  Min(S) = m
<1>1. \E x \in S : \A y \in S : x <= y
  OBVIOUS
<1>2. Min(S) \in S /\ \A y \in S : Min(S) <= y
  BY <1>1 DEF Min
<1>3. Min(S) \in Int /\ m \in Int /\ Min(S) <= m /\ m <= Min(S)
  BY <1>2
<1> QED BY <1>3

\* A set of integers that is bounded from above has a greatest element.
LEMMA MaxBounded ==
  ASSUME NEW S \in SUBSET Int, S # {}, NEW e \in Int, \A x \in S : x <= e
  PROVE  Max(S) \in S
<1> DEFINE below == {n \in Nat : e - n \in S}
<1>1. below # {}
  <2>1. PICK x \in S : TRUE
    OBVIOUS
  <2>2. e - x \in Nat /\ e - (e - x) = x
    BY <2>1
  <2> QED BY <2>1, <2>2
<1>2. PICK n \in below : \A l \in below : ~ (<<l, n>> \in OpToRel(<, Nat))
  BY <1>1, NatLessThanWellFounded, WFMin, below \subseteq Nat, Zenon
<1>3. \A l \in below : ~ (l < n)
  BY <1>2 DEF OpToRel
<1>4. e - n \in S /\ \A x \in S : e - n >= x
  <2>1. \A x \in S : e - x \in below
    <3> TAKE x \in S
    <3>1. e - x \in Nat /\ e - (e - x) = x
      OBVIOUS
    <3> QED BY <3>1
  <2>2. n \in Nat /\ e - n \in S
    OBVIOUS
  <2>3. ASSUME NEW x \in S PROVE e - n >= x
    <3>1. ~ (e - x < n) /\ x \in Int
      BY <1>3, <2>1
    <3> HIDE DEF below
    <3> QED BY <2>2, <3>1
  <2> QED BY <2>2, <2>3
<1> QED BY <1>4 DEF Max

\* Two addresses of one channel are a scan apart.
LEMMA SameChannel ==
  ASSUME NEW a \in Nat, NEW b \in Nat, NEW f \in 0 .. 3,
         (a + f) % 4 = (b + f) % 4, a <= b, b <= a + 3
  PROVE  a = b
OBVIOUS

\* Where the pointers first come to.
LEMMA Bases ==
  ASSUME NEW f \in 0 .. 3, NEW p \in Pointers
  PROVE  /\ channel[p] \in 0 .. 3 /\ phaseCal[p] \in 0 .. 2
         /\ Base(p, f) \in 0 .. 5 /\ (Base(p, f) + f) % 4 = channel[p]
         /\ phaseCal[p] \in Base(p, f) - 3 .. Base(p, f)
         /\ p \in {"v1", "i1", "i2", "i3"} => Base(p, f) <= 3
<1>1. /\ channel[p] \in 0 .. 3 /\ phaseCal[p] \in 0 .. 2
      /\ p \in {"v1", "i1", "i2", "i3"} => phaseCal[p] = 0
  BY DEF Pointers, channel, phaseCal, V
<1> DEFINE c == channel[p]
           s == phaseCal[p]
<1>2. /\ s + ((c + 8 - f - s) % 4) \in 0 .. 5
      /\ (s + ((c + 8 - f - s) % 4) + f) % 4 = c
      /\ s \in s + ((c + 8 - f - s) % 4) - 3 .. s + ((c + 8 - f - s) % 4)
      /\ s = 0 => s + ((c + 8 - f - s) % 4) <= 3
  <2> HIDE DEF c, s
  <2>1. c \in 0 .. 3 /\ s \in 0 .. 2
    BY <1>1 DEF c, s
  <2> QED BY <2>1
<1> QED BY <1>1, <1>2 DEF Base

\* In every frame one pointer is at the first address of it.
LEMMA FirstPointer ==
  ASSUME NEW f \in 0 .. 3
  PROVE  \E p \in Pointers : Base(p, f) = 0
<1>1. f = 0 \/ f = 1 \/ f = 2 \/ f = 3
  OBVIOUS
<1>2. CASE f = 0
  BY <1>2 DEF Base, Pointers, channel, phaseCal, V
<1>3. CASE f = 1
  BY <1>3 DEF Base, Pointers, channel, phaseCal, V
<1>4. CASE f = 2
  BY <1>4 DEF Base, Pointers, channel, phaseCal, V
<1>5. CASE f = 3
  BY <1>5 DEF Base, Pointers, channel, phaseCal, V
<1> QED BY <1>1, <1>2, <1>3, <1>4, <1>5

\* getNext from at most a scan before a sample of its channel: it finds that one
\* if it is in the frame, and nothing if it is not.
LEMMA NextSample ==
  ASSUME NEW f \in 0 .. 3, memory.scans \in Nat \ {0}, Interleaved(memory, f),
         NEW ch \in 0 .. 3, NEW from \in Nat, NEW t \in Nat, (t + f) % 4 = ch,
         from <= t, t <= from + 3, from <= end
  PROVE  /\ t < end => getNext(from, ch) = t
         /\ t >= end /\ from < end => getNext(from, ch) = nullptr
         /\ LastRead(from, ch) \in Int /\ LastRead(from, ch) <= end
<1> DEFINE matches == {a \in {from} \cup from .. end - 1 : memory.at[a].channel = ch}
<1>1. end \in Nat /\ end >= 4
  BY DEF end
<1>2. \A a \in 0 .. end - 1 : memory.at[a].channel = (a + f) % 4
  BY DEF Interleaved, end
<1>3. \A a \in matches : a \in from .. end - 1 => a >= t
  <2> SUFFICES ASSUME NEW a \in matches, a \in from .. end - 1, a < t PROVE FALSE
    BY <1>1
  <2>1. a \in Nat /\ a \in 0 .. end - 1 /\ a <= t /\ t <= a + 3
    BY <1>1
  <2>2. (a + f) % 4 = (t + f) % 4
    BY <1>2, <2>1
  <2>3. a = t
    BY <2>1, <2>2, SameChannel
  <2> QED BY <2>1, <2>3
<1>4. t < end => getNext(from, ch) = t
  <2> SUFFICES ASSUME t < end PROVE getNext(from, ch) = t
    OBVIOUS
  <2>1. t \in matches
    BY <1>1, <1>2
  <2>2. \A a \in matches : t <= a
    BY <1>1, <1>3
  <2>3. matches \in SUBSET Int
    BY <1>1
  <2>4. Min(matches) = t
    BY <2>1, <2>2, <2>3, MinIs
  <2> QED BY <2>1, <2>4 DEF getNext
<1>5. t >= end /\ from < end => getNext(from, ch) = nullptr
  <2> SUFFICES ASSUME t >= end, from < end PROVE getNext(from, ch) = nullptr
    OBVIOUS
  <2>1. matches = {}
    BY <1>1, <1>3
  <2> QED BY <2>1 DEF getNext
<1>6. LastRead(from, ch) \in Int /\ LastRead(from, ch) <= end
  <2>1. {from, end - 1} \in SUBSET Int /\ \A x \in {from, end - 1} : x <= end
    BY <1>1
  <2>2. Max({from, end - 1}) \in {from, end - 1}
    <3> DEFINE R == {from, end - 1}
    <3>1. R \in SUBSET Int /\ R # {} /\ end \in Int /\ \A x \in R : x <= end
      BY <1>1, <2>1
    <3> HIDE DEF R
    <3>2. Max(R) \in R
      BY <3>1, MaxBounded
    <3> QED BY <3>2 DEF R
  <2>3. getNext(from, ch) = nullptr \/ (getNext(from, ch) \in Int /\ getNext(from, ch) <= end)
    <3>1. CASE t < end
      BY <1>1, <1>4, <3>1
    <3>2. CASE t >= end /\ from < end
      BY <1>5, <3>2
    <3>3. CASE from = end
      <4>1. matches \subseteq {from}
        BY <1>1, <3>3
      <4>2. matches = {} \/ matches = {from}
        BY <4>1
      <4>3. matches = {from} => Min(matches) = from
        <5>1. {from} \in SUBSET Int /\ \A x \in {from} : from <= x
          OBVIOUS
        <5>2. Min({from}) = from
          BY <5>1, MinIs
        <5> QED BY <5>2
      <4> QED BY <1>1, <3>3, <4>2, <4>3 DEF getNext
    <3> QED BY <1>1, <3>1, <3>2, <3>3
  <2> QED BY <1>1, <2>1, <2>2, <2>3 DEF LastRead
<1> QED BY <1>4, <1>5, <1>6

LEMMA WalkInit == CalcInit => WalkInv
<1> SUFFICES ASSUME CalcInit PROVE WalkInv
  OBVIOUS
<1>1. memory.scans \in Nat \ {0} /\ \E f \in 0 .. 3 : Interleaved(memory, f)
  BY MemoriesAssumption DEF CalcInit
<1>2. PICK f \in 0 .. 3 : Interleaved(memory, f)
  BY <1>1
<1>3. pc = "start" /\ data = phaseCal /\ used = <<>> /\ read = -1
  BY DEF CalcInit
<1>4. data \in [Pointers -> Nat]
  BY <1>3 DEF phaseCal, Pointers
<1>5. \A p \in Pointers : data[p] \in 0 .. 3 /\ data[p] \in Base(p, f) - 3 .. Base(p, f)
  <2> TAKE p \in Pointers
  <2>1. data[p] \in 0 .. 2 /\ data[p] \in Base(p, f) - 3 .. Base(p, f)
    BY <1>3, Bases
  <2> QED BY <2>1
<1>6. read \in Int /\ read <= end
  BY <1>1, <1>3 DEF end
<1>7. Walked(f)
  BY <1>1, <1>2, <1>3, <1>4, <1>5, <1>6 DEF Walked
<1> QED BY <1>7 DEF WalkInv

\* What a pointer is advanced to next.
LEMMA Advance ==
  ASSUME NEW f \in 0 .. 3, Walked(f), NEW p \in Pointers
  PROVE  LET t == Base(p, f) + 4 * Len(used)
             n == getNext(data[p], channel[p])
         IN  /\ t \in Nat
             /\ t < end => n = t
             /\ t >= end /\ data[p] < end => n = nullptr
             /\ LastRead(data[p], channel[p]) \in Int /\ LastRead(data[p], channel[p]) <= end
<1> DEFINE k == Len(used)
           b == Base(p, f)
           d == data[p]
           t == b + 4 * k
<1>1. memory.scans \in Nat \ {0} /\ Interleaved(memory, f) /\ end \in Nat /\ end >= 4
  BY DEF Walked, end
<1>2. k \in Nat /\ (used = <<>> => k = 0)
  BY DEF Walked
<1>3. channel[p] \in 0 .. 3 /\ b \in 0 .. 5 /\ (b + f) % 4 = channel[p]
  BY Bases
<1>4. /\ d \in Nat
      /\ used = <<>> => d \in 0 .. 3 /\ d \in b - 3 .. b
      /\ used # <<>> => d = b + 4 * k - 3 /\ d <= end
  BY DEF Walked
<1> HIDE DEF k, b, d
<1>5. t \in Nat
  BY <1>2, <1>3
<1>6. (t + f) % 4 = channel[p]
  BY <1>2, <1>3
<1>7. d <= t /\ t <= d + 3 /\ d <= end
  <2>1. CASE used = <<>>
    BY <1>1, <1>2, <1>3, <1>4, <2>1
  <2>2. CASE used # <<>>
    BY <1>2, <1>3, <1>4, <2>2
  <2> QED BY <2>1, <2>2
<1> HIDE DEF t
<1>8. /\ t < end => getNext(d, channel[p]) = t
      /\ t >= end /\ d < end => getNext(d, channel[p]) = nullptr
      /\ LastRead(d, channel[p]) \in Int /\ LastRead(d, channel[p]) <= end
  BY <1>1, <1>3, <1>4, <1>5, <1>6, <1>7, NextSample
<1> QED BY <1>5, <1>8 DEF t, b, d, k

\* The walk takes no more iterations than the frame has scans. When it has taken
\* them all, the pointer that came to the first address finds nothing.
LEMMA WalkEnds ==
  ASSUME NEW f \in 0 .. 3, Walked(f)
  PROVE  /\ Len(used) \in 0 .. memory.scans
         /\ Len(used) = memory.scans =>
              \E p \in Pointers : getNext(data[p], channel[p]) = nullptr
         /\ Len(used) < memory.scans => \A p \in Pointers : data[p] < end
<1>1. PICK z \in Pointers : Base(z, f) = 0
  BY FirstPointer
<1>2. memory.scans \in Nat \ {0} /\ end = 4 * memory.scans /\ Len(used) \in Nat
      /\ DOMAIN used = 1 .. Len(used) /\ (used = <<>> <=> Len(used) = 0)
  BY DEF Walked, end
<1>3. Len(used) \in 0 .. memory.scans
  <2>1. CASE used = <<>>
    BY <1>2, <2>1
  <2>2. CASE used # <<>>
    <3>1. Len(used) \in DOMAIN used
      BY <1>2, <2>2
    <3>2. \A k \in DOMAIN used : used[k][z] = Base(z, f) + 4 * (k - 1) /\ used[k][z] < end
      BY DEF Walked
    <3>3. Base(z, f) + 4 * (Len(used) - 1) < end
      BY <3>1, <3>2
    <3> QED BY <1>1, <1>2, <3>3
  <2> QED BY <2>1, <2>2
<1>4. ASSUME Len(used) = memory.scans
      PROVE  getNext(data[z], channel[z]) = nullptr
  <2>1. data[z] = 4 * Len(used) - 3
    BY <1>1, <1>2, <1>4 DEF Walked
  <2>2. data[z] < end /\ Base(z, f) + 4 * Len(used) >= end
    BY <1>1, <1>2, <1>4, <2>1
  <2> QED BY <2>2, Advance
<1>5. ASSUME Len(used) < memory.scans, NEW p \in Pointers
      PROVE  data[p] < end
  <2>1. Base(p, f) \in 0 .. 5
    BY Bases
  <2>2. CASE used = <<>>
    <3>1. data[p] \in 0 .. 3
      BY <2>2 DEF Walked
    <3> QED BY <1>2, <3>1
  <2>3. CASE used # <<>>
    <3>1. data[p] = Base(p, f) + 4 * Len(used) - 3
      BY <2>3 DEF Walked
    <3> QED BY <1>2, <1>5, <2>1, <3>1
  <2> QED BY <2>2, <2>3
<1> QED BY <1>3, <1>4, <1>5

LEMMA ThresholdStep ==
  ASSUME NEW f \in 0 .. 3, Walked(f), Threshold
  PROVE  Walked(f)'
<1>1. used = <<>> /\ Len(used) = 0 /\ "v1" \in Pointers /\ channel["v1"] = V
  BY DEF Threshold, Walked, Pointers, channel
<1>2. end \in Nat /\ end >= 4
  BY DEF Walked, end
<1>3. Base("v1", f) \in 0 .. 3
  <2>1. Base("v1", f) \in 0 .. 5 /\ Base("v1", f) <= 3
    BY <1>1, Bases
  <2> QED BY <2>1
<1>4. /\ getNext(data["v1"], V) = Base("v1", f)
      /\ LastRead(data["v1"], V) \in Int /\ LastRead(data["v1"], V) <= end
  BY <1>1, <1>2, <1>3, Advance
<1>5. data' = [data EXCEPT !["v1"] = Base("v1", f)] /\ pc' = "walk"
      /\ UNCHANGED <<memory, crossCount, used>> /\ end' = end
  BY <1>4 DEF Threshold, end
<1>6. read' \in Int /\ read' <= end
  <2> DEFINE R == {read, LastRead(data["v1"], V)}
  <2>1. R \in SUBSET Int /\ R # {} /\ end \in Int /\ (\A x \in R : x <= end) /\ read' = Max(R)
    BY <1>2, <1>4 DEF Walked, Threshold
  <2> HIDE DEF R
  <2>2. Max(R) \in R
    BY <2>1, MaxBounded
  <2> QED BY <2>1, <2>2
<1>7. data' \in [Pointers -> Nat]
  BY <1>1, <1>3, <1>5 DEF Walked
<1>8. \A p \in Pointers : data'[p] \in 0 .. 3 /\ data'[p] \in Base(p, f) - 3 .. Base(p, f)
  <2> TAKE p \in Pointers
  <2>1. CASE p = "v1"
    BY <1>3, <1>5, <2>1 DEF Walked
  <2>2. CASE p # "v1"
    BY <1>1, <1>5, <2>2 DEF Walked
  <2> QED BY <2>1, <2>2
<1>9. Interleaved(memory, f)' /\ memory'.scans \in Nat \ {0}
  BY <1>5 DEF Walked, Interleaved
<1>10. pc' \in {"start", "walk", "done"} /\ pc' # "start" /\ pc' # "done"
  BY <1>5
<1>11. used' = <<>> /\ used' \in Seq([Pointers -> Nat]) /\ DOMAIN used' = {}
  BY <1>1, <1>5
<1> QED BY <1>5, <1>6, <1>7, <1>8, <1>9, <1>10, <1>11 DEF Walked

\* An iteration either ends the walk, for want of a sample of the last scan, or
\* uses the next sample of every pointer.
LEMMA IterateStep ==
  ASSUME NEW f \in 0 .. 3, Walked(f), Iterate
  PROVE  Walked(f)'
<1> DEFINE next == [p \in Pointers |-> getNext(data[p], channel[p])]
           k == Len(used)
<1>1. /\ memory.scans \in Nat \ {0} /\ end = 4 * memory.scans /\ end \in Nat
      /\ k \in 0 .. memory.scans /\ (used = <<>> <=> k = 0)
      /\ used \in Seq([Pointers -> Nat]) /\ DOMAIN used = 1 .. k
  <2>1. k \in 0 .. memory.scans
    BY WalkEnds
  <2>2. /\ memory.scans \in Nat \ {0} /\ end = 4 * memory.scans
        /\ used \in Seq([Pointers -> Nat])
    BY DEF Walked, end
  <2>3. DOMAIN used = 1 .. k /\ (used = <<>> <=> k = 0)
    BY <2>2, LenProperties
  <2> QED BY <2>1, <2>2, <2>3
<1>2. \A p \in Pointers : Base(p, f) \in 0 .. 5
  BY Bases
<1>3. UNCHANGED memory /\ end' = end /\ Interleaved(memory, f)'
  BY DEF Iterate, Walked, Interleaved, end
<1>4. read' \in Int /\ read' <= end
  <2> DEFINE R == {read} \cup {LastRead(data[p], channel[p]) : p \in Pointers}
  <2>1. \A p \in Pointers : /\ LastRead(data[p], channel[p]) \in Int
                            /\ LastRead(data[p], channel[p]) <= end
    BY Advance
  <2>2. R \in SUBSET Int /\ R # {} /\ end \in Int /\ \A x \in R : x <= end
    BY <1>1, <2>1 DEF Walked
  <2>3. read' = Max(R)
    BY DEF Iterate
  <2> HIDE DEF R
  <2>4. Max(R) \in R
    BY <2>2, MaxBounded
  <2> QED BY <2>2, <2>3, <2>4
<1>5. ASSUME NEW p \in Pointers
      PROVE  /\ Base(p, f) + 4 * k \in Nat
             /\ Base(p, f) + 4 * k < end => next[p] = Base(p, f) + 4 * k
             /\ Base(p, f) + 4 * k >= end /\ data[p] < end => next[p] = nullptr
  BY Advance
<1>6. ASSUME \A p \in Pointers : next[p] = Base(p, f) + 4 * k
      PROVE  nullptr \notin Range(next)
  <2>1. \A p \in Pointers : next[p] \in Nat
    BY <1>5, <1>6
  <2>2. nullptr \notin Nat
    BY DEF nullptr
  <2>3. Range(next) \subseteq Nat
    <3>1. DOMAIN next = Pointers
      OBVIOUS
    <3> HIDE DEF next
    <3> QED BY <2>1, <3>1 DEF Range
  <2> QED BY <2>2, <2>3
<1>7. CASE nullptr \in Range(next)
  <2>1. pc' = "done" /\ UNCHANGED <<data, used, crossCount>>
    BY <1>7 DEF Iterate
  <2>2. k + 1 >= memory.scans
    <3> SUFFICES ASSUME k + 1 < memory.scans PROVE FALSE
      BY <1>1
    <3>1. \A p \in Pointers : Base(p, f) + 4 * k < end
      BY <1>1, <1>2
    <3> QED BY <1>5, <1>6, <1>7, <3>1
  <2>3. pc' \in {"start", "walk", "done"} /\ pc' # "start"
    BY <2>1
  <2> HIDE DEF next
  <2> QED BY <1>1, <1>3, <1>4, <2>1, <2>2, <2>3 DEF Walked
<1>8. CASE nullptr \notin Range(next)
  <2>1. /\ data' = [p \in Pointers |-> next[p] + 1] /\ used' = Append(used, next)
        /\ pc' = pc
    BY <1>8 DEF Iterate
  <2>2. \A p \in Pointers : next[p] # nullptr
    BY <1>8 DEF Range
  <2>3. k < memory.scans
    <3>1. k # memory.scans
      BY <2>2, WalkEnds
    <3> QED BY <1>1, <3>1
  <2>4. \A p \in Pointers : Base(p, f) + 4 * k < end
    <3> TAKE p \in Pointers
    <3>1. data[p] < end
      BY <2>3, WalkEnds
    <3>2. ~ (Base(p, f) + 4 * k >= end)
      BY <1>5, <2>2, <3>1
    <3> QED BY <1>1, <1>5, <3>2
  <2>5. next \in [Pointers -> Nat] /\ \A p \in Pointers : next[p] = Base(p, f) + 4 * k
    BY <1>5, <2>4
  <2> HIDE DEF next
  <2>6. /\ used' \in Seq([Pointers -> Nat]) /\ Len(used') = k + 1 /\ used' # <<>>
        /\ \A j \in 1 .. k : used'[j] = used[j]
        /\ used'[k + 1] = next
    BY <1>1, <2>1, <2>5, AppendProperties
  <2>7. DOMAIN used' = 1 .. k + 1
    BY <2>6, LenProperties
  <2>8. \A j \in DOMAIN used' : \A p \in Pointers :
          used'[j][p] = Base(p, f) + 4 * (j - 1) /\ used'[j][p] < end
    <3> SUFFICES ASSUME NEW j \in DOMAIN used', NEW p \in Pointers
                 PROVE  used'[j][p] = Base(p, f) + 4 * (j - 1) /\ used'[j][p] < end
      OBVIOUS
    <3>1. CASE j \in 1 .. k
      BY <1>1, <2>6, <3>1 DEF Walked
    <3>2. CASE j = k + 1
      <4>1. used'[j][p] = Base(p, f) + 4 * k /\ used'[j][p] < end
        BY <2>4, <2>5, <2>6, <3>2
      <4> QED BY <1>1, <3>2, <4>1
    <3> QED BY <1>1, <2>7, <3>1, <3>2
  <2>9. data' \in [Pointers -> Nat]
    BY <2>1, <2>5
  <2>10. \A p \in Pointers : data'[p] = Base(p, f) + 4 * Len(used') - 3 /\ data'[p] <= end
    <3> TAKE p \in Pointers
    <3>1. data'[p] = Base(p, f) + 4 * k + 1
      BY <2>1, <2>5
    <3>2. Base(p, f) + 4 * k < end /\ Base(p, f) \in 0 .. 5
      BY <1>2, <2>4
    <3> DEFINE b == Base(p, f)
               d == data'[p]
    <3>3. d = b + 4 * k + 1 /\ b + 4 * k < end /\ b \in 0 .. 5 /\ k \in Nat /\ end \in Nat
      BY <1>1, <3>1, <3>2
    <3> HIDE DEF b, d, k
    <3>4. d = b + 4 * (k + 1) - 3 /\ d <= end
      BY <3>3
    <3> QED BY <2>6, <3>4 DEF b, d
  <2>11. pc' = "walk"
    BY <2>1 DEF Iterate
  <2>12. pc' \in {"start", "walk", "done"} /\ pc' # "start" /\ pc' # "done"
    BY <2>11
  <2>13. memory'.scans \in Nat \ {0}
    BY <1>1, <1>3
  <2> QED BY <1>3, <1>4, <2>6, <2>8, <2>9, <2>10, <2>12, <2>13 DEF Walked
<1> QED BY <1>7, <1>8

LEMMA WalkNext == WalkInv /\ [CalcNext]_walk => WalkInv'
<1> SUFFICES ASSUME WalkInv, [CalcNext]_walk PROVE WalkInv'
  OBVIOUS
<1>1. PICK f \in 0 .. 3 : Walked(f)
  BY DEF WalkInv
<1>2. Walked(f)'
  <2>1. CASE Threshold
    BY <1>1, <2>1, ThresholdStep
  <2>2. CASE Iterate
    BY <1>1, <2>2, IterateStep
  <2>3. CASE Finish
    <3>1. /\ pc' = "done" /\ crossCount' = Crossings
          /\ UNCHANGED <<memory, data, crossCount, used, read>>
      BY <2>3 DEF Finish
    <3>2. pc' \in {"start", "walk", "done"} /\ pc' # "start" /\ end' = end
          /\ Interleaved(memory, f)' /\ Interleaved(memory, f)
      BY <1>1, <3>1 DEF end, Interleaved, Walked
    <3> QED BY <1>1, <3>1, <3>2 DEF Walked
  <2>4. CASE UNCHANGED walk
    <3>1. UNCHANGED <<memory, pc, data, crossCount, used, read>> /\ end' = end
          /\ Interleaved(memory, f)' /\ Interleaved(memory, f)
      BY <1>1, <2>4 DEF walk, end, Interleaved, Walked
    <3> QED BY <1>1, <3>1 DEF Walked
  <2>5. Threshold \/ Iterate \/ Finish \/ UNCHANGED walk
    BY Zenon DEF CalcNext, Done
  <2> QED BY <2>1, <2>2, <2>3, <2>4, <2>5, Zenon
<1> QED BY <1>2 DEF WalkInv

\* The invariant of the walk holds in every reachable state.
THEOREM WalksInStep == CalcSpec => []WalkInv
<1> QED BY WalkInit, WalkNext, PTL DEF CalcSpec

\* The walk reads at most one result behind the frame and uses none, for every
\* length and contents of the frame and whatever is behind it.
THEOREM WalkStaysInFrame == CalcSpec => []StaysInFrame
<1>1. WalkInv => StaysInFrame
  BY DEF WalkInv, Walked, StaysInFrame
<1> QED BY <1>1, WalksInStep, PTL

\* A window that did not see all its crossings has used the frame but for its
\* last scan at most, for every length of the frame.
THEOREM WholeFrameIsUsed == CalcSpec => []WindowUsesFrame
<1>1. WalkInv => WindowUsesFrame
  <2> SUFFICES ASSUME WalkInv, pc = "done", crossCount < Crossings
               PROVE  Len(used) + 1 >= memory.scans
    BY DEF WindowUsesFrame, numberOfSamples
  <2>1. pc = "done" => crossCount = Crossings \/ Len(used) + 1 >= memory.scans
    BY Zenon DEF WalkInv, Walked
  <2>2. crossCount # Crossings
    BY CrossingsAssumption
  <2> QED BY <2>1, <2>2
<1> QED BY <1>1, WalksInStep, PTL

\* The addresses of a channel: the k-th of them is a scan behind the one before.
LEMMA SampleNumber ==
  ASSUME NEW f \in 0 .. 3, memory.scans \in Nat \ {0}, Interleaved(memory, f),
         NEW first \in 0 .. 3, NEW ch \in 0 .. 3, (first + f) % 4 = ch,
         NEW k \in Nat \ {0}, first + 4 * (k - 1) < end
  PROVE  IsSample(first + 4 * (k - 1), k, ch)
<1> DEFINE a == first + 4 * (k - 1)
           S == {b \in Addresses(ch) : b <= a}
           g == [j \in 1 .. k |-> first + 4 * (j - 1)]
<1>1. end \in Nat /\ \A b \in 0 .. end - 1 : memory.at[b].channel = (b + f) % 4
  BY DEF end, Interleaved
<1>2. \A j \in 1 .. k : first + 4 * (j - 1) \in S
  <2> TAKE j \in 1 .. k
  <2> DEFINE x == first + 4 * (j - 1)
  <2>1. x \in 0 .. end - 1 /\ x <= a
    BY <1>1
  <2>2. (x + f) % 4 = ch
    OBVIOUS
  <2> QED BY <1>1, <2>1, <2>2 DEF Addresses
<1>3. \A x \in S : \E j \in 1 .. k : x = first + 4 * (j - 1)
  <2> TAKE x \in S
  <2>1. x \in 0 .. end - 1 /\ x <= a /\ (x + f) % 4 = ch
    BY <1>1 DEF Addresses
  <2>2. x >= first
    <3> SUFFICES ASSUME x < first PROVE FALSE
      BY <2>1
    <3>1. x = first
      BY <2>1, SameChannel
    <3> QED BY <2>1, <3>1
  <2> DEFINE j == ((x - first) \div 4) + 1
  <2>3. x = first + 4 * (j - 1) /\ j \in 1 .. k
    BY <2>1, <2>2
  <2> QED BY <2>3
<1>4. a \in Addresses(ch)
  BY <1>2
<1>5. g \in Bijection(1 .. k, S)
  <2>1. g \in [1 .. k -> S]
    BY <1>2
  <2>2. \A i, j \in 1 .. k : g[i] = g[j] => i = j
    OBVIOUS
  <2>3. \A x \in S : \E j \in 1 .. k : g[j] = x
    BY <1>3
  <2> HIDE DEF g, S
  <2> QED BY <2>1, <2>2, <2>3, Fun_IsBij
<1>6. IsFiniteSet(1 .. k) /\ Cardinality(1 .. k) = k
  <2>1. 1 \in Int /\ k \in Int
    OBVIOUS
  <2>2. IsFiniteSet(1 .. k) /\ Cardinality(1 .. k) = IF 1 > k THEN 0 ELSE k - 1 + 1
    BY <2>1, FS_Interval
  <2> QED BY <2>2
<1>7. ExistsBijection(1 .. k, S)
  BY <1>5, Zenon DEF ExistsBijection
<1>8. Cardinality(S) = k
  <2> HIDE DEF S
  <2> QED BY <1>6, <1>7, FS_Bijection
<1> QED BY <1>4, <1>8 DEF IsSample

\* Samples are used in step, for every length of the frame and every channel it
\* begins with.
THEOREM SamplesAreInStep == CalcSpec => []SamplesInStep
<1>1. WalkInv => SamplesInStep
  <2> SUFFICES ASSUME WalkInv, NEW k \in DOMAIN used
               PROVE  /\ \A p \in {"v1", "i1", "i2", "i3"} : IsSample(used[k][p], k, channel[p])
                      /\ memory.at[0].channel = V =>
                           \A p \in {"v2", "v3"} : IsSample(used[k][p], k + 1, V)
    BY DEF SamplesInStep
  <2>1. PICK f \in 0 .. 3 : Walked(f)
    BY DEF WalkInv
  <2>2. memory.scans \in Nat \ {0} /\ Interleaved(memory, f) /\ k \in Nat \ {0}
    BY <2>1, LenProperties DEF Walked
  <2>3. \A p \in Pointers : used[k][p] = Base(p, f) + 4 * (k - 1) /\ used[k][p] < end
    BY <2>1 DEF Walked
  <2>4. ASSUME NEW p \in {"v1", "i1", "i2", "i3"}
        PROVE  IsSample(used[k][p], k, channel[p])
    <3>1. p \in Pointers
      BY DEF Pointers
    <3>2. Base(p, f) \in 0 .. 5 /\ Base(p, f) <= 3 /\ channel[p] \in 0 .. 3
          /\ (Base(p, f) + f) % 4 = channel[p]
      BY <3>1, Bases
    <3>3. Base(p, f) \in 0 .. 3
      BY <3>2
    <3> QED BY <2>2, <2>3, <3>1, <3>2, <3>3, SampleNumber
  <2>5. ASSUME memory.at[0].channel = V, NEW p \in {"v2", "v3"}
        PROVE  IsSample(used[k][p], k + 1, V)
    <3>1. f = 0
      <4>1. 0 \in 0 .. 4 * memory.scans - 1
        BY <2>2
      <4>2. memory.at[0].channel = (0 + f) % 4
        BY <2>2, <4>1 DEF Interleaved
      <4> QED BY <2>5, <4>2 DEF V
    <3>2. p \in Pointers /\ Base(p, f) = 4
      BY <3>1 DEF Base, Pointers, channel, phaseCal, V
    <3>3. used[k][p] = 0 + 4 * ((k + 1) - 1) /\ 0 + 4 * ((k + 1) - 1) < end
      BY <2>2, <2>3, <3>2
    <3>4. k + 1 \in Nat \ {0} /\ 0 \in 0 .. 3 /\ (0 + f) % 4 = V /\ V \in 0 .. 3
      BY <2>2, <3>1 DEF V
    <3>5. IsSample(0 + 4 * ((k + 1) - 1), k + 1, V)
      BY <2>2, <3>3, <3>4, SampleNumber
    <3> QED BY <3>3, <3>5
  <2> QED BY <2>4, <2>5
<1> QED BY <1>1, WalksInStep, PTL
==============================================================================
