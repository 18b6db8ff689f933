----------------------------- MODULE ClampWindow -----------------------------
(***************************************************************************)
(* calcIV of clamp: a walk through one frame of interleaved samples with    *)
(* six pointers, three for the voltage (of three phases, from one channel)  *)
(* and three for the currents.  Each iteration advances every pointer to    *)
(* the next sample of its channel and uses the six samples; the walk ends   *)
(* at the end of the frame or after so many threshold crossings.            *)
(*                                                                          *)
(* A result is its channel and its data; addresses are indices from 0, and  *)
(* memory goes on behind the frame with whatever is there.  The filters and *)
(* sums are left out: what is followed is which samples go into them.       *)
(***************************************************************************)
EXTENDS Integers, SequencesExt, FiniteSetsExt

CONSTANTS
  Crossings,   \* crossings: 20
  Memories     \* contents of the buffer and what follows: functions on 0 .. n

V  == 0                    \* channel[0]; the currents have 1, 2 and 3
Pointers == {"v1", "v2", "v3", "i1", "i2", "i3"}
channel  == [v1 |-> V, v2 |-> V, v3 |-> V, i1 |-> 1, i2 |-> 2, i3 |-> 3]
\* (mutant of phaseCal: the three voltages are one)
phaseNone == [p \in Pointers |-> 0]

phaseCal == [v1 |-> 0, v2 |-> 1, v3 |-> 2, i1 |-> 0, i2 |-> 0, i3 |-> 0]
nullptr  == -1

ASSUME CrossingsAssumption == Crossings \in Nat \ {0}
\* The converter samples the channels of its pattern in turn (pattern_num is 4);
\* a frame begins with any of them.
Interleaved(m, first) ==
  \A a \in 0 .. 4 * m.scans - 1 : m.at[a].channel = (a + first) % 4

ASSUME MemoriesAssumption  ==
  \A m \in Memories : m.scans \in Nat \ {0} /\ \E first \in 0 .. 3 : Interleaved(m, first)

VARIABLES
  memory,       \* [scans, at]: the frame has 4 * scans results
  pc,           \* "start", "walk" or "done"
  data,         \* the pointers
  startV,
  checkVCross,
  crossCount,
  used,         \* per iteration, the addresses of the samples used
  read          \* history: the highest address dereferenced, or -1

walk == <<memory, pc, data, startV, checkVCross, crossCount, used, read>>

end == 4 * memory.scans
numberOfSamples == Len(used)

CalcInit ==
  /\ memory \in Memories
  /\ pc = "start"
  /\ data = phaseCal
  /\ startV = 0
  /\ checkVCross = FALSE
  /\ crossCount = 0
  /\ used = <<>>
  /\ read = -1
-----------------------------------------------------------------------------
\* (mutant of getNext: data may reach the end)
getNextToEnd(from, ch) ==
  LET matches == {a \in from .. end : memory.at[a].channel = ch}
  IN  IF matches = {} THEN nullptr ELSE Min(matches)

\* (mutant of getNext: data is advanced before it is compared)
getNextAfter(from, ch) ==
  LET matches == {a \in from + 1 .. end - 1 : memory.at[a].channel = ch}
  IN  IF matches = {} THEN nullptr ELSE Min(matches)

\* getNext: the first result of the channel from this address on.  The first
\* address is dereferenced before it is compared with the end.
getNext(from, ch) ==
  LET matches == {a \in {from} \cup from .. end - 1 : memory.at[a].channel = ch}
  IN  IF matches = {} THEN nullptr ELSE Min(matches)

\* The highest address that getNext dereferences.
LastRead(from, ch) ==
  LET found == getNext(from, ch)
  IN  IF found = nullptr THEN Max({from, end - 1}) ELSE found

\* The threshold is the first voltage sample.
Threshold ==
  LET first == getNext(data["v1"], V) IN
  /\ pc = "start" /\ first # nullptr
  /\ pc' = "walk"
  /\ data' = [data EXCEPT !["v1"] = first]
  /\ startV' = memory.at[first].data
  /\ read' = Max({read, LastRead(data["v1"], V)})
  /\ UNCHANGED <<memory, checkVCross, crossCount, used>>

\* One iteration: all six pointers are advanced before they are looked at.
Iterate ==
  LET next  == [p \in Pointers |-> getNext(data[p], channel[p])]
      above == memory.at[next["v1"]].data > startV
  IN
  /\ pc = "walk" /\ crossCount < Crossings
  /\ read' = Max({read} \cup {LastRead(data[p], channel[p]) : p \in Pointers})
  /\ IF nullptr \in Range(next)
       THEN /\ pc' = "done"
            /\ UNCHANGED <<data, checkVCross, crossCount, used>>
       ELSE /\ data' = [p \in Pointers |-> next[p] + 1]
            /\ used' = Append(used, next)
            /\ checkVCross' = above
            /\ crossCount' = crossCount +
                 (IF used # <<>> /\ above # checkVCross THEN 1 ELSE 0)
            /\ UNCHANGED pc
  /\ UNCHANGED <<memory, startV>>

Finish ==
  /\ pc = "walk" /\ crossCount = Crossings
  /\ pc' = "done"
  /\ UNCHANGED <<memory, data, startV, checkVCross, crossCount, used, read>>

\* The window has been computed.
Done == pc = "done" /\ UNCHANGED walk

CalcNext == Threshold \/ Iterate \/ Finish \/ Done

CalcSpec == CalcInit /\ [][CalcNext]_walk
-----------------------------------------------------------------------------
(* Properties *)

Addresses(ch) == {a \in 0 .. end - 1 : memory.at[a].channel = ch}
\* a holds the k-th sample of a channel in the frame.
IsSample(a, k, ch) ==
  a \in Addresses(ch) /\ Cardinality({b \in Addresses(ch) : b <= a}) = k

\* Whatever memory holds behind the frame, the walk reads at most one result
\* of it, and uses none: the end is only compared with after a mismatch, yet
\* of the six pointers one always finds it in time.
StaysInFrame ==
  /\ read <= end
  /\ \A k \in DOMAIN used : \A p \in Pointers : used[k][p] < end

\* Samples are used in step: the k-th iteration uses the k-th sample of the
\* first voltage and of each current, and, in a frame that begins with the
\* voltage, the voltage one scan later for the two other phases.
SamplesInStep ==
  \A k \in DOMAIN used :
    /\ \A p \in {"v1", "i1", "i2", "i3"} : IsSample(used[k][p], k, channel[p])
    /\ memory.at[0].channel = V =>
         \A p \in {"v2", "v3"} : IsSample(used[k][p], k + 1, V)

\* A window without its crossings has used the whole frame but for its last
\* scan at most: no pointer runs ahead of the others and ends the walk early.
\* Hence the powers are means of at least one sample, not zero divided by
\* zero, for any frame of two scans or more.
WindowUsesFrame ==
  pc = "done" /\ crossCount < Crossings => numberOfSamples + 1 >= memory.scans
==============================================================================
