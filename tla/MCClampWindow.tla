---------------------------- MODULE MCClampWindow ----------------------------
(* The instance of ClampWindow for TLC: frames of up to four scans that begin *)
(* with any channel, with voltages of two levels, and any channel in each of  *)
(* the two results behind the frame.                                          *)
EXTENDS ClampWindow

Frame(scans, first, levels, behind) ==
  [scans |-> scans,
   at |-> [a \in 0 .. 4 * scans + 1 |->
     IF a >= 4 * scans
       THEN [channel |-> behind[a - 4 * scans + 1], data |-> 0]
       ELSE [channel |-> (a + first) % 4, data |-> levels[a \div 4 + 1]]]]

MCMemories ==
  UNION {{Frame(n, first, levels, behind) :
            first \in 0 .. 3, levels \in [1 .. n -> {0, 1}],
            behind \in [1 .. 2 -> 0 .. 3]} : n \in 1 .. 4}
==============================================================================
