---------------------------- MODULE MCGrowTransfer ----------------------------
(* Instances of GrowTransfer for TLC. *)
EXTENDS GrowTransfer

MCAddress == <<255, 255, 255, 255>>

\* The packet's checksum adds up its type, length and payload.
WithChecksum(payload) ==
  LET size == Len(payload) + 2
      sum  == FoldSeq(LAMBDA b, s : b + s, ACK + size, payload)
  IN  payload \o <<sum \div 256, sum % 256>>

\* An answer with a parameter.  Its code is small enough to be the length of a
\* part of it, if the low byte of the length is lost; and its last byte looks like
\* the first of a start code (7 + 4 + 2 + 226 = 239).
MCBodies == {WithChecksum(<<2, 226>>)}

ASSUME HeaderAssumption == HeaderOnlyInFront
ASSUME RestAssumption   == NoHeaderLeft
==============================================================================
