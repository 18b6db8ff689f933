----------------------------- MODULE GrowTransfer -----------------------------
(***************************************************************************)
(* FingerprintGrowComponent::transfer_, byte by byte: the drain of the      *)
(* receive buffer, the command, and the loop that parses the answer one     *)
(* byte or one millisecond at a time.                                       *)
(*                                                                          *)
(* The command's own bytes are not modelled.  The reader (external) puts an *)
(* answer frame on the wire, or none; the wire delivers it into the UART's  *)
(* receive buffer when it likes, so that an answer may come after the       *)
(* parser gave up, and may lose bytes.  A byte carries, as history, the     *)
(* number of the command it answers and its place in the frame.             *)
(***************************************************************************)
EXTENDS Naturals, SequencesExt

CONSTANTS
  Address,      \* address_: four bytes
  Polls,        \* iterations of the parsing loop: 1000
  Bodies,       \* what answers say after their length field: confirmation
                \* code, parameters, and a checksum that nobody verifies
  MaxCommands,  \* bound: commands sent
  MaxLost       \* bound: bytes lost on the wire

Byte    == 0 .. 255
Word    == 0 .. 256 * 256 - 1
TIMEOUT == 255
START   == <<239, 1>>   \* START_CODE 0xEF01
ACK     == 7

ASSUME AddressAssumption  == Address \in Seq(Byte) /\ Len(Address) = 4
ASSUME PollsAssumption    == Polls \in Nat
ASSUME BodiesAssumption   == \A b \in Bodies : b \in Seq(Byte) /\ Len(b) \in Word \ {0}
ASSUME MaxAssumption      == MaxCommands \in Nat /\ MaxLost \in Nat

VARIABLES
  wire,      \* bytes sent by the reader, not yet received
  rx,        \* the UART's receive buffer
  waiting,   \* transfer_ is in its loop
  idx, length, data, timer,  \* its locals; data is the caller's buffer
  response,  \* what it returned last
  sent,      \* commands sent
  lost,      \* bytes lost so far
  returned,  \* history: the answer that it returned last, or 0 if it gave up
  last,      \* history: the answer last returned, however long ago, or 0
  before,    \* history: answers unread when the command was sent
  expected   \* history: the reader answered it, on a line free of other bytes

locals  == <<idx, length, data, timer>>
history == <<returned, last, before, expected>>
vars    == <<wire, rx, waiting, locals, response, sent, lost, history>>

BytesOnLine == [value : Byte, answer : 1 .. MaxCommands, place : Nat \ {0}]

TypeOK ==
  /\ wire \in Seq(BytesOnLine) /\ rx \in Seq(BytesOnLine)
  /\ waiting \in BOOLEAN
  /\ idx \in 0 .. Polls
  /\ length \in Word
  /\ data \in Seq(BytesOnLine)
  /\ timer \in 0 .. Polls
  /\ response \in Byte
  /\ sent \in 0 .. MaxCommands
  /\ lost \in 0 .. MaxLost
  /\ returned \in 0 .. MaxCommands
  /\ last \in 0 .. MaxCommands
-----------------------------------------------------------------------------
(* The reader: an acknowledge packet is start code, address, packet type,   *)
(* length of the body, body.                                                *)

Header == START \o Address \o <<ACK>>

Packet(body) == Header \o <<Len(body) \div 256, Len(body) % 256>> \o body

Frame(body, n) ==
  [i \in 1 .. Len(body) + 9 |->
     [value |-> Packet(body)[i], answer |-> n, place |-> i]]

\* The answers that bytes of s belong to.
Numbers(s) == {s[i].answer : i \in DOMAIN s}

\* The answers of which bytes are still to come, and the one whose body is being
\* read.  What is left of an answer that was returned (it was cut short if the
\* low byte of its length was lost) is not an answer.
Pending ==
  LET BeingRead == IF waiting /\ data # <<>> THEN {data[1].answer} ELSE {}
  IN  {n \in Numbers(wire) \cup Numbers(rx) \cup BeingRead : n > last}

\* The numbers of S, the smaller first.
IsAscending(q, S) == Range(q) = S /\ \A i, j \in DOMAIN q : i < j => q[i] < q[j]
Ascending(S)      == CHOOSE q \in [1 .. Cardinality(S) -> S] : IsAscending(q, S)

\* The oldest answer first.
Unread == Ascending(Pending)
-----------------------------------------------------------------------------
Init ==
  /\ wire = <<>> /\ rx = <<>>
  /\ waiting = FALSE
  /\ idx = 0 /\ length = 0 /\ data = <<>> /\ timer = 0
  /\ response = TIMEOUT
  /\ sent = 0
  /\ lost = 0
  /\ returned = 0 /\ last = 0 /\ before = <<>> /\ expected = FALSE

\* (mutants of ResetLocals)
ResetKeepsBuffer == idx' = 0 /\ length' = 0 /\ timer' = 0 /\ UNCHANGED data
ResumeLocals     == timer' = 0 /\ UNCHANGED <<idx, length, data>>

\* The caller's buffer is cleared and the locals are initialised.
ResetLocals == idx' = 0 /\ length' = 0 /\ data' = <<>> /\ timer' = 0

\* The drain, the write of the command, and the start of the loop.
Command ==
  /\ ~waiting /\ sent < MaxCommands
  /\ waiting' = TRUE
  /\ rx' = <<>>
  /\ sent' = sent + 1
  /\ ResetLocals
  /\ \/ UNCHANGED wire /\ expected' = FALSE
     \/ /\ \E b \in Bodies : wire' = wire \o Frame(b, sent + 1)
        /\ expected' = (wire = <<>>)
  /\ before' = Unread
  /\ UNCHANGED <<response, lost, returned, last>>

\* (mutants of Delay: the loop runs once too often, or does not count)
DelayOnceMore ==
  /\ waiting /\ timer <= Polls /\ rx = <<>>
  /\ timer' = timer + 1
  /\ UNCHANGED <<wire, rx, waiting, idx, length, data, response, sent, lost, history>>
DelayForever ==
  /\ waiting /\ timer < Polls /\ rx = <<>>
  /\ UNCHANGED vars

\* No byte available: delay(1).
Delay ==
  /\ waiting /\ timer < Polls /\ rx = <<>>
  /\ timer' = timer + 1
  /\ UNCHANGED <<wire, rx, waiting, idx, length, data, response, sent, lost, history>>

\* (mutant of Mismatch: the packet type of a command is expected)
MismatchCommand(b) == idx < 7 /\ b # IF idx = 6 THEN 1 ELSE Header[idx + 1]

\* A byte that does not continue the header (places 0 to 6) restarts the
\* search for one; it is not itself considered as the first byte of a frame.
Mismatch(b) == idx < 7 /\ b # Header[idx + 1]

\* (mutant of Complete: one byte later)
CompleteLater == idx - 9 = length

\* The data is complete: the packet length counts payload and checksum.
Complete == idx - 8 = length

ReadByte ==
  LET b == Head(rx) IN
  /\ waiting /\ timer < Polls /\ rx # <<>>
  /\ rx' = Tail(rx)
  /\ timer' = timer + 1
  /\ length' = CASE ~Mismatch(b.value) /\ idx = 7 -> 256 * b.value
                 [] ~Mismatch(b.value) /\ idx = 8 -> length + b.value
                 [] OTHER                         -> length
  /\ data' = IF idx >= 9 THEN Append(data, b) ELSE data
  /\ IF idx >= 9 /\ Complete
       THEN /\ waiting' = FALSE
            /\ response' = data'[1].value
            /\ returned' = data'[1].answer
            /\ last' = returned'
            /\ UNCHANGED idx
       ELSE /\ idx' = IF Mismatch(b.value) THEN 0 ELSE idx + 1
            /\ UNCHANGED <<waiting, response, returned, last>>
  /\ UNCHANGED <<wire, sent, lost, before, expected>>

\* The loop is over: TIMEOUT is stored in the first place of the buffer, over
\* what a partial answer put there (an empty vector keeps its length).
Expire ==
  /\ waiting /\ timer = Polls
  /\ waiting' = FALSE
  /\ response' = TIMEOUT
  /\ returned' = 0
  /\ data' = [i \in DOMAIN data |->
                IF i = 1 THEN [data[i] EXCEPT !.value = TIMEOUT] ELSE data[i]]
  /\ UNCHANGED <<wire, rx, idx, length, timer, sent, lost, last, before, expected>>
-----------------------------------------------------------------------------
(* The wire. *)

Deliver ==
  /\ wire # <<>>
  /\ rx' = Append(rx, Head(wire))
  /\ wire' = Tail(wire)
  /\ UNCHANGED <<waiting, locals, response, sent, lost, history>>

Lose ==
  /\ wire # <<>> /\ lost < MaxLost
  /\ lost' = lost + 1
  /\ wire' = Tail(wire)
  /\ UNCHANGED <<rx, waiting, locals, response, sent, history>>

Parse == Delay \/ ReadByte \/ Expire
Next  == Command \/ Parse \/ Deliver \/ Lose

Spec == Init /\ [][Next]_vars
\* The loop runs on the main loop's thread without waiting for anyone.
FairSpec == Spec /\ WF_vars(Parse)
-----------------------------------------------------------------------------
(* Properties *)

Returning == waiting /\ ~waiting'

\* What the caller finds in its buffer after an answer is as long as the
\* packet's length field says, whatever the line did: callers index it.
ReturnedLength == ~waiting /\ returned # 0 => Len(data) = length

\* No body holds a header, nor begins one that the next packet's completes.
\* The protocol escapes nothing: this is up to what the reader answers.
HeaderOnlyInFront ==
  \A body \in Bodies : \A p \in 2 .. Len(body) + 9 :
    \E i \in 1 .. 7 : (Packet(body) \o Header)[p + i - 1] # Header[i]

\* On a line that loses nothing, the buffer holds the body of one answer,
\* in order, even when the parser started in the middle of an earlier one
\* (no checksum is ever verified), if headers occur only in front.
WholeAnswer ==
  ~waiting /\ returned # 0 /\ lost = 0 =>
    \A i \in DOMAIN data : data[i].answer = returned /\ data[i].place = i + 9

\* On a line free of other bytes, the parser does not give up on an answer
\* of which it has read every byte.
AnswerRecognised ==
  [][Returning /\ returned' = 0 /\ expected /\ lost = 0 => rx \o wire # <<>>]_vars

\* transfer_ returns, whether or not the reader ever answers.
TransferReturns == waiting ~> ~waiting

\* However bytes are lost, no header is left behind the first byte of a packet.
\* This, too, is up to what the reader answers.
NoHeaderLeft ==
  \A body \in Bodies : \A S \in SUBSET (2 .. Len(body) + 9) :
    Cardinality(S) = 7 =>
      \E p \in S : Packet(body)[p] # Header[Cardinality({q \in S : q <= p})]

\* transfer_ implements the abstract link: answers are returned in the order of
\* their commands and at most once, also when bytes are lost on the wire, if
\* what is left of an answer cannot be taken for another.
Link == INSTANCE GrowLink WITH
  unread <- Unread, response <- returned
ImplementsLink == Link!Spec

\* On a line that loses nothing, each exchange is one of the outcomes that the
\* model of the component gives to send_command_: whatever is late, it has seen
\* all that can happen.  In particular an answer is taken for that of another
\* command only if older answers were unread when the command was sent.
ExchangeIsOutcome ==
  [][Returning /\ lost = 0 =>
       [response |-> returned', unread |-> Unread']
         \in Link!Outcomes(before, {sent}, 0)]_vars
==============================================================================
