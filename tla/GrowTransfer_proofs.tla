-------------------------- MODULE GrowTransfer_proofs --------------------------
(***************************************************************************)
(* Proofs about GrowTransfer, for every address, every set of bodies, and   *)
(* every number of polls, commands and lost bytes.                          *)
(***************************************************************************)
EXTENDS GrowTransfer, SequenceTheorems, FiniteSetTheorems, WellFoundedInduction, TLAPS

(***************************************************************************)
(* Packets                                                                  *)
(***************************************************************************)

\* A word is split in two bytes and put together again.
LEMMA TwoBytes ==
  ASSUME NEW n \in Word
  PROVE  /\ n \in Nat
         /\ n \div 256 \in Byte /\ n % 256 \in Byte
         /\ 256 * (n \div 256) + (n % 256) = n
<1>1. n \in Nat /\ n < 65536
  BY DEF Word
<1> QED BY <1>1 DEF Byte

LEMMA WordOfBytes ==
  ASSUME NEW high \in Byte, NEW low \in Byte
  PROVE  256 * high \in Word /\ 256 * high + low \in Word
<1>1. high \in Nat /\ high < 256 /\ low \in Nat /\ low < 256
  BY DEF Byte
<1>2. 256 * high + low \in Nat /\ 256 * high + low <= 65535
  BY <1>1
<1>3. 256 * high \in Nat /\ 256 * high <= 65535
  BY <1>1
<1> DEFINE top == 256 * 256 - 1
<1>4. top = 65535
  OBVIOUS
<1> HIDE DEF top
<1>5. top \in Nat /\ 256 * high + low <= top /\ 256 * high <= top
  BY <1>2, <1>3, <1>4
<1>6. 256 * high + low \in 0 .. top /\ 256 * high \in 0 .. top
  BY <1>2, <1>3, <1>5
<1> QED BY <1>6, Zenon DEF Word, top

LEMMA ZeroIsWord == 0 \in Word
  BY DEF Word

\* A header is seven bytes.
LEMMA HeaderTypes == Header \in Seq(Byte) /\ Len(Header) = 7
<1>1. START \in Seq(Byte) /\ Len(START) = 2
  BY DEF START, Byte
<1>2. <<ACK>> \in Seq(Byte) /\ Len(<<ACK>>) = 1
  BY DEF ACK, Byte
<1>3. /\ START \o Address \in Seq(Byte)
      /\ Len(START \o Address) = Len(START) + Len(Address)
  BY <1>1, AddressAssumption, ConcatProperties, Zenon
<1>4. /\ START \o Address \o <<ACK>> \in Seq(Byte)
      /\ Len(START \o Address \o <<ACK>>) = Len(START \o Address) + Len(<<ACK>>)
  BY <1>2, <1>3, ConcatProperties, Zenon
<1> QED BY <1>1, <1>2, <1>3, <1>4, AddressAssumption DEF Header

\* A packet is its header, the length of its body in two bytes, and its body.
LEMMA PacketProperties ==
  ASSUME NEW body \in Bodies
  PROVE  /\ body \in Seq(Byte) /\ Len(body) \in Word \ {0}
         /\ Packet(body) \in Seq(Byte)
         /\ Len(Packet(body)) = Len(body) + 9
         /\ \A i \in 1 .. 7 : Packet(body)[i] = Header[i]
         /\ 256 * Packet(body)[8] + Packet(body)[9] = Len(body)
<1> DEFINE size  == <<Len(body) \div 256, Len(body) % 256>>
           front == Header \o size
<1>1. body \in Seq(Byte) /\ Len(body) \in Word \ {0}
  BY BodiesAssumption
<1>0. Len(body) \in Nat /\ Len(body) \in Word
  BY <1>1, TwoBytes
<1>2. Len(body) \div 256 \in Byte /\ Len(body) % 256 \in Byte
      /\ 256 * (Len(body) \div 256) + (Len(body) % 256) = Len(body)
  BY <1>0, TwoBytes
<1>3. size \in Seq(Byte) /\ Len(size) = 2
      /\ size[1] = Len(body) \div 256 /\ size[2] = Len(body) % 256
  BY <1>2
<1> HIDE DEF size
<1>4. /\ front \in Seq(Byte)
      /\ Len(front) = 9
      /\ \A i \in 1 .. 9 : front[i] = IF i <= 7 THEN Header[i] ELSE size[i - 7]
  <2>1. /\ front \in Seq(Byte)
        /\ Len(front) = Len(Header) + Len(size)
        /\ \A i \in 1 .. Len(Header) + Len(size) :
             front[i] = IF i <= Len(Header) THEN Header[i] ELSE size[i - Len(Header)]
    BY <1>3, HeaderTypes, ConcatProperties, Zenon
  <2> HIDE DEF front
  <2> QED BY <1>3, <2>1, HeaderTypes
<1>5. Packet(body) = front \o body
  BY DEF Packet, size
<1> HIDE DEF front
<1>6. /\ front \o body \in Seq(Byte)
      /\ Len(front \o body) = Len(front) + Len(body)
      /\ \A i \in 1 .. Len(front) + Len(body) :
           (front \o body)[i] = IF i <= Len(front) THEN front[i] ELSE body[i - Len(front)]
  BY <1>1, <1>4, ConcatProperties, Zenon
<1>7. \A i \in 1 .. 9 : Packet(body)[i] = front[i]
  BY <1>0, <1>4, <1>5, <1>6
<1>8. Packet(body)[8] = size[1] /\ Packet(body)[9] = size[2]
  BY <1>4, <1>7
<1>9. \A i \in 1 .. 7 : Packet(body)[i] = Header[i]
  BY <1>4, <1>7
<1> QED BY <1>0, <1>1, <1>2, <1>3, <1>4, <1>5, <1>6, <1>8, <1>9

LEMMA BodySize ==
  ASSUME NEW body \in Bodies
  PROVE  Len(body) \in Nat /\ Len(body) > 0
<1>1. Len(body) \in Nat /\ Len(body) # 0
  BY PacketProperties, TwoBytes
<1> QED BY <1>1

\* What the reader puts on the line.
LEMMA FrameProperties ==
  ASSUME NEW body \in Bodies, NEW n \in 1 .. MaxCommands
  PROVE  /\ Frame(body, n) \in Seq(BytesOnLine)
         /\ Len(Frame(body, n)) = Len(body) + 9
         /\ \A i \in 1 .. Len(body) + 9 :
              /\ Frame(body, n)[i].value = Packet(body)[i]
              /\ Frame(body, n)[i].answer = n
              /\ Frame(body, n)[i].place = i
<1>1. Len(body) + 9 \in Nat
  BY PacketProperties
<1>2. ASSUME NEW i \in 1 .. Len(body) + 9
      PROVE  [value |-> Packet(body)[i], answer |-> n, place |-> i] \in BytesOnLine
  <2>1. Packet(body)[i] \in Byte
    BY PacketProperties, ElementOfSeq
  <2> QED BY <1>1, <2>1 DEF BytesOnLine
<1>3. Frame(body, n) \in [1 .. Len(body) + 9 -> BytesOnLine]
  BY <1>2 DEF Frame
<1>4. Frame(body, n) \in Seq(BytesOnLine) /\ Len(Frame(body, n)) = Len(body) + 9
  BY <1>1, <1>3
<1>5. ASSUME NEW i \in 1 .. Len(body) + 9
      PROVE  Frame(body, n)[i] = [value |-> Packet(body)[i], answer |-> n, place |-> i]
  BY DEF Frame
<1> QED BY <1>4, <1>5

(***************************************************************************)
(* Types, and the length of what is returned                                *)
(***************************************************************************)

\* idx counts iterations that read a byte, and data the bytes of the body; the
\* high byte of the length is read first.
Counted ==
  waiting => /\ idx <= timer
             /\ idx < 9 => data = <<>>
             /\ idx >= 9 => Len(data) = idx - 9
             /\ idx = 8 => \E high \in Byte : length = 256 * high

TInv == TypeOK /\ Counted /\ ReturnedLength

\* All of the state but what the line and the histories of its bytes say.
LEMMA InitTypes == Init => TInv
<1> SUFFICES ASSUME Init PROVE TInv
  OBVIOUS
<1>1. TypeOK
  <2>1. wire \in Seq(BytesOnLine) /\ rx \in Seq(BytesOnLine) /\ data \in Seq(BytesOnLine)
    BY DEF Init
  <2>2. waiting \in BOOLEAN
    BY DEF Init
  <2>3. /\ idx \in 0 .. Polls /\ timer \in 0 .. Polls
        /\ sent \in 0 .. MaxCommands /\ lost \in 0 .. MaxLost /\ returned \in 0 .. MaxCommands
        /\ last \in 0 .. MaxCommands
    BY PollsAssumption, MaxAssumption DEF Init
  <2>4. length \in Word /\ response \in Byte
    BY ZeroIsWord DEF Init, Byte, TIMEOUT
  <2> QED BY <2>1, <2>2, <2>3, <2>4, Zenon DEF TypeOK
<1>2. Counted /\ ReturnedLength
  BY DEF Init, Counted, ReturnedLength
<1> QED BY <1>1, <1>2 DEF TInv

LEMMA CommandTypes == TInv /\ Command => TInv'
<1> SUFFICES ASSUME TInv, Command PROVE TInv'
  OBVIOUS
<1> USE DEF TInv, TypeOK
<1>1. sent' \in 1 .. MaxCommands /\ sent' = sent + 1
  BY MaxAssumption DEF Command
<1>2. wire' \in Seq(BytesOnLine)
  <2>1. CASE \E b \in Bodies : wire' = wire \o Frame(b, sent + 1)
    <3>1. PICK b \in Bodies : wire' = wire \o Frame(b, sent + 1)
      BY <2>1
    <3>2. Frame(b, sent + 1) \in Seq(BytesOnLine)
      BY <1>1, FrameProperties
    <3> QED BY <3>1, <3>2, ConcatProperties
  <2> QED BY <2>1 DEF Command
<1>3. /\ idx' = 0 /\ length' = 0 /\ data' = <<>> /\ timer' = 0
      /\ waiting' /\ rx' = <<>> /\ response' = response
      /\ lost' = lost /\ returned' = returned /\ last' = last
  BY DEF Command, ResetLocals
<1>4. TypeOK'
  <2>1. /\ idx' \in 0 .. Polls /\ timer' \in 0 .. Polls /\ sent' \in 0 .. MaxCommands
        /\ rx' \in Seq(BytesOnLine) /\ data' \in Seq(BytesOnLine)
    BY <1>1, <1>3, PollsAssumption, MaxAssumption
  <2>2. waiting' \in BOOLEAN
    BY <1>3
  <2>3. length' \in Word
    BY <1>3, ZeroIsWord
  <2> QED BY <1>2, <1>3, <2>1, <2>2, <2>3, Zenon
<1>5. Counted' /\ ReturnedLength'
  BY <1>3 DEF Counted, ReturnedLength
<1> QED BY <1>4, <1>5

LEMMA DelayTypes == TInv /\ Delay => TInv'
  BY PollsAssumption DEF TInv, TypeOK, Delay, Counted, ReturnedLength, history

LEMMA DeliverTypes == TInv /\ Deliver => TInv'
<1> SUFFICES ASSUME TInv, Deliver PROVE TInv'
  OBVIOUS
<1>1. Head(wire) \in BytesOnLine /\ Tail(wire) \in Seq(BytesOnLine)
  BY HeadTailProperties DEF Deliver, TInv, TypeOK
<1>2. rx' \in Seq(BytesOnLine) /\ wire' \in Seq(BytesOnLine)
  BY <1>1 DEF Deliver, TInv, TypeOK
<1> QED BY <1>2 DEF Deliver, TInv, TypeOK, Counted, ReturnedLength, locals, history

LEMMA LoseTypes == TInv /\ Lose => TInv'
<1> SUFFICES ASSUME TInv, Lose PROVE TInv'
  OBVIOUS
<1>1. wire' \in Seq(BytesOnLine)
  BY HeadTailProperties DEF Lose, TInv, TypeOK
<1>2. lost' \in 0 .. MaxLost
  BY MaxAssumption DEF Lose, TInv, TypeOK
<1> QED BY <1>1, <1>2 DEF Lose, TInv, TypeOK, Counted, ReturnedLength, locals, history

LEMMA ExpireTypes == TInv /\ Expire => TInv'
<1> SUFFICES ASSUME TInv, Expire PROVE TInv'
  OBVIOUS
<1>1. data' \in Seq(BytesOnLine)
  <2>1. data \in [1 .. Len(data) -> BytesOnLine] /\ Len(data) \in Nat
    BY LenProperties DEF TInv, TypeOK
  <2>2. \A i \in 1 .. Len(data) : [data[i] EXCEPT !.value = TIMEOUT] \in BytesOnLine
    BY <2>1 DEF BytesOnLine, TIMEOUT, Byte
  <2>3. data' \in [1 .. Len(data) -> BytesOnLine]
    BY <2>1, <2>2 DEF Expire
  <2> QED BY <2>1, <2>3
<1>2. /\ ~waiting' /\ returned' = 0 /\ response' \in Byte
      /\ UNCHANGED <<wire, rx, idx, length, timer, sent, lost, last>>
  BY DEF Expire, TIMEOUT, Byte
<1>3. returned' \in 0 .. MaxCommands
  BY <1>2, MaxAssumption
<1>4. waiting' \in BOOLEAN
  BY DEF Expire
<1>5. TypeOK'
  BY <1>1, <1>2, <1>3, <1>4, Zenon DEF TInv, TypeOK
<1>6. Counted' /\ ReturnedLength'
  BY <1>2 DEF Counted, ReturnedLength
<1> QED BY <1>5, <1>6 DEF TInv

LEMMA ReadByteTypes == TInv /\ ReadByte => TInv'
<1> SUFFICES ASSUME TInv, ReadByte PROVE TInv'
  OBVIOUS
<1> DEFINE b == Head(rx)
<1>1. b \in BytesOnLine /\ b.value \in Byte /\ Tail(rx) \in Seq(BytesOnLine)
  <2>1. rx \in Seq(BytesOnLine) /\ rx # <<>>
    BY DEF ReadByte, TInv, TypeOK
  <2>2. b \in BytesOnLine /\ Tail(rx) \in Seq(BytesOnLine)
    BY <2>1, HeadTailProperties, Zenon
  <2> QED BY <2>2 DEF BytesOnLine
<1> HIDE DEF b
<1>2. /\ waiting /\ timer < Polls /\ idx <= timer
      /\ timer' = timer + 1 /\ timer \in Nat /\ idx \in Nat
  BY PollsAssumption DEF ReadByte, TInv, TypeOK, Counted
<1>3. data' \in Seq(BytesOnLine)
  BY <1>1 DEF ReadByte, TInv, TypeOK, b
<1>4. length' \in Word
  <2>1. CASE ~Mismatch(b.value) /\ idx = 7
    <3>1. length' = 256 * b.value
      BY <2>1 DEF ReadByte, b
    <3> QED BY <1>1, <3>1, WordOfBytes
  <2>2. CASE ~Mismatch(b.value) /\ idx = 8
    <3>1. length' = length + b.value
      BY <2>2 DEF ReadByte, b
    <3>2. PICK high \in Byte : length = 256 * high
      BY <1>2, <2>2 DEF TInv, Counted
    <3> QED BY <1>1, <3>1, <3>2, WordOfBytes
  <2>3. CASE ~(~Mismatch(b.value) /\ idx = 7) /\ ~(~Mismatch(b.value) /\ idx = 8)
    <3>1. length' = length
      BY <2>3 DEF ReadByte, b
    <3> QED BY <3>1 DEF TInv, TypeOK
  <2> QED BY <2>1, <2>2, <2>3
<1>5. CASE idx >= 9 /\ Complete
  <2>1. /\ ~waiting' /\ idx' = idx /\ data' = Append(data, b) /\ length' = length
        /\ response' = data'[1].value /\ returned' = data'[1].answer /\ last' = returned'
    BY <1>2, <1>5 DEF ReadByte, b
  <2>2. Len(data') = Len(data) + 1 /\ Len(data) = idx - 9
    BY <1>1, <1>2, <1>5, <2>1, AppendProperties DEF TInv, TypeOK, Counted
  <2>3. data'[1] \in BytesOnLine
    BY <1>2, <1>3, <1>5, <2>2, ElementOfSeq
  <2>4. response' \in Byte /\ returned' \in 0 .. MaxCommands /\ last' \in 0 .. MaxCommands
    BY <2>1, <2>3, MaxAssumption DEF BytesOnLine
  <2>5. Len(data') = length'
    BY <1>2, <1>5, <2>1, <2>2 DEF Complete
  <2>6. TypeOK'
    <3>1. timer' \in 0 .. Polls /\ idx' \in 0 .. Polls
      BY <1>2, <2>1, PollsAssumption
    <3>2. waiting' \in BOOLEAN
      BY <1>5 DEF ReadByte
    <3>3. rx' \in Seq(BytesOnLine) /\ UNCHANGED <<wire, sent, lost>>
      BY <1>1 DEF ReadByte
    <3> QED BY <1>3, <1>4, <2>4, <3>1, <3>2, <3>3, Zenon DEF TInv, TypeOK
  <2> QED BY <2>1, <2>5, <2>6 DEF TInv, Counted, ReturnedLength
<1>6. CASE ~(idx >= 9 /\ Complete)
  <2>1. /\ waiting' /\ UNCHANGED <<response, returned, last>>
        /\ idx' = IF Mismatch(b.value) THEN 0 ELSE idx + 1
        /\ data' = IF idx >= 9 THEN Append(data, b) ELSE data
    BY <1>2, <1>6 DEF ReadByte, b
  <2>2. idx' \in 0 .. Polls /\ idx' <= timer'
    BY <1>2, <2>1, PollsAssumption
  <2>3. TypeOK'
    BY <1>1, <1>2, <1>3, <1>4, <2>1, <2>2, PollsAssumption DEF TInv, TypeOK, ReadByte, b
  <2>4. idx' = 8 => \E high \in Byte : length' = 256 * high
    <3>1. CASE idx' = 8
      <4>1. idx = 7 /\ ~Mismatch(b.value)
        BY <1>2, <2>1, <3>1
      <4>2. length' = 256 * b.value
        BY <4>1 DEF ReadByte, b
      <4> QED BY <1>1, <4>2
    <3> QED BY <3>1
  <2>5. (idx' < 9 => data' = <<>>) /\ (idx' >= 9 => Len(data') = idx' - 9)
    <3>1. CASE idx < 9
      <4>1. data = <<>> /\ data' = <<>> /\ Len(data') = 0
        BY <1>2, <2>1, <3>1 DEF TInv, Counted
      <4> QED BY <1>2, <2>1, <3>1, <4>1
    <3>2. CASE idx >= 9
      <4>1. ~Mismatch(b.value)
        BY <1>2, <3>2 DEF Mismatch
      <4>2. Len(data) = idx - 9 /\ data' = Append(data, b)
        BY <1>2, <2>1, <3>2 DEF TInv, Counted
      <4>3. Len(data') = Len(data) + 1
        BY <1>1, <4>2, AppendProperties DEF TInv, TypeOK
      <4> QED BY <1>2, <2>1, <3>2, <4>1, <4>2, <4>3
    <3> QED BY <1>2, <3>1, <3>2
  <2>6. Counted'
    BY <2>1, <2>2, <2>4, <2>5 DEF Counted
  <2>7. ReturnedLength'
    BY <2>1 DEF ReturnedLength
  <2> QED BY <2>3, <2>6, <2>7 DEF TInv
<1> QED BY <1>5, <1>6

LEMMA NextTypes == TInv /\ [Next]_vars => TInv'
<1> SUFFICES ASSUME TInv, [Next]_vars PROVE TInv'
  OBVIOUS
<1>1. CASE Command BY <1>1, CommandTypes
<1>2. CASE Delay BY <1>2, DelayTypes
<1>3. CASE ReadByte BY <1>3, ReadByteTypes
<1>4. CASE Expire BY <1>4, ExpireTypes
<1>5. CASE Deliver BY <1>5, DeliverTypes
<1>6. CASE Lose BY <1>6, LoseTypes
<1>7. CASE UNCHANGED vars
  BY <1>7 DEF TInv, TypeOK, Counted, ReturnedLength, vars, locals, history
<1> QED BY <1>1, <1>2, <1>3, <1>4, <1>5, <1>6, <1>7 DEF Next, Parse

\* transfer_'s locals, the line and the histories keep their types.
THEOREM TypeCorrect == Spec => []TypeOK
<1>1. TInv => TypeOK
  BY DEF TInv
<1> QED BY <1>1, InitTypes, NextTypes, PTL DEF Spec

\* The answer that transfer_ returns has the length that its packet announces,
\* whatever was lost on the line.
THEOREM LengthIsReturned == Spec => []ReturnedLength
<1>1. TInv => ReturnedLength
  BY DEF TInv
<1> QED BY <1>1, InitTypes, NextTypes, PTL DEF Spec

(***************************************************************************)
(* The line                                                                 *)
(***************************************************************************)

\* What the parser has not read, in the order in which it will.
Line == rx \o wire

\* The body of each answer; none for those that are not given.
Texts == [1 .. MaxCommands -> Bodies \cup {<<>>}]

\* x is a byte of one of the first n answers, the last of it, before byte y.
Carries(x, B, n) ==
  /\ x.answer <= n /\ B[x.answer] \in Bodies
  /\ x.place <= Len(B[x.answer]) + 9
  /\ x.value = Packet(B[x.answer])[x.place]
IsLast(x, B) == x.place = Len(B[x.answer]) + 9
Follows(x, y, B) ==
  \/ y.answer = x.answer /\ y.place = x.place + 1
  \/ IsLast(x, B) /\ y.place = 1

\* The end of an answer, and whole answers.
Stream(s, B, n) ==
  /\ \A i \in 1 .. Len(s) : Carries(s[i], B, n)
  /\ \A i \in 1 .. Len(s) - 1 : Follows(s[i], s[i + 1], B)
  /\ s # <<>> => IsLast(s[Len(s)], B)

\* What is left of a stream is one.
LEMMA StreamSuffix ==
  ASSUME NEW s \in Seq(BytesOnLine), NEW t \in Seq(BytesOnLine), NEW B, NEW n,
         Stream(s \o t, B, n)
  PROVE  Stream(t, B, n)
<1> DEFINE u == s \o t
<1>1. /\ u \in Seq(BytesOnLine)
      /\ Len(u) = Len(s) + Len(t)
      /\ \A i \in 1 .. Len(s) + Len(t) : u[i] = IF i <= Len(s) THEN s[i] ELSE t[i - Len(s)]
  BY ConcatProperties, Zenon
<1>2. Stream(u, B, n)
  OBVIOUS
<1> HIDE DEF u
<1>3. Len(s) \in Nat /\ Len(t) \in Nat /\ (t # <<>> => Len(t) > 0)
  OBVIOUS
<1>4. \A i \in 1 .. Len(t) : i + Len(s) \in 1 .. Len(u) /\ t[i] = u[i + Len(s)]
  <2> SUFFICES ASSUME NEW i \in 1 .. Len(t)
               PROVE  i + Len(s) \in 1 .. Len(u) /\ t[i] = u[i + Len(s)]
    OBVIOUS
  <2> DEFINE j == i + Len(s)
  <2>1. j \in 1 .. Len(s) + Len(t) /\ ~(j <= Len(s)) /\ j - Len(s) = i
    BY <1>3
  <2> HIDE DEF j
  <2>2. u[j] = t[j - Len(s)]
    BY <1>1, <2>1
  <2>3. j \in 1 .. Len(u) /\ t[i] = u[j]
    BY <1>1, <2>1, <2>2
  <2> QED BY <2>3 DEF j
<1>5. ASSUME NEW i \in 1 .. Len(t) PROVE Carries(t[i], B, n)
  BY <1>2, <1>4 DEF Stream
<1>6. ASSUME NEW i \in 1 .. Len(t) - 1 PROVE Follows(t[i], t[i + 1], B)
  <2>1. t[i] = u[i + Len(s)] /\ t[i + 1] = u[(i + Len(s)) + 1]
        /\ i + Len(s) \in 1 .. Len(u) - 1
    BY <1>1, <1>3, <1>4
  <2> QED BY <1>2, <2>1 DEF Stream
<1>7. ASSUME t # <<>> PROVE IsLast(t[Len(t)], B)
  <2>1. t[Len(t)] = u[Len(u)] /\ u # <<>>
    BY <1>1, <1>3, <1>4, <1>7
  <2> QED BY <1>2, <2>1 DEF Stream
<1> QED BY <1>5, <1>6, <1>7 DEF Stream

LEMMA StreamTail ==
  ASSUME NEW s \in Seq(BytesOnLine), s # <<>>, NEW B, NEW n, Stream(s, B, n)
  PROVE  Stream(Tail(s), B, n)
<1>1. <<Head(s)>> \in Seq(BytesOnLine) /\ Tail(s) \in Seq(BytesOnLine)
  BY HeadTailProperties
<1>2. <<Head(s)>> \o Tail(s) = s
  OBVIOUS
<1> QED BY <1>1, <1>2, StreamSuffix

\* A whole answer may be put behind a stream.
LEMMA StreamFrame ==
  ASSUME NEW s \in Seq(BytesOnLine), NEW B \in Texts, NEW n \in 0 .. MaxCommands - 1,
         NEW body \in Bodies, Stream(s, B, n)
  PROVE  Stream(s \o Frame(body, n + 1), [B EXCEPT ![n + 1] = body], n + 1)
<1> DEFINE f == Frame(body, n + 1)
           u == s \o f
           C == [B EXCEPT ![n + 1] = body]
<1>0. n \in Nat /\ n + 1 \in 1 .. MaxCommands
  BY MaxAssumption
<1>1. /\ f \in Seq(BytesOnLine)
      /\ Len(f) = Len(body) + 9
      /\ \A i \in 1 .. Len(f) : /\ f[i].value = Packet(body)[i]
                                /\ f[i].answer = n + 1
                                /\ f[i].place = i
  BY <1>0, FrameProperties
<1> HIDE DEF f
<1>2. /\ u \in Seq(BytesOnLine)
      /\ Len(u) = Len(s) + Len(f)
      /\ \A i \in 1 .. Len(s) + Len(f) : u[i] = IF i <= Len(s) THEN s[i] ELSE f[i - Len(s)]
  BY <1>1, ConcatProperties, Zenon
<1> HIDE DEF u
<1>3. Len(s) \in Nat /\ Len(f) \in Nat /\ Len(f) > 9 /\ Len(body) \in Nat
  BY <1>1, PacketProperties, TwoBytes
<1>4. C[n + 1] = body /\ \A m \in 1 .. MaxCommands : m <= n => C[m] = B[m]
  BY <1>0 DEF Texts
<1> HIDE DEF C
<1>5. \A i \in 1 .. Len(s) : s[i].answer \in 1 .. MaxCommands /\ s[i].answer <= n
  <2> SUFFICES ASSUME NEW i \in 1 .. Len(s)
               PROVE  s[i].answer \in 1 .. MaxCommands /\ s[i].answer <= n
    OBVIOUS
  <2>1. s[i] \in BytesOnLine
    BY ElementOfSeq, Zenon
  <2>2. Carries(s[i], B, n)
    BY DEF Stream
  <2> QED BY <2>1, <2>2 DEF Carries, BytesOnLine
<1>6. ASSUME NEW i \in 1 .. Len(s) PROVE Carries(s[i], C, n + 1)
  BY <1>0, <1>4, <1>5 DEF Stream, Carries
<1>7. ASSUME NEW i \in 1 .. Len(f) PROVE Carries(f[i], C, n + 1)
  BY <1>0, <1>1, <1>3, <1>4 DEF Carries
<1>8. ASSUME NEW i \in 1 .. Len(u) PROVE Carries(u[i], C, n + 1)
  <2>1. CASE i <= Len(s)
    <3>1. i \in 1 .. Len(s) /\ u[i] = s[i]
      BY <1>2, <1>3, <2>1
    <3> QED BY <1>6, <3>1
  <2>2. CASE i > Len(s)
    <3>1. i - Len(s) \in 1 .. Len(f) /\ u[i] = f[i - Len(s)]
      BY <1>2, <1>3, <2>2
    <3> QED BY <1>7, <3>1
  <2> QED BY <1>3, <2>1, <2>2
<1>9. ASSUME NEW i \in 1 .. Len(u) - 1 PROVE Follows(u[i], u[i + 1], C)
  <2>1. CASE i < Len(s)
    <3>1. u[i] = s[i] /\ u[i + 1] = s[i + 1] /\ Follows(s[i], s[i + 1], B)
      BY <1>2, <1>3, <2>1 DEF Stream
    <3>2. C[s[i].answer] = B[s[i].answer]
      BY <1>3, <1>4, <1>5, <2>1
    <3> QED BY <3>1, <3>2 DEF Follows, IsLast
  <2>2. CASE i = Len(s)
    <3>0. i \in 1 .. Len(s) /\ i + 1 \in 1 .. Len(s) + Len(f) /\ ~(i + 1 <= Len(s))
          /\ (i + 1) - Len(s) = 1 /\ Len(s) # 0
      BY <1>3, <2>2
    <3>1. u[i] = s[i] /\ u[i + 1] = f[1] /\ s # <<>>
      BY <1>2, <3>0
    <3>2. IsLast(s[i], B)
      BY <2>2, <3>1 DEF Stream
    <3>3. C[s[i].answer] = B[s[i].answer]
      BY <1>3, <1>4, <1>5, <2>2, <3>1
    <3>4. f[1].place = 1
      BY <1>1, <1>3
    <3> QED BY <3>1, <3>2, <3>3, <3>4 DEF Follows, IsLast
  <2>3. CASE i > Len(s)
    <3>1. u[i] = f[i - Len(s)] /\ u[i + 1] = f[(i - Len(s)) + 1]
          /\ i - Len(s) \in 1 .. Len(f) - 1
      BY <1>2, <1>3, <2>3
    <3> DEFINE j == i - Len(s)
    <3>2. j \in 1 .. Len(f) /\ j + 1 \in 1 .. Len(f)
      BY <1>3, <3>1
    <3> HIDE DEF j
    <3>3. f[j + 1].answer = f[j].answer /\ f[j + 1].place = f[j].place + 1
      BY <1>1, <3>2
    <3> QED BY <3>1, <3>3 DEF Follows, j
  <2> QED BY <1>3, <2>1, <2>2, <2>3
<1>10. IsLast(u[Len(u)], C)
  <2>1. u[Len(u)] = f[Len(f)]
    BY <1>2, <1>3
  <2> QED BY <1>1, <1>3, <1>4, <2>1 DEF IsLast
<1>11. Stream(u, C, n + 1)
  BY <1>8, <1>9, <1>10 DEF Stream
<1> QED BY <1>11 DEF u, C, f

(***************************************************************************)
(* Headers on the line                                                      *)
(***************************************************************************)

\* x is the q-th byte of the packet of a body and the header behind it.
At(x, B, body, q) ==
  \/ q <= Len(body) + 9 /\ B[x.answer] = body /\ x.place = q
  \/ q > Len(body) + 9 /\ x.place = q - (Len(body) + 9)

\* A packet and the header of the next.
LEMMA PacketHeader ==
  ASSUME NEW body \in Bodies
  PROVE  /\ \A i \in 1 .. Len(body) + 9 : (Packet(body) \o Header)[i] = Packet(body)[i]
         /\ \A q \in Len(body) + 10 .. Len(body) + 16 :
              (Packet(body) \o Header)[q] = Header[q - (Len(body) + 9)]
<1>1. /\ Packet(body) \in Seq(Byte) /\ Len(Packet(body)) = Len(body) + 9
      /\ Len(body) \in Nat
  BY PacketProperties, TwoBytes
<1>2. Header \in Seq(Byte) /\ Len(Header) = 7
  BY HeaderTypes
<1> DEFINE P == Packet(body)
           u == P \o Header
<1> HIDE DEF P
<1>3. \A i \in 1 .. Len(P) + Len(Header) :
        u[i] = IF i <= Len(P) THEN P[i] ELSE Header[i - Len(P)]
  BY <1>1, <1>2, ConcatProperties, Zenon DEF P
<1> HIDE DEF u
<1>4. Len(P) = Len(body) + 9
  BY <1>1 DEF P
<1>5. ASSUME NEW i \in 1 .. Len(body) + 9 PROVE u[i] = P[i]
  BY <1>1, <1>2, <1>3, <1>4
<1>6. ASSUME NEW q \in Len(body) + 10 .. Len(body) + 16
      PROVE  u[q] = Header[q - (Len(body) + 9)]
  <2>1. q \in 1 .. Len(P) + Len(Header) /\ ~(q <= Len(P))
    BY <1>1, <1>2, <1>4
  <2> QED BY <1>3, <1>4, <2>1
<1> QED BY <1>5, <1>6 DEF u, P

\* The byte behind the q-th is the next one, as far as that header goes.
LEMMA AtNext ==
  ASSUME NEW B, NEW n, NEW body \in Bodies, NEW q \in 1 .. Len(body) + 15,
         NEW x \in BytesOnLine, NEW y \in BytesOnLine,
         Carries(x, B, n), Carries(y, B, n), Follows(x, y, B), At(x, B, body, q)
  PROVE  At(y, B, body, q + 1)
<1>1. Len(body) \in Nat /\ q \in Nat /\ q <= Len(body) + 15
  BY PacketProperties, TwoBytes
<1>2. x.place \in Nat /\ y.place \in Nat
  BY DEF BytesOnLine
<1>3. B[x.answer] \in Bodies /\ Len(B[x.answer]) \in Nat /\ Len(B[x.answer]) > 0
      /\ x.place <= Len(B[x.answer]) + 9
  BY BodySize DEF Carries
<1>4. B[y.answer] \in Bodies /\ y.place <= Len(B[y.answer]) + 9
  BY DEF Carries
<1>5. CASE q < Len(body) + 9
  <2>1. B[x.answer] = body /\ x.place = q
    BY <1>1, <1>5 DEF At
  <2>2. y.answer = x.answer /\ y.place = q + 1
    BY <1>1, <1>5, <2>1 DEF Follows, IsLast
  <2> QED BY <1>1, <1>5, <2>1, <2>2 DEF At
<1>6. CASE q = Len(body) + 9
  <2>1. B[x.answer] = body /\ x.place = q
    BY <1>1, <1>6 DEF At
  <2>2. y.place = 1
    BY <1>1, <1>4, <1>6, <2>1 DEF Follows
  <2> QED BY <1>1, <1>6, <2>2 DEF At
<1>7. CASE q > Len(body) + 9
  <2>1. x.place = q - (Len(body) + 9)
    BY <1>1, <1>7 DEF At
  <2>2. x.place < Len(B[x.answer]) + 9
    BY <1>1, <1>3, <1>7, <2>1
  <2>3. y.place = x.place + 1
    BY <1>2, <1>3, <2>2 DEF Follows, IsLast
  <2> QED BY <1>1, <1>7, <2>1, <2>3 DEF At
<1> QED BY <1>1, <1>5, <1>6, <1>7

\* and its value is the q-th of that packet and header.
LEMMA AtValue ==
  ASSUME NEW B, NEW n, NEW body \in Bodies, NEW q \in 1 .. Len(body) + 16,
         NEW x \in BytesOnLine, Carries(x, B, n), At(x, B, body, q)
  PROVE  x.value = (Packet(body) \o Header)[q]
<1>1. Len(body) \in Nat /\ q \in Nat /\ q <= Len(body) + 16
  BY PacketProperties, TwoBytes
<1>2. x.value = Packet(B[x.answer])[x.place] /\ B[x.answer] \in Bodies
  BY DEF Carries
<1>3. CASE q <= Len(body) + 9
  <2>1. x.value = Packet(body)[q] /\ q \in 1 .. Len(body) + 9
    BY <1>1, <1>2, <1>3 DEF At
  <2> QED BY <2>1, PacketHeader
<1>4. CASE q > Len(body) + 9
  <2> DEFINE i == q - (Len(body) + 9)
  <2>1. i \in 1 .. 7 /\ x.place = i
    BY <1>1, <1>4 DEF At
  <2>2. Packet(B[x.answer])[i] = Header[i]
    BY <1>2, <2>1, PacketProperties
  <2>3. (Packet(body) \o Header)[q] = Header[i]
    <3>1. q \in Len(body) + 10 .. Len(body) + 16
      BY <1>1, <1>4
    <3> QED BY <3>1, PacketHeader, Zenon
  <2> HIDE DEF i
  <2>4. x.value = Packet(B[x.answer])[i]
    BY <1>2, <2>1, Zenon
  <2>5. x.value = Header[i]
    BY <2>2, <2>4, Zenon
  <2> QED BY <2>3, <2>5
<1>5. q <= Len(body) + 9 \/ q > Len(body) + 9
  BY <1>1
<1> QED BY <1>3, <1>4, <1>5, Zenon

(***************************************************************************)
(* What the parser has found                                                *)
(***************************************************************************)

\* The last idx bytes read are places of a packet and the next one's header
\* that look like a header; the line goes on behind them.
Searching(B) ==
  Line # <<>> =>
    \E body \in Bodies : \E p \in 1 .. Len(body) + 9 :
      /\ At(Line[1], B, body, p + idx)
      /\ \A i \in 1 .. idx : (Packet(body) \o Header)[p + i - 1] = Header[i]

\* idx is the place in a packet, and length what the packet says.
InBody(B) ==
  /\ Line # <<>> /\ Line[1].place = idx + 1
  /\ idx = 8 => length = 256 * Packet(B[Line[1].answer])[8]
  /\ idx >= 9 => length = Len(B[Line[1].answer])
  /\ \A i \in 1 .. Len(data) : data[i].answer = Line[1].answer /\ data[i].place = i + 9

Parsed(B) ==
  waiting => /\ idx \in 1 .. 6 => Searching(B)
             /\ idx >= 7 => InBody(B)

InStep == lost = 0 => \E B \in Texts : Stream(Line, B, sent) /\ Parsed(B)

\* Behind a byte that is not the last of its answer comes the next of it.
LEMMA StreamNext ==
  ASSUME NEW s \in Seq(BytesOnLine), s # <<>>, NEW B, NEW n, Stream(s, B, n),
         ~IsLast(s[1], B)
  PROVE  /\ Tail(s) # <<>>
         /\ Tail(s)[1].answer = s[1].answer /\ Tail(s)[1].place = s[1].place + 1
<1> DEFINE size == Len(s)
<1>1. size \in Nat /\ size # 0
  OBVIOUS
<1>2. size # 1
  BY DEF Stream
<1>3. /\ \A i \in 1 .. size - 1 : Follows(s[i], s[i + 1], B)
      /\ Len(Tail(s)) = size - 1
      /\ \A i \in 1 .. Len(Tail(s)) : Tail(s)[i] = s[i + 1]
  BY HeadTailProperties, Zenon DEF Stream
<1> HIDE DEF size
<1>4. 1 \in 1 .. size - 1
  BY <1>1, <1>2
<1>5. Follows(s[1], s[2], B) /\ Tail(s)[1] = s[2]
  BY <1>3, <1>4
<1>6. Tail(s) # <<>>
  <2>1. size - 1 # 0
    BY <1>1, <1>2
  <2>2. Len(Tail(s)) # 0
    BY <1>3, <2>1, Zenon
  <2>3. Len(<<>>) = 0
    OBVIOUS
  <2> QED BY <2>2, <2>3, Zenon
<1> QED BY <1>5, <1>6 DEF Follows

\* The line while a byte is received,
LEMMA LineDelivered == TypeOK /\ Deliver => Line' = Line
<1> SUFFICES ASSUME TypeOK, Deliver PROVE Line' = Line
  OBVIOUS
<1>1. wire \in Seq(BytesOnLine) /\ wire # <<>> /\ rx \in Seq(BytesOnLine)
  BY DEF TypeOK, Deliver
<1>2. Append(rx, Head(wire)) \o Tail(wire) = rx \o wire
  BY <1>1
<1> QED BY <1>2, Zenon DEF Line, Deliver

\* and while one is read.
LEMMA LineRead ==
  TypeOK /\ ReadByte =>
    /\ Line \in Seq(BytesOnLine) /\ Line # <<>>
    /\ Line[1] = Head(rx) /\ Line' = Tail(Line)
<1> SUFFICES ASSUME TypeOK, ReadByte
             PROVE  /\ Line \in Seq(BytesOnLine) /\ Line # <<>>
                    /\ Line[1] = Head(rx) /\ Line' = Tail(Line)
  OBVIOUS
<1>1. wire \in Seq(BytesOnLine) /\ rx # <<>> /\ rx \in Seq(BytesOnLine)
      /\ rx' = Tail(rx) /\ wire' = wire
  BY DEF TypeOK, ReadByte
<1>2. Line \in Seq(BytesOnLine) /\ Line # <<>>
  BY <1>1 DEF Line
<1>3. Line[1] = Head(rx)
  BY <1>1 DEF Line
<1>4. Tail(rx \o wire) = Tail(rx) \o wire
  BY <1>1
<1> QED BY <1>1, <1>2, <1>3, <1>4 DEF Line

\* The place of the first unread byte, and what the bytes before it look like,
\* at any point of the search for a header.
LEMMA SearchPosition ==
  ASSUME TypeOK, waiting, idx \in 0 .. 6, Line \in Seq(BytesOnLine), Line # <<>>,
         NEW B, Stream(Line, B, sent), Parsed(B)
  PROVE  \E body \in Bodies : \E p \in 1 .. Len(body) + 9 :
           /\ At(Line[1], B, body, p + idx)
           /\ \A i \in 1 .. idx : (Packet(body) \o Header)[p + i - 1] = Header[i]
<1>1. CASE idx = 0
  <2> DEFINE x == Line[1]
  <2>1. Carries(x, B, sent) /\ x \in BytesOnLine
    BY DEF Stream
  <2> HIDE DEF x
  <2> DEFINE text == B[x.answer]
  <2>2. text \in Bodies /\ x.place \in Nat \ {0} /\ x.place <= Len(text) + 9
    BY <2>1 DEF Carries, BytesOnLine
  <2>3. Len(text) \in Nat
    BY <2>2, BodySize
  <2>4. x.place \in 1 .. Len(text) + 9 /\ x.place + idx = x.place
    BY <1>1, <2>2, <2>3
  <2>5. At(x, B, text, x.place + idx)
    BY <2>2, <2>3, <2>4 DEF At
  <2>6. \A i \in 1 .. idx : (Packet(text) \o Header)[x.place + i - 1] = Header[i]
    BY <1>1
  <2> HIDE DEF text
  <2>7. \E p \in 1 .. Len(text) + 9 :
          /\ At(x, B, text, p + idx)
          /\ \A i \in 1 .. idx : (Packet(text) \o Header)[p + i - 1] = Header[i]
    BY <2>4, <2>5, <2>6, Zenon
  <2>8. text \in Bodies /\ x = Line[1]
    BY <2>2 DEF x
  <2> QED BY <2>7, <2>8
<1>2. CASE idx \in 1 .. 6
  BY <1>2 DEF Parsed, Searching
<1>3. idx = 0 \/ idx \in 1 .. 6
  OBVIOUS
<1> QED BY <1>1, <1>2, <1>3, Zenon

\* A byte that continues the header.
LEMMA HeaderGrows ==
  ASSUME TypeOK, ReadByte, idx \in 0 .. 6, ~Mismatch(Head(rx).value),
         NEW B, Stream(Line, B, sent), Parsed(B)
  PROVE  \E body \in Bodies : \E p \in 1 .. Len(body) + 9 :
           /\ At(Line[1], B, body, p + idx)
           /\ Line' # <<>> => At(Line'[1], B, body, p + idx + 1)
           /\ \A i \in 1 .. idx + 1 : (Packet(body) \o Header)[p + i - 1] = Header[i]
<1>1. /\ Line \in Seq(BytesOnLine) /\ Line # <<>>
      /\ Line[1] = Head(rx) /\ Line' = Tail(Line)
  BY LineRead
<1>2. waiting
  BY DEF ReadByte
<1>a. PICK body \in Bodies : \E p \in 1 .. Len(body) + 9 :
        /\ At(Line[1], B, body, p + idx)
        /\ \A i \in 1 .. idx : (Packet(body) \o Header)[p + i - 1] = Header[i]
  BY <1>1, <1>2, SearchPosition
<1>3. PICK p \in 1 .. Len(body) + 9 :
        /\ At(Line[1], B, body, p + idx)
        /\ \A i \in 1 .. idx : (Packet(body) \o Header)[p + i - 1] = Header[i]
  BY <1>a
<1> DEFINE q == p + idx
<1>4. Len(body) \in Nat /\ q \in 1 .. Len(body) + 15 /\ q \in 1 .. Len(body) + 16
      /\ p + (idx + 1) - 1 = q
  BY BodySize
<1> HIDE DEF q
<1>5. Line[1] \in BytesOnLine /\ Carries(Line[1], B, sent) /\ At(Line[1], B, body, q)
  BY <1>1, <1>3 DEF Stream, q
<1>6. Line[1].value = (Packet(body) \o Header)[q]
  BY <1>4, <1>5, AtValue
<1>7. Line[1].value = Header[idx + 1]
  BY <1>1 DEF Mismatch
<1>8. ASSUME NEW i \in 1 .. idx + 1 PROVE (Packet(body) \o Header)[p + i - 1] = Header[i]
  <2>1. CASE i \in 1 .. idx
    BY <1>3, <2>1, Zenon
  <2>2. CASE i = idx + 1
    <3>1. p + i - 1 = q
      BY <1>4, <2>2
    <3> QED BY <1>6, <1>7, <2>2, <3>1
  <2>3. i \in 1 .. idx \/ i = idx + 1
    OBVIOUS
  <2> QED BY <2>1, <2>2, <2>3, Zenon
<1>9. ASSUME Line' # <<>> PROVE At(Line'[1], B, body, q + 1)
  <2>1. /\ Len(Line) - 1 = Len(Line') /\ Line' \in Seq(BytesOnLine)
        /\ \A i \in 1 .. Len(Line') : Line'[i] = Line[i + 1]
    BY <1>1, HeadTailProperties
  <2>2. Len(Line') \in Nat /\ Len(Line') # 0
    BY <1>9, <2>1
  <2>3. 1 \in 1 .. Len(Line') /\ 1 \in 1 .. Len(Line) - 1 /\ 2 \in 1 .. Len(Line)
    BY <2>1, <2>2
  <2>4. Line'[1] = Line[2] /\ Line[2] \in BytesOnLine
    BY <1>1, <2>1, <2>3
  <2>5. Follows(Line[1], Line[2], B) /\ Carries(Line[2], B, sent)
    BY <2>3 DEF Stream
  <2> QED BY <1>4, <1>5, <2>4, <2>5, AtNext
<1> QED BY <1>3, <1>8, <1>9 DEF q

\* A header is only found where a packet begins.
LEMMA HeaderFound ==
  ASSUME HeaderOnlyInFront, NEW body \in Bodies, NEW p \in 1 .. Len(body) + 9,
         \A i \in 1 .. 7 : (Packet(body) \o Header)[p + i - 1] = Header[i]
  PROVE  p = 1
<1>1. Len(body) \in Nat
  BY BodySize
<1>2. p = 1 \/ p \in 2 .. Len(body) + 9
  BY <1>1
<1> QED BY <1>2 DEF HeaderOnlyInFront

\* The first unread byte is in the body of its answer, or in the length.
LEMMA BodyGrows ==
  ASSUME TInv, ReadByte, idx >= 7, ~(idx >= 9 /\ Complete),
         NEW B, Stream(Line, B, sent), InBody(B)
  PROVE  InBody(B)'
<1> DEFINE x == Line[1]
           body == B[x.answer]
<1>1. /\ Line \in Seq(BytesOnLine) /\ Line # <<>>
      /\ x = Head(rx) /\ Line' = Tail(Line)
  BY LineRead DEF TInv
<1>2. x \in BytesOnLine /\ Carries(x, B, sent) /\ x.place = idx + 1
  BY <1>1 DEF Stream, InBody
<1>3. body \in Bodies /\ x.value = Packet(body)[x.place] /\ x.place <= Len(body) + 9
  BY <1>2 DEF Carries
<1>4. /\ idx = 8 => length = 256 * Packet(body)[8]
      /\ idx >= 9 => length = Len(body)
      /\ \A i \in 1 .. Len(data) : data[i].answer = x.answer /\ data[i].place = i + 9
  BY DEF InBody
<1>5. /\ waiting /\ idx \in Nat
      /\ idx < 9 => data = <<>>
      /\ idx >= 9 => Len(data) = idx - 9
      /\ data \in Seq(BytesOnLine)
  BY DEF ReadByte, TInv, TypeOK, Counted
<1>6. ~Mismatch(x.value)
  BY <1>5 DEF Mismatch
<1>7. /\ idx' = idx + 1
      /\ data' = IF idx >= 9 THEN Append(data, x) ELSE data
      /\ idx = 7 => length' = 256 * x.value
      /\ idx = 8 => length' = length + x.value
      /\ idx >= 9 => length' = length
  <2> DEFINE b == Head(rx)
  <2>1. b = x /\ ~Mismatch(b.value)
    BY <1>1, <1>6
  <2>2. idx' = idx + 1
    BY <1>5, <2>1 DEF ReadByte
  <2>3. data' = IF idx >= 9 THEN Append(data, b) ELSE data
    BY DEF ReadByte
  <2>4. idx = 7 => length' = 256 * b.value
    BY <2>1 DEF ReadByte
  <2>5. idx = 8 => length' = length + b.value
    BY <2>1 DEF ReadByte
  <2>6. idx >= 9 => length' = length
    BY <1>5 DEF ReadByte
  <2> HIDE DEF b
  <2> QED BY <2>1, <2>2, <2>3, <2>4, <2>5, <2>6, Zenon
<1>8. Len(body) \in Nat /\ Len(body) > 0
      /\ 256 * Packet(body)[8] + Packet(body)[9] = Len(body)
  BY <1>3, BodySize, PacketProperties
<1>9. ~IsLast(x, B)
  <2>1. CASE idx < 9
    <3>1. x.place < Len(body) + 9
      BY <1>2, <1>5, <1>8, <2>1
    <3> QED BY <1>8, <3>1 DEF IsLast
  <2>2. CASE idx >= 9
    <3>1. idx - 8 # Len(body)
      BY <1>4, <2>2 DEF Complete
    <3>2. x.place # Len(body) + 9
      BY <1>2, <1>5, <1>8, <3>1
    <3> QED BY <3>2 DEF IsLast
  <2> QED BY <1>5, <2>1, <2>2
<1>10. /\ Line' # <<>>
       /\ Line'[1].answer = x.answer /\ Line'[1].place = idx' + 1
  BY <1>1, <1>2, <1>7, <1>9, StreamNext
<1> HIDE DEF x, body
<1>11. idx' = 8 => length' = 256 * Packet(body)[8]
  BY <1>2, <1>3, <1>5, <1>7
<1>12. idx' >= 9 => length' = Len(body)
  <2>1. CASE idx = 8
    <3>1. length' = 256 * Packet(body)[8] + Packet(body)[9]
      BY <1>2, <1>3, <1>4, <1>7, <2>1
    <3> QED BY <1>8, <3>1
  <2>2. CASE idx >= 9
    BY <1>4, <1>7, <2>2
  <2> QED BY <1>5, <1>7, <2>1, <2>2
<1>13. ASSUME NEW i \in 1 .. Len(data')
       PROVE  data'[i].answer = x.answer /\ data'[i].place = i + 9
  <2>1. CASE idx < 9
    BY <1>5, <1>7, <2>1
  <2>2. CASE idx >= 9
    <3>1. /\ Len(data') = Len(data) + 1
          /\ \A j \in 1 .. Len(data) : data'[j] = data[j]
          /\ data'[Len(data) + 1] = x
      BY <1>2, <1>5, <1>7, <2>2, AppendProperties
    <3>2. CASE i \in 1 .. Len(data)
      BY <1>4, <3>1, <3>2
    <3>3. CASE i = Len(data) + 1
      <4>1. i + 9 = idx + 1
        BY <1>5, <2>2, <3>3
      <4> QED BY <1>2, <3>1, <3>3, <4>1
    <3>4. i \in 1 .. Len(data) \/ i = Len(data) + 1
      BY <1>5, <2>2, <3>1
    <3> QED BY <3>2, <3>3, <3>4
  <2> QED BY <1>5, <2>1, <2>2
<1> QED BY <1>10, <1>11, <1>12, <1>13, Zenon DEF InBody, body

\* The seventh byte of a header is followed by the length of its packet.
LEMMA HeaderEnds ==
  ASSUME HeaderOnlyInFront, TInv, ReadByte, idx = 6, ~Mismatch(Head(rx).value),
         NEW B, Stream(Line, B, sent), Parsed(B)
  PROVE  InBody(B)'
<1>1. /\ Line \in Seq(BytesOnLine) /\ Line # <<>>
      /\ Line[1] = Head(rx) /\ Line' = Tail(Line)
  BY LineRead DEF TInv
<1>2. PICK body \in Bodies : \E p \in 1 .. Len(body) + 9 :
        /\ At(Line[1], B, body, p + idx)
        /\ \A i \in 1 .. idx + 1 : (Packet(body) \o Header)[p + i - 1] = Header[i]
  <2>1. idx \in 0 .. 6 /\ TypeOK
    BY DEF TInv
  <2>2. \E body \in Bodies : \E p \in 1 .. Len(body) + 9 :
          /\ At(Line[1], B, body, p + idx)
          /\ Line' # <<>> => At(Line'[1], B, body, p + idx + 1)
          /\ \A i \in 1 .. idx + 1 : (Packet(body) \o Header)[p + i - 1] = Header[i]
    BY <2>1, HeaderGrows, Zenon
  <2> QED BY <2>2
<1>3. PICK p \in 1 .. Len(body) + 9 :
        /\ At(Line[1], B, body, p + idx)
        /\ \A i \in 1 .. idx + 1 : (Packet(body) \o Header)[p + i - 1] = Header[i]
  BY <1>2
<1>4. p = 1
  <2>1. \A i \in 1 .. 7 : (Packet(body) \o Header)[p + i - 1] = Header[i]
    <3>1. idx + 1 = 7
      OBVIOUS
    <3> QED BY <1>3, <3>1, Zenon
  <2> QED BY <2>1, HeaderFound, Zenon
<1>5. At(Line[1], B, body, 7) /\ Len(body) \in Nat
  BY <1>3, <1>4, BodySize
<1>6. B[Line[1].answer] = body /\ Line[1].place = 7
  BY <1>5 DEF At
<1>7. ~IsLast(Line[1], B)
  BY <1>5, <1>6, BodySize DEF IsLast
<1>8. Line' # <<>> /\ Line'[1].place = 8
  BY <1>1, <1>6, <1>7, StreamNext
<1>9. idx' = 7 /\ data' = <<>>
  <2>1. idx' = idx + 1
    BY DEF ReadByte
  <2>2. data' = data /\ data = <<>>
    BY DEF ReadByte, TInv, Counted
  <2> QED BY <2>1, <2>2
<1> QED BY <1>8, <1>9 DEF InBody

LEMMA ReadByteInStep ==
  ASSUME HeaderOnlyInFront, TInv, InStep, ReadByte
  PROVE  InStep' /\ WholeAnswer'
<1>1. lost' = lost
  BY DEF ReadByte
<1>2. CASE lost # 0
  BY <1>1, <1>2 DEF InStep, WholeAnswer
<1>3. CASE lost = 0
  <2>1. PICK B \in Texts : Stream(Line, B, sent) /\ Parsed(B)
    BY <1>3 DEF InStep
  <2>2. /\ Line \in Seq(BytesOnLine) /\ Line # <<>>
        /\ Line[1] = Head(rx) /\ Line' = Tail(Line)
    BY LineRead DEF TInv
  <2>3. Stream(Line', B, sent')
    <3>1. Stream(Tail(Line), B, sent) /\ sent' = sent
      BY <2>1, <2>2, StreamTail DEF ReadByte
    <3> QED BY <2>2, <3>1
  <2>4. waiting /\ idx \in Nat
    BY DEF ReadByte, TInv, TypeOK
  <2>5. CASE idx >= 9 /\ Complete
    <3>1. /\ waiting' = FALSE /\ data' = Append(data, Line[1])
          /\ returned' = data'[1].answer
      BY <2>2, <2>5 DEF ReadByte
    <3>2. InBody(B)
      BY <2>1, <2>4, <2>5 DEF Parsed
    <3>3. /\ Line[1].place = idx + 1
          /\ \A i \in 1 .. Len(data) : /\ data[i].answer = Line[1].answer
                                       /\ data[i].place = i + 9
      BY <3>2 DEF InBody
    <3>4. /\ Len(data) = idx - 9 /\ data \in Seq(BytesOnLine) /\ Line[1] \in BytesOnLine
      BY <2>2, <2>4, <2>5 DEF TInv, TypeOK, Counted
    <3>5. /\ Len(data') = Len(data) + 1 /\ DOMAIN data' = 1 .. Len(data')
          /\ \A i \in 1 .. Len(data) : data'[i] = data[i]
          /\ data'[Len(data) + 1] = Line[1]
      BY <3>1, <3>4, AppendProperties
    <3>6. Len(data) \in Nat /\ Len(data) + 10 = idx + 1
      BY <2>4, <2>5, <3>4
    <3>7. \A i \in 1 .. Len(data') : /\ data'[i].answer = Line[1].answer
                                     /\ data'[i].place = i + 9
      <4> SUFFICES ASSUME NEW i \in 1 .. Len(data')
                   PROVE  data'[i].answer = Line[1].answer /\ data'[i].place = i + 9
        OBVIOUS
      <4>1. CASE i \in 1 .. Len(data)
        BY <3>3, <3>5, <4>1
      <4>2. CASE i = Len(data) + 1
        BY <3>3, <3>5, <3>6, <4>2
      <4>3. i \in 1 .. Len(data) \/ i = Len(data) + 1
        BY <3>5, <3>6
      <4> QED BY <4>1, <4>2, <4>3
    <3>8. 1 \in 1 .. Len(data')
      BY <3>5, <3>6
    <3>9. returned' = Line[1].answer
      BY <3>1, <3>7, <3>8
    <3>10. WholeAnswer'
      BY <3>5, <3>7, <3>9 DEF WholeAnswer
    <3>11. Parsed(B)'
      BY <3>1 DEF Parsed
    <3> QED BY <2>3, <3>10, <3>11 DEF InStep
  <2>6. CASE ~(idx >= 9 /\ Complete)
    <3>1. waiting' /\ idx' = IF Mismatch(Line[1].value) THEN 0 ELSE idx + 1
      BY <2>2, <2>4, <2>6 DEF ReadByte
    <3>2. WholeAnswer'
      BY <3>1 DEF WholeAnswer
    <3>3. Parsed(B)'
      <4>1. CASE Mismatch(Line[1].value)
        BY <3>1, <4>1 DEF Parsed
      <4>2. CASE ~Mismatch(Line[1].value) /\ idx >= 7
        <5>1. InBody(B)'
          BY <2>1, <2>4, <2>6, <4>2, BodyGrows DEF Parsed
        <5>2. ~(idx' \in 1 .. 6)
          BY <2>4, <3>1, <4>2
        <5> QED BY <5>1, <5>2 DEF Parsed
      <4>3. CASE ~Mismatch(Line[1].value) /\ idx = 6
        <5>1. InBody(B)'
          BY <2>1, <2>2, <4>3, HeaderEnds
        <5>2. ~(idx' \in 1 .. 6)
          BY <3>1, <4>3
        <5> QED BY <5>1, <5>2 DEF Parsed
      <4>4. CASE ~Mismatch(Line[1].value) /\ idx \in 0 .. 5
        <5>1. idx' = idx + 1 /\ idx \in 0 .. 6 /\ ~(idx' >= 7)
          BY <3>1, <4>4
        <5>2. \E body \in Bodies : \E p \in 1 .. Len(body) + 9 :
                /\ Line' # <<>> => At(Line'[1], B, body, p + idx + 1)
                /\ \A i \in 1 .. idx + 1 :
                     (Packet(body) \o Header)[p + i - 1] = Header[i]
          BY <2>1, <2>2, <4>4, <5>1, HeaderGrows DEF TInv
        <5>3. \A body \in Bodies : \A p \in 1 .. Len(body) + 9 : p + idx + 1 = p + idx'
          BY <5>1, BodySize
        <5>4. Searching(B)'
          BY <5>1, <5>2, <5>3 DEF Searching
        <5> QED BY <5>1, <5>4 DEF Parsed
      <4>5. idx \in 0 .. 5 \/ idx = 6 \/ idx >= 7
        BY <2>4
      <4> QED BY <4>1, <4>2, <4>3, <4>4, <4>5, Zenon
    <3> QED BY <2>3, <3>2, <3>3 DEF InStep
  <2> QED BY <2>5, <2>6
<1> QED BY <1>2, <1>3

LEMMA InitInStep == Init => InStep /\ WholeAnswer
<1> SUFFICES ASSUME Init PROVE InStep /\ WholeAnswer
  OBVIOUS
<1>1. Line = <<>> /\ waiting = FALSE /\ returned = 0
  BY DEF Init, Line
<1>2. [n \in 1 .. MaxCommands |-> <<>>] \in Texts
  BY DEF Texts
<1>3. \A B \in Texts : Stream(Line, B, sent) /\ Parsed(B)
  BY <1>1 DEF Stream, Parsed
<1> QED BY <1>1, <1>2, <1>3 DEF InStep, WholeAnswer

LEMMA CommandInStep ==
  ASSUME TInv, InStep, Command
  PROVE  InStep' /\ WholeAnswer'
<1>1. /\ waiting' = TRUE /\ rx' = <<>> /\ sent' = sent + 1 /\ lost' = lost
      /\ idx' = 0
      /\ sent \in 0 .. MaxCommands - 1 /\ sent \in Nat
      /\ rx \in Seq(BytesOnLine) /\ wire \in Seq(BytesOnLine)
  BY MaxAssumption DEF Command, ResetLocals, TInv, TypeOK
<1>2. WholeAnswer'
  BY <1>1 DEF WholeAnswer
<1>3. CASE lost # 0
  BY <1>1, <1>2, <1>3 DEF InStep
<1>4. CASE lost = 0
  <2>1. PICK B \in Texts : Stream(rx \o wire, B, sent)
    BY <1>4 DEF InStep, Line
  <2>2. Stream(wire, B, sent)
    BY <1>1, <2>1, StreamSuffix
  <2>3. \A C : Parsed(C)'
    BY <1>1 DEF Parsed
  <2>4. wire' \in Seq(BytesOnLine) => Line' = wire'
    BY <1>1 DEF Line
  <2>5. CASE wire' = wire
    <3>1. ASSUME NEW i \in 1 .. Len(wire) PROVE Carries(wire[i], B, sent + 1)
      <4>1. Carries(wire[i], B, sent) /\ wire[i] \in BytesOnLine
        BY <1>1, <2>2 DEF Stream
      <4>2. wire[i].answer \in Nat
        BY <4>1 DEF BytesOnLine
      <4> QED BY <1>1, <4>1, <4>2 DEF Carries
    <3>2. Stream(wire, B, sent + 1)
      BY <2>2, <3>1 DEF Stream
    <3> QED BY <1>1, <1>2, <2>1, <2>3, <2>4, <2>5, <3>2 DEF InStep
  <2>6. CASE \E body \in Bodies : wire' = wire \o Frame(body, sent + 1)
    <3>1. PICK body \in Bodies : wire' = wire \o Frame(body, sent + 1)
      BY <2>6
    <3> DEFINE C == [B EXCEPT ![sent + 1] = body]
    <3>2. Stream(wire', C, sent + 1)
      BY <1>1, <2>2, <3>1, StreamFrame
    <3>3. wire' \in Seq(BytesOnLine)
      <4>1. sent + 1 \in 1 .. MaxCommands
        BY <1>1, MaxAssumption
      <4>2. Frame(body, sent + 1) \in Seq(BytesOnLine)
        BY <4>1, FrameProperties
      <4> QED BY <1>1, <3>1, <4>2, ConcatProperties
    <3>4. C \in Texts
      BY <2>1 DEF Texts
    <3> HIDE DEF C
    <3> QED BY <1>1, <1>2, <2>3, <2>4, <3>2, <3>3, <3>4 DEF InStep
  <2> QED BY <2>5, <2>6 DEF Command
<1>5. lost = 0 \/ lost # 0
  OBVIOUS
<1> QED BY <1>2, <1>3, <1>4, <1>5, Zenon

\* Steps that leave the parser and the bytes on the line alone.
LEMMA OtherInStep ==
  ASSUME TInv, InStep, WholeAnswer,
         Line' = Line, lost' = lost, sent' = sent,
         waiting' = waiting, idx' = idx, length' = length, data' = data,
         returned' = returned
  PROVE  InStep' /\ WholeAnswer'
<1>1. \A B : Parsed(B) => Parsed(B)'
  BY DEF Parsed, Searching, InBody
<1>2. \A B : Stream(Line, B, sent) => Stream(Line', B, sent')
  OBVIOUS
<1> QED BY <1>1, <1>2 DEF InStep, WholeAnswer

LEMMA ExpireInStep ==
  ASSUME TInv, InStep, Expire
  PROVE  InStep' /\ WholeAnswer'
<1>1. /\ Line' = Line /\ lost' = lost /\ sent' = sent
      /\ waiting' = FALSE /\ returned' = 0
  BY DEF Expire, Line
<1>2. \A B : Parsed(B)'
  BY <1>1 DEF Parsed
<1> QED BY <1>1, <1>2 DEF InStep, WholeAnswer

LEMMA LoseInStep ==
  ASSUME TInv, Lose
  PROVE  InStep' /\ WholeAnswer'
<1>1. lost' # 0
  BY MaxAssumption DEF Lose, TInv, TypeOK
<1> QED BY <1>1 DEF InStep, WholeAnswer

StepInv == TInv /\ InStep /\ WholeAnswer

LEMMA NextInStep ==
  ASSUME HeaderOnlyInFront
  PROVE  StepInv /\ [Next]_vars => StepInv'
<1> SUFFICES ASSUME TInv, InStep, WholeAnswer, [Next]_vars
             PROVE  InStep' /\ WholeAnswer'
  BY NextTypes DEF StepInv
<1>1. CASE Command BY <1>1, CommandInStep
<1>2. CASE Delay BY <1>2, OtherInStep DEF Delay, Line, history
<1>3. CASE ReadByte BY <1>3, ReadByteInStep
<1>4. CASE Expire BY <1>4, ExpireInStep
<1>5. CASE Deliver
  <2>1. Line' = Line
    BY <1>5, LineDelivered DEF TInv
  <2> QED BY <1>5, <2>1, OtherInStep DEF Deliver, locals, history
<1>6. CASE Lose BY <1>6, LoseInStep
<1>7. CASE UNCHANGED vars
  BY <1>7, OtherInStep DEF vars, locals, history, Line
<1> QED BY <1>1, <1>2, <1>3, <1>4, <1>5, <1>6, <1>7 DEF Next, Parse

\* On a line that loses nothing the caller gets the body of one answer, all of
\* it and in order, whatever was left on the line by earlier commands: if no
\* body looks like a header.
THEOREM AnswersAreWhole ==
  ASSUME HeaderOnlyInFront
  PROVE  Spec => []WholeAnswer
<1>1. Init => StepInv
  BY InitTypes, InitInStep DEF StepInv
<1>2. StepInv /\ [Next]_vars => StepInv'
  BY NextInStep
<1>3. StepInv => WholeAnswer
  BY DEF StepInv
<1> QED BY <1>1, <1>2, <1>3, PTL DEF Spec

(***************************************************************************)
(* An answer on a line free of other bytes                                  *)
(***************************************************************************)

\* The line holds the rest of the answer, and the parser has all before it.
Foreseen ==
  waiting /\ expected /\ lost = 0 =>
    \E body \in Bodies :
      /\ idx < Len(body) + 9
      /\ Len(Line) = Len(body) + 9 - idx
      /\ \A i \in 1 .. Len(Line) : Line[i].value = Packet(body)[idx + i]
      /\ idx = 8 => length = 256 * Packet(body)[8]
      /\ idx >= 9 => length = Len(body)

LEMMA CommandForeseen ==
  ASSUME TInv, Command
  PROVE  Foreseen'
<1> SUFFICES ASSUME expected' PROVE Foreseen'
  BY DEF Foreseen
<1>1. /\ wire = <<>> /\ rx' = <<>> /\ idx' = 0
      /\ sent + 1 \in 1 .. MaxCommands
      /\ \E body \in Bodies : wire' = wire \o Frame(body, sent + 1)
  <2>1. rx' = <<>> /\ idx' = 0 /\ sent < MaxCommands
    BY DEF Command, ResetLocals
  <2>2. sent + 1 \in 1 .. MaxCommands
    BY <2>1, MaxAssumption DEF TInv, TypeOK
  <2>3. \/ UNCHANGED wire /\ expected' = FALSE
        \/ /\ \E body \in Bodies : wire' = wire \o Frame(body, sent + 1)
           /\ expected' = (wire = <<>>)
    BY Zenon DEF Command
  <2>4. \E body \in Bodies : wire' = wire \o Frame(body, sent + 1)
    BY <2>3, Zenon
  <2>5. wire = <<>>
    BY <2>3, Zenon
  <2> QED BY <2>1, <2>2, <2>4, <2>5, Zenon
<1>2. PICK body \in Bodies : wire' = <<>> \o Frame(body, sent + 1)
  BY <1>1
<1>3. /\ Frame(body, sent + 1) \in Seq(BytesOnLine)
      /\ Len(Frame(body, sent + 1)) = Len(body) + 9
      /\ \A i \in 1 .. Len(body) + 9 : Frame(body, sent + 1)[i].value = Packet(body)[i]
  BY <1>1, FrameProperties
<1>4. Line' = Frame(body, sent + 1)
  BY <1>1, <1>2, <1>3 DEF Line
<1>5. Len(body) \in Nat
  BY BodySize
<1>6. /\ idx' < Len(body) + 9 /\ Len(Line') = Len(body) + 9 - idx'
      /\ idx' # 8 /\ ~(idx' >= 9)
  BY <1>1, <1>3, <1>4, <1>5
<1>7. ASSUME NEW i \in 1 .. Len(Line') PROVE Line'[i].value = Packet(body)[idx' + i]
  BY <1>1, <1>3, <1>4, <1>5
<1> QED BY <1>6, <1>7 DEF Foreseen

LEMMA ReadByteForeseen ==
  ASSUME TInv, Foreseen, ReadByte
  PROVE  Foreseen'
<1> SUFFICES ASSUME waiting', expected, lost = 0 PROVE Foreseen'
  BY DEF Foreseen, ReadByte
<1> DEFINE b == Head(rx)
<1>1. /\ Line \in Seq(BytesOnLine) /\ Line # <<>>
      /\ Line[1] = b /\ Line' = Tail(Line)
  BY LineRead DEF TInv
<1>2. waiting /\ idx \in Nat /\ ~(idx >= 9 /\ Complete)
  BY DEF ReadByte, TInv, TypeOK
<1>3. PICK body \in Bodies :
        /\ idx < Len(body) + 9
        /\ Len(Line) = Len(body) + 9 - idx
        /\ \A i \in 1 .. Len(Line) : Line[i].value = Packet(body)[idx + i]
        /\ idx = 8 => length = 256 * Packet(body)[8]
        /\ idx >= 9 => length = Len(body)
  BY <1>2 DEF Foreseen
<1>4. /\ Len(body) \in Nat /\ Len(body) > 0
      /\ \A i \in 1 .. 7 : Packet(body)[i] = Header[i]
      /\ 256 * Packet(body)[8] + Packet(body)[9] = Len(body)
  BY BodySize, PacketProperties
<1>5. b.value = Packet(body)[idx + 1]
  <2>1. 1 \in 1 .. Len(Line)
    BY <1>2, <1>3, <1>4
  <2> QED BY <1>1, <1>3, <2>1
<1>6. ~Mismatch(b.value)
  <2>1. idx < 7 => idx + 1 \in 1 .. 7
    BY <1>2
  <2> QED BY <1>4, <1>5, <2>1 DEF Mismatch
<1>7. idx' = idx + 1
  BY <1>2, <1>6 DEF ReadByte
<1>8. /\ idx = 7 => length' = 256 * b.value
      /\ idx = 8 => length' = length + b.value
      /\ idx >= 9 => length' = length
  BY <1>2, <1>6 DEF ReadByte
<1> HIDE DEF b
<1>9. idx' < Len(body) + 9
  <2>1. CASE idx < 9
    BY <1>2, <1>4, <1>7, <2>1
  <2>2. CASE idx >= 9
    <3>1. idx - 8 # Len(body)
      BY <1>2, <1>3, <2>2 DEF Complete
    <3> QED BY <1>2, <1>3, <1>4, <1>7, <3>1
  <2> QED BY <1>2, <2>1, <2>2
<1>10. idx' = 8 => length' = 256 * Packet(body)[8]
  BY <1>2, <1>5, <1>7, <1>8
<1>11. idx' >= 9 => length' = Len(body)
  <2>1. CASE idx = 8
    <3>1. length' = 256 * Packet(body)[8] + Packet(body)[9]
      BY <1>3, <1>5, <1>8, <2>1
    <3> QED BY <1>4, <3>1
  <2>2. CASE idx >= 9
    BY <1>3, <1>8, <2>2
  <2> QED BY <1>2, <1>7, <2>1, <2>2
<1>12. /\ Len(Line') = Len(Line) - 1
       /\ \A i \in 1 .. Len(Line') : Line'[i] = Line[i + 1]
  BY <1>1, HeadTailProperties
<1>13. Len(Line') = Len(body) + 9 - idx'
  BY <1>2, <1>3, <1>4, <1>7, <1>12
<1>14. ASSUME NEW i \in 1 .. Len(Line') PROVE Line'[i].value = Packet(body)[idx' + i]
  <2>1. i + 1 \in 1 .. Len(Line) /\ idx + (i + 1) = idx' + i
    BY <1>2, <1>3, <1>4, <1>7, <1>12
  <2> QED BY <1>3, <1>12, <2>1
<1> QED BY <1>9, <1>10, <1>11, <1>13, <1>14 DEF Foreseen

LEMMA NextForeseen == TInv /\ Foreseen /\ [Next]_vars => Foreseen'
<1> SUFFICES ASSUME TInv, Foreseen, [Next]_vars PROVE Foreseen'
  OBVIOUS
<1>1. CASE Command BY <1>1, CommandForeseen
<1>2. CASE Delay BY <1>2 DEF Delay, Foreseen, Line, history
<1>3. CASE ReadByte BY <1>3, ReadByteForeseen
<1>4. CASE Expire BY <1>4 DEF Expire, Foreseen
<1>5. CASE Deliver
  <2>1. Line' = Line
    BY <1>5, LineDelivered DEF TInv
  <2> QED BY <1>5, <2>1 DEF Deliver, Foreseen, locals, history
<1>6. CASE Lose
  <2>1. lost' # 0
    BY <1>6, MaxAssumption DEF Lose, TInv, TypeOK
  <2> QED BY <2>1 DEF Foreseen
<1>7. CASE UNCHANGED vars
  BY <1>7 DEF vars, locals, history, Line, Foreseen
<1> QED BY <1>1, <1>2, <1>3, <1>4, <1>5, <1>6, <1>7 DEF Next, Parse

\* While transfer_ waits for an answer on a line free of other bytes, there is
\* more of it to come: it never gives up on an answer that it has read.
THEOREM AnswerIsRecognised == Spec => AnswerRecognised
<1>1. Init => TInv /\ Foreseen
  <2>1. Init => Foreseen
    BY DEF Init, Foreseen
  <2> QED BY <2>1, InitTypes
<1>2. TInv /\ Foreseen /\ [Next]_vars => (TInv /\ Foreseen)'
  BY NextTypes, NextForeseen
<1>3. TInv /\ Foreseen =>
        (Returning /\ returned' = 0 /\ expected /\ lost = 0 => rx \o wire # <<>>)
  <2> SUFFICES ASSUME TInv, Foreseen, waiting, expected, lost = 0
               PROVE  rx \o wire # <<>>
    BY DEF Returning
  <2>1. PICK body \in Bodies : idx < Len(body) + 9 /\ Len(Line) = Len(body) + 9 - idx
    BY DEF Foreseen
  <2>2. idx \in Nat /\ Len(body) \in Nat
    BY BodySize DEF TInv, TypeOK
  <2>3. Len(Line) # 0 /\ Len(<<>>) = 0
    BY <2>1, <2>2
  <2> QED BY <2>3, Zenon DEF Line
<1> QED BY <1>1, <1>2, <1>3, PTL DEF Spec, AnswerRecognised

(***************************************************************************)
(* Numbers in ascending order                                               *)
(***************************************************************************)

\* A set of numbers that has 0 and, with each number, the next.
LEMMA SetInduction ==
  ASSUME NEW T \in SUBSET Nat, 0 \in T, \A n \in T : n + 1 \in T
  PROVE  \A n \in Nat : n \in T
<1> DEFINE Missing == Nat \ T
<1> SUFFICES ASSUME Missing # {} PROVE FALSE
  OBVIOUS
<1>1. PICK n \in Missing : \A l \in Missing : ~ (<<l, n>> \in OpToRel(<, Nat))
  BY NatLessThanWellFounded, WFMin, Missing \subseteq Nat, Zenon
<1>2. \A l \in Missing : ~ (l < n)
  BY <1>1 DEF OpToRel
<1>3. n # 0 /\ n - 1 \in Nat /\ n - 1 < n /\ (n - 1) + 1 = n
  OBVIOUS
<1>4. n - 1 \in T
  BY <1>2, <1>3
<1> QED BY <1>3, <1>4

\* A set of numbers has a least one.
LEMMA LeastNumber ==
  ASSUME NEW T \in SUBSET Nat, T # {}
  PROVE  \E n \in T : \A l \in T : n <= l
<1>1. PICK n \in T : \A l \in T : ~ (<<l, n>> \in OpToRel(<, Nat))
  BY NatLessThanWellFounded, WFMin, Zenon
<1>2. \A l \in T : ~ (l < n)
  BY <1>1 DEF OpToRel
<1>3. \A l \in T : l \in Nat /\ n \in Nat
  OBVIOUS
<1> QED BY <1>2, <1>3

\* q has the numbers of S, each once, the smaller first.
LEMMA AscendingElements ==
  ASSUME NEW S, NEW q \in Seq(Nat), IsAscending(q, S)
  PROVE  /\ Len(q) \in Nat
         /\ \A i \in 1 .. Len(q) : q[i] \in S /\ q[i] \in Nat
         /\ \A i, j \in 1 .. Len(q) : i < j => q[i] < q[j]
         /\ \A m \in S : m \in Nat /\ \E i \in 1 .. Len(q) : q[i] = m
<1>1. Len(q) \in Nat /\ DOMAIN q = 1 .. Len(q) /\ \A i \in 1 .. Len(q) : q[i] \in Nat
  BY LenProperties, ElementOfSeq
<1>2. S = {q[i] : i \in 1 .. Len(q)}
  BY <1>1 DEF IsAscending, Range
<1> QED BY <1>1, <1>2 DEF IsAscending

\* Conversely, a sequence of that kind is S in ascending order.
LEMMA ElementsAscending ==
  ASSUME NEW S, NEW q \in Seq(Nat), NEW n \in Nat, Len(q) = n,
         \A i \in 1 .. n : q[i] \in S,
         \A i, j \in 1 .. n : i < j => q[i] < q[j],
         \A m \in S : \E i \in 1 .. n : q[i] = m
  PROVE  IsAscending(q, S)
<1>1. DOMAIN q = 1 .. n
  BY LenProperties
<1>2. Range(q) = S
  BY <1>1 DEF Range
<1> QED BY <1>1, <1>2 DEF IsAscending

\* There is one such sequence.
LEMMA AscendingUnique ==
  ASSUME NEW S, NEW p \in Seq(Nat), NEW q \in Seq(Nat), IsAscending(p, S), IsAscending(q, S)
  PROVE  p = q
<1> DEFINE m == Len(p)
           n == Len(q)
<1>1. /\ m \in Nat
      /\ \A i \in 1 .. m : p[i] \in S /\ p[i] \in Nat
      /\ \A i, j \in 1 .. m : i < j => p[i] < p[j]
      /\ \A e \in S : \E i \in 1 .. m : p[i] = e
  BY AscendingElements
<1>2. /\ n \in Nat
      /\ \A i \in 1 .. n : q[i] \in S /\ q[i] \in Nat
      /\ \A i, j \in 1 .. n : i < j => q[i] < q[j]
      /\ \A e \in S : \E i \in 1 .. n : q[i] = e
  BY AscendingElements
<1> HIDE DEF m, n
<1> DEFINE Differ == {i \in Nat : i \in 1 .. m /\ i \in 1 .. n /\ p[i] # q[i]}
<1>3. Differ = {}
  <2> SUFFICES ASSUME Differ # {} PROVE FALSE
    OBVIOUS
  <2>1. PICK i \in Differ : \A l \in Differ : i <= l
    <3>1. Differ \in SUBSET Nat
      OBVIOUS
    <3> HIDE DEF Differ
    <3> QED BY <3>1, LeastNumber
  <2>2. i \in 1 .. m /\ i \in 1 .. n /\ p[i] # q[i] /\ i \in Nat
    OBVIOUS
  <2>3. \A l \in 1 .. m : l < i => l \in 1 .. n /\ p[l] = q[l]
    <3> SUFFICES ASSUME NEW l \in 1 .. m, l < i PROVE l \in 1 .. n /\ p[l] = q[l]
      OBVIOUS
    <3>1. l \in 1 .. n /\ l \in Nat /\ ~(i <= l)
      BY <1>1, <1>2, <2>2
    <3>2. l \notin Differ
      BY <2>1, <3>1
    <3> QED BY <3>1, <3>2
  <2> HIDE DEF Differ
  <2>4. p[i] < q[i]
    <3>1. PICK j \in 1 .. m : p[j] = q[i]
      BY <1>1, <1>2, <2>2
    <3>2. ~(j < i)
      <4> SUFFICES ASSUME j < i PROVE FALSE
        OBVIOUS
      <4>1. j \in 1 .. n /\ q[j] = q[i]
        BY <2>3, <3>1
      <4>2. q[j] < q[i] /\ q[i] \in Nat
        BY <1>2, <2>2, <4>1
      <4> QED BY <4>1, <4>2
    <3>3. j # i
      BY <2>2, <3>1
    <3>4. i < j
      BY <2>2, <3>2, <3>3
    <3> QED BY <1>1, <2>2, <3>1, <3>4
  <2>5. q[i] < p[i]
    <3>1. PICK j \in 1 .. n : q[j] = p[i]
      BY <1>1, <1>2, <2>2
    <3>2. ~(j < i)
      <4> SUFFICES ASSUME j < i PROVE FALSE
        OBVIOUS
      <4>1. j \in 1 .. m
        BY <1>1, <2>2
      <4>2. p[j] = p[i]
        BY <2>3, <3>1, <4>1
      <4>3. p[j] < p[i] /\ p[i] \in Nat
        BY <1>1, <2>2, <4>1
      <4> QED BY <4>2, <4>3
    <3>3. j # i
      BY <2>2, <3>1
    <3>4. i < j
      BY <2>2, <3>2, <3>3
    <3> QED BY <1>2, <2>2, <3>1, <3>4
  <2>6. p[i] \in Nat /\ q[i] \in Nat
    BY <1>1, <1>2, <2>2
  <2> QED BY <2>4, <2>5, <2>6
<1>4. \A i \in 1 .. m : i \in 1 .. n => p[i] = q[i]
  <2> SUFFICES ASSUME NEW i \in 1 .. m, i \in 1 .. n, p[i] # q[i] PROVE FALSE
    OBVIOUS
  <2>1. i \in Nat
    BY <1>1
  <2>2. i \in Differ
    BY <2>1
  <2> HIDE DEF Differ
  <2> QED BY <1>3, <2>2
<1> HIDE DEF Differ
<1>5. ~(m < n)
  <2> SUFFICES ASSUME m < n PROVE FALSE
    OBVIOUS
  <2>1. m + 1 \in 1 .. n
    BY <1>1, <1>2
  <2>2. PICK j \in 1 .. m : p[j] = q[m + 1]
    BY <1>1, <1>2, <2>1
  <2>3. j \in 1 .. n /\ j < m + 1
    BY <1>1, <1>2
  <2>4. q[j] < q[m + 1] /\ q[m + 1] \in Nat /\ q[j] = q[m + 1]
    BY <1>2, <1>4, <2>1, <2>2, <2>3
  <2> QED BY <2>4
<1>6. ~(n < m)
  <2> SUFFICES ASSUME n < m PROVE FALSE
    OBVIOUS
  <2>1. n + 1 \in 1 .. m
    BY <1>1, <1>2
  <2>2. PICK j \in 1 .. n : q[j] = p[n + 1]
    BY <1>1, <1>2, <2>1
  <2>3. j \in 1 .. m /\ j < n + 1
    BY <1>1, <1>2
  <2>4. p[j] < p[n + 1] /\ p[n + 1] \in Nat /\ p[j] = p[n + 1]
    BY <1>1, <1>4, <2>1, <2>2, <2>3
  <2> QED BY <2>4
<1>7. m = n
  BY <1>1, <1>2, <1>5, <1>6
<1>8. p = [i \in 1 .. m |-> p[i]] /\ q = [i \in 1 .. n |-> q[i]]
  BY LenProperties DEF m, n
<1> QED BY <1>4, <1>7, <1>8

\* A greater number goes behind,
LEMMA AscendingAppend ==
  ASSUME NEW S, NEW q \in Seq(Nat), IsAscending(q, S), NEW e \in Nat, \A m \in S : m < e
  PROVE  Append(q, e) \in Seq(Nat) /\ IsAscending(Append(q, e), S \cup {e})
<1> DEFINE n == Len(q)
           r == Append(q, e)
<1>1. /\ n \in Nat
      /\ \A i \in 1 .. n : q[i] \in S /\ q[i] \in Nat
      /\ \A i, j \in 1 .. n : i < j => q[i] < q[j]
      /\ \A m \in S : m \in Nat /\ \E i \in 1 .. n : q[i] = m
  BY AscendingElements
<1>2. r \in Seq(Nat) /\ Len(r) = n + 1 /\ r[n + 1] = e /\ \A i \in 1 .. n : r[i] = q[i]
  BY AppendProperties
<1> HIDE DEF n, r
<1>3. /\ n + 1 \in Nat /\ n + 1 \in 1 .. n + 1
      /\ \A i \in 1 .. n + 1 : i \in 1 .. n \/ i = n + 1
      /\ \A i \in 1 .. n : i \in 1 .. n + 1
  BY <1>1
<1>4. \A i \in 1 .. n + 1 : r[i] \in S \cup {e}
  BY <1>1, <1>2, <1>3
<1>5. ASSUME NEW i \in 1 .. n + 1, NEW j \in 1 .. n + 1, i < j PROVE r[i] < r[j]
  <2>1. i \in 1 .. n
    BY <1>1, <1>5
  <2>2. CASE j \in 1 .. n
    BY <1>1, <1>2, <1>5, <2>1, <2>2
  <2>3. CASE j = n + 1
    BY <1>1, <1>2, <2>1, <2>3
  <2> QED BY <1>3, <2>2, <2>3
<1>6. \A m \in S \cup {e} : \E i \in 1 .. n + 1 : r[i] = m
  BY <1>1, <1>2, <1>3
<1>7. IsAscending(r, S \cup {e})
  BY <1>2, <1>3, <1>4, <1>5, <1>6, ElementsAscending
<1> QED BY <1>2, <1>7 DEF r

\* the first is the least of them,
LEMMA AscendingTail ==
  ASSUME NEW S, NEW q \in Seq(Nat), q # <<>>, IsAscending(q, S)
  PROVE  /\ Head(q) \in S /\ \A m \in S : m = Head(q) \/ Head(q) < m
         /\ Tail(q) \in Seq(Nat) /\ IsAscending(Tail(q), S \ {Head(q)})
<1> DEFINE n == Len(q)
           r == Tail(q)
<1>1. /\ n \in Nat
      /\ \A i \in 1 .. n : q[i] \in S /\ q[i] \in Nat
      /\ \A i, j \in 1 .. n : i < j => q[i] < q[j]
      /\ \A m \in S : m \in Nat /\ \E i \in 1 .. n : q[i] = m
  BY AscendingElements
<1>2. /\ n # 0 /\ Head(q) = q[1] /\ r \in Seq(Nat) /\ Len(r) = n - 1
      /\ \A i \in 1 .. n - 1 : r[i] = q[i + 1]
  BY HeadTailProperties, EmptySeq
<1> HIDE DEF n, r
<1>3. /\ 1 \in 1 .. n /\ n - 1 \in Nat
      /\ \A i \in 1 .. n - 1 : i + 1 \in 1 .. n /\ 1 < i + 1
      /\ \A i \in 1 .. n : i = 1 \/ (1 < i /\ i - 1 \in 1 .. n - 1 /\ (i - 1) + 1 = i)
  BY <1>1, <1>2
<1>4. \A m \in S : m = q[1] \/ q[1] < m
  BY <1>1, <1>3
<1>5. \A i \in 1 .. n - 1 : r[i] \in S \ {q[1]}
  <2> TAKE i \in 1 .. n - 1
  <2>1. q[1] < q[i + 1] /\ q[1] \in Nat /\ q[i + 1] \in S
    BY <1>1, <1>3
  <2> QED BY <1>2, <2>1
<1>6. \A i, j \in 1 .. n - 1 : i < j => r[i] < r[j]
  <2> TAKE i, j \in 1 .. n - 1
  <2>1. i < j => i + 1 < j + 1
    OBVIOUS
  <2> QED BY <1>1, <1>2, <1>3, <2>1
<1>7. \A m \in S \ {q[1]} : \E i \in 1 .. n - 1 : r[i] = m
  <2> TAKE m \in S \ {q[1]}
  <2>1. PICK i \in 1 .. n : q[i] = m
    BY <1>1
  <2>2. i - 1 \in 1 .. n - 1 /\ r[i - 1] = q[(i - 1) + 1] /\ (i - 1) + 1 = i
    BY <1>2, <1>3, <2>1
  <2> QED BY <2>1, <2>2
<1>8. IsAscending(r, S \ {q[1]})
  BY <1>2, <1>3, <1>5, <1>6, <1>7, ElementsAscending
<1> QED BY <1>1, <1>2, <1>3, <1>4, <1>8 DEF r

\* What is left at the end of q: of S, what is no smaller than any of it.
LEMMA AscendingSuffix ==
  ASSUME NEW S, NEW q \in Seq(Nat), IsAscending(q, S),
         NEW T \in SUBSET S, \A l \in T : \A m \in S : m < l \/ m \in T
  PROVE  \E r \in Suffixes(q) : r \in Seq(Nat) /\ IsAscending(r, T)
<1> DEFINE n == Len(q)
<1>1. /\ n \in Nat
      /\ \A i \in 1 .. n : q[i] \in S /\ q[i] \in Nat
      /\ \A i, j \in 1 .. n : i < j => q[i] < q[j]
      /\ \A m \in S : m \in Nat /\ \E i \in 1 .. n : q[i] = m
  BY AscendingElements
<1>2. CASE T = {}
  <2>1. <<>> \in Suffixes(q) /\ <<>> \in Seq(Nat)
    BY DEF Suffixes
  <2>2. IsAscending(<<>>, T)
    BY <1>2 DEF IsAscending, Range
  <2> QED BY <2>1, <2>2
<1>3. CASE T # {}
  <2> DEFINE Places == {i \in 1 .. n : q[i] \in T}
  <2>1. PICK k \in Places : \A i \in Places : k <= i
    <3>1. Places \in SUBSET Nat
      BY <1>1
    <3>2. Places # {}
      BY <1>1, <1>3
    <3> HIDE DEF Places
    <3> QED BY <3>1, <3>2, LeastNumber
  <2> DEFINE r == SubSeq(q, k, n)
             l == n - k + 1
  <2>2. k \in 1 .. n /\ k \in Nat /\ q[k] \in T /\ l \in Nat
    BY <1>1
  <2>3. r \in Suffixes(q)
    BY <2>2 DEF Suffixes
  <2>4. r \in Seq(Nat) /\ Len(r) = l /\ \A i \in 1 .. l : r[i] = q[k + i - 1]
    BY <1>1, <2>2
  <2>5. \A i \in 1 .. n : i < k => q[i] \notin T
    <3> SUFFICES ASSUME NEW i \in 1 .. n, i < k, q[i] \in T PROVE FALSE
      OBVIOUS
    <3>1. i \in Places
      OBVIOUS
    <3> HIDE DEF Places
    <3>2. k <= i
      BY <2>1, <3>1
    <3> QED BY <1>1, <2>2, <3>2
  <2>6. \A i \in 1 .. n : k < i => q[i] \in T
    <3> SUFFICES ASSUME NEW i \in 1 .. n, k < i PROVE q[i] \in T
      OBVIOUS
    <3>1. q[k] < q[i] /\ q[k] \in Nat /\ q[i] \in Nat /\ q[i] \in S
      BY <1>1, <2>2
    <3> QED BY <2>2, <3>1
  <2> HIDE DEF Places, n, r, l
  <2>7. \A i \in 1 .. l : k + i - 1 \in 1 .. n /\ (k + i - 1 = k \/ k < k + i - 1)
    BY <1>1, <2>2 DEF l
  <2>8. \A i \in 1 .. l : r[i] \in T
    BY <2>2, <2>4, <2>6, <2>7
  <2>9. \A i, j \in 1 .. l : i < j => r[i] < r[j]
    <3> SUFFICES ASSUME NEW i \in 1 .. l, NEW j \in 1 .. l, i < j PROVE r[i] < r[j]
      OBVIOUS
    <3>1. k + i - 1 < k + j - 1
      BY <2>2
    <3> QED BY <1>1, <2>4, <2>7, <3>1
  <2>10. \A m \in T : \E i \in 1 .. l : r[i] = m
    <3> TAKE m \in T
    <3>1. PICK i \in 1 .. n : q[i] = m
      BY <1>1
    <3>2. ~(i < k)
      BY <2>5, <3>1
    <3>3. (i - k) + 1 \in 1 .. l /\ k + ((i - k) + 1) - 1 = i
      BY <1>1, <2>2, <3>2 DEF l
    <3> QED BY <2>4, <3>1, <3>3
  <2>11. IsAscending(r, T)
    BY <2>2, <2>4, <2>8, <2>9, <2>10, ElementsAscending
  <2> QED BY <2>3, <2>4, <2>11
<1> QED BY <1>2, <1>3

\* and without one of its numbers, it is in order as well.
LEMMA AscendingRemove ==
  ASSUME NEW S, NEW q \in Seq(Nat), IsAscending(q, S), NEW e \in S
  PROVE  \E i \in DOMAIN q : RemoveAt(q, i) \in Seq(Nat) /\ IsAscending(RemoveAt(q, i), S \ {e})
<1> DEFINE n == Len(q)
<1>1. /\ n \in Nat
      /\ \A i \in 1 .. n : q[i] \in S /\ q[i] \in Nat
      /\ \A i, j \in 1 .. n : i < j => q[i] < q[j]
      /\ \A m \in S : m \in Nat /\ \E i \in 1 .. n : q[i] = m
  BY AscendingElements
<1>2. PICK k \in 1 .. n : q[k] = e
  BY <1>1
<1> DEFINE s == SubSeq(q, 1, k - 1)
           t == SubSeq(q, k + 1, n)
           r == RemoveAt(q, k)
<1>3. k \in Nat /\ k - 1 \in Nat /\ n - k \in Nat /\ n - 1 \in Nat
      /\ (k - 1) + (n - k) = n - 1
  BY <1>1
<1>4. s \in Seq(Nat) /\ Len(s) = k - 1 /\ \A i \in 1 .. k - 1 : s[i] = q[i]
  BY <1>1, <1>3
<1>5. t \in Seq(Nat) /\ Len(t) = n - k /\ \A i \in 1 .. n - k : t[i] = q[k + i]
  <2>1. t \in Seq(Nat)
    BY <1>1, <1>3
  <2>2. Len(t) = n - k
    <3>1. Len(t) = IF k + 1 <= n THEN n - (k + 1) + 1 ELSE 0
      BY <1>1, <1>3
    <3> HIDE DEF t, n
    <3>2. IF k + 1 <= n THEN n - (k + 1) + 1 = n - k ELSE n - k = 0
      BY <1>1, <1>3
    <3> QED BY <3>1, <3>2
  <2>3. \A i \in 1 .. n - k : t[i] = q[(k + 1) + i - 1]
    BY <1>1, <1>3
  <2>4. \A i \in 1 .. n - k : (k + 1) + i - 1 = k + i
    BY <1>1, <1>3
  <2> HIDE DEF t
  <2> QED BY <2>1, <2>2, <2>3, <2>4
<1>6. r = s \o t
  BY DEF RemoveAt
<1> HIDE DEF s, t, r
<1>7. /\ r \in Seq(Nat) /\ Len(r) = n - 1
      /\ \A i \in 1 .. n - 1 : r[i] = IF i <= k - 1 THEN s[i] ELSE t[i - (k - 1)]
  <2>1. /\ s \o t \in Seq(Nat) /\ Len(s \o t) = Len(s) + Len(t)
        /\ \A i \in 1 .. Len(s) + Len(t) : (s \o t)[i] = IF i <= Len(s) THEN s[i] ELSE t[i - Len(s)]
    BY <1>4, <1>5, ConcatProperties, Zenon
  <2> HIDE DEF n
  <2>2. Len(s) + Len(t) = n - 1
    BY <1>3, <1>4, <1>5
  <2> QED BY <1>4, <1>6, <2>1, <2>2
<1> HIDE DEF n
<1>8. \A i \in 1 .. n - 1 : r[i] = IF i < k THEN q[i] ELSE q[i + 1]
  <2> TAKE i \in 1 .. n - 1
  <2>1. CASE i < k
    <3>1. i \in 1 .. k - 1 /\ i <= k - 1
      BY <1>3, <2>1
    <3> QED BY <1>4, <1>7, <2>1, <3>1
  <2>2. CASE ~(i < k)
    <3>1. i - (k - 1) \in 1 .. n - k /\ k + (i - (k - 1)) = i + 1 /\ ~(i <= k - 1)
      BY <1>1, <1>3, <2>2
    <3> QED BY <1>5, <1>7, <2>2, <3>1
  <2> QED BY <2>1, <2>2
<1>9. \A i \in 1 .. n - 1 : i \in 1 .. n /\ i + 1 \in 1 .. n
  BY <1>1
<1>10. \A i \in 1 .. n - 1 : r[i] \in S \ {e}
  <2> TAKE i \in 1 .. n - 1
  <2>1. CASE i < k
    BY <1>1, <1>2, <1>8, <1>9, <2>1
  <2>2. CASE ~(i < k)
    <3>1. k < i + 1
      BY <1>3, <2>2
    <3>2. q[k] < q[i + 1] /\ q[i + 1] \in S /\ q[k] \in Nat
      BY <1>1, <1>9, <3>1
    <3> QED BY <1>2, <1>8, <2>2, <3>2
  <2> QED BY <2>1, <2>2
<1>11. ASSUME NEW i \in 1 .. n - 1, NEW j \in 1 .. n - 1, i < j PROVE r[i] < r[j]
  <2>1. /\ i < j + 1 /\ i + 1 < j + 1 /\ (j < k => i < k)
    BY <1>3, <1>11
  <2>2. q[i] < q[j] /\ q[i] < q[j + 1] /\ q[i + 1] < q[j + 1]
    BY <1>1, <1>9, <1>11, <2>1
  <2> QED BY <1>8, <2>1, <2>2
<1>12. \A m \in S \ {e} : \E i \in 1 .. n - 1 : r[i] = m
  <2> TAKE m \in S \ {e}
  <2>1. PICK i \in 1 .. n : q[i] = m
    BY <1>1
  <2>2. i # k
    BY <1>2, <2>1
  <2>3. CASE i < k
    <3>1. i \in 1 .. n - 1
      BY <1>1, <1>3, <2>3
    <3> QED BY <1>8, <2>1, <2>3, <3>1
  <2>4. CASE k < i
    <3>1. i - 1 \in 1 .. n - 1 /\ ~(i - 1 < k) /\ (i - 1) + 1 = i
      BY <1>1, <1>3, <2>4
    <3> QED BY <1>8, <2>1, <3>1
  <2> QED BY <1>3, <2>2, <2>3, <2>4
<1>13. IsAscending(r, S \ {e})
  BY <1>3, <1>7, <1>10, <1>11, <1>12, ElementsAscending
<1>14. k \in DOMAIN q
  BY LenProperties DEF n
<1> QED BY <1>7, <1>13, <1>14 DEF r

\* Every finite set of numbers has one.
LEMMA AscendingExists ==
  \A n \in Nat : \A S \in SUBSET (1 .. n) :
    \E q \in Seq(Nat) : Len(q) = Cardinality(S) /\ IsAscending(q, S)
<1> DEFINE Sorted(n) == \A S \in SUBSET (1 .. n) :
             \E q \in Seq(Nat) : Len(q) = Cardinality(S) /\ IsAscending(q, S)
           T == {n \in Nat : Sorted(n)}
<1>1. Sorted(0)
  <2> SUFFICES ASSUME NEW S \in SUBSET (1 .. 0)
               PROVE  \E q \in Seq(Nat) : Len(q) = Cardinality(S) /\ IsAscending(q, S)
    OBVIOUS
  <2>1. S = {} /\ Cardinality({}) = 0
    BY FS_EmptySet
  <2>2. IsAscending(<<>>, {})
    BY DEF IsAscending, Range
  <2>3. <<>> \in Seq(Nat) /\ Len(<<>>) = 0
    OBVIOUS
  <2> QED BY <2>1, <2>2, <2>3
<1>2. ASSUME NEW n \in Nat, Sorted(n) PROVE Sorted(n + 1)
  <2> SUFFICES ASSUME NEW S \in SUBSET (1 .. n + 1)
               PROVE  \E q \in Seq(Nat) : Len(q) = Cardinality(S) /\ IsAscending(q, S)
    OBVIOUS
  <2> DEFINE R == S \ {n + 1}
  <2>1. R \in SUBSET (1 .. n)
    OBVIOUS
  <2> HIDE DEF R
  <2>2. PICK q \in Seq(Nat) : Len(q) = Cardinality(R) /\ IsAscending(q, R)
    BY <1>2, <2>1
  <2>3. IsFiniteSet(R)
    <3>1. IsFiniteSet(1 .. n)
      BY FS_Interval
    <3> QED BY <2>1, <3>1, FS_Subset
  <2>4. CASE n + 1 \in S
    <3>1. R \cup {n + 1} = S /\ n + 1 \notin R
      BY <2>4 DEF R
    <3>2. \A m \in R : m < n + 1
      BY <2>1
    <3>3. Append(q, n + 1) \in Seq(Nat) /\ IsAscending(Append(q, n + 1), R \cup {n + 1})
      BY <2>2, <3>2, AscendingAppend
    <3>4. Cardinality(R \cup {n + 1}) = Cardinality(R) + 1
      BY <2>3, <3>1, FS_AddElement
    <3>5. Len(Append(q, n + 1)) = Len(q) + 1
      OBVIOUS
    <3>6. Len(Append(q, n + 1)) = Cardinality(S)
      BY <2>2, <3>1, <3>4, <3>5
    <3> QED BY <3>1, <3>3, <3>6
  <2>5. CASE n + 1 \notin S
    <3>1. R = S
      BY <2>5 DEF R
    <3> QED BY <2>2, <3>1
  <2> QED BY <2>4, <2>5
<1> HIDE DEF Sorted
<1>3. T \in SUBSET Nat /\ 0 \in T
  BY <1>1
<1>4. ASSUME NEW n \in T PROVE n + 1 \in T
  <2>1. n \in Nat /\ Sorted(n) /\ n + 1 \in Nat
    OBVIOUS
  <2> QED BY <1>2, <2>1
<1> HIDE DEF T
<1>5. \A n \in Nat : n \in T
  BY <1>3, <1>4, SetInduction
<1> QED BY <1>5 DEF T, Sorted

\* So Ascending(S) is one,
LEMMA AscendingIs ==
  ASSUME NEW n \in Nat, NEW S \in SUBSET (1 .. n)
  PROVE  Ascending(S) \in Seq(Nat) /\ IsAscending(Ascending(S), S)
<1>1. PICK q \in Seq(Nat) : Len(q) = Cardinality(S) /\ IsAscending(q, S)
  BY AscendingExists
<1>2. q \in [1 .. Cardinality(S) -> S]
  <2>1. \A i \in 1 .. Len(q) : q[i] \in S
    BY <1>1, AscendingElements
  <2>2. q = [i \in 1 .. Len(q) |-> q[i]]
    BY LenProperties
  <2> QED BY <1>1, <2>1, <2>2
<1>3. Ascending(S) \in [1 .. Cardinality(S) -> S] /\ IsAscending(Ascending(S), S)
  BY <1>1, <1>2 DEF Ascending
<1>4. Cardinality(S) \in Nat /\ S \subseteq Nat
  <2>1. Cardinality(S) \in Nat
    BY <1>1
  <2>2. 1 .. n \subseteq Nat
    OBVIOUS
  <2> QED BY <2>1, <2>2
<1>5. Ascending(S) \in [1 .. Cardinality(S) -> Nat]
  BY <1>3, <1>4
<1> QED BY <1>3, <1>4, <1>5

\* and no other.
LEMMA AscendingOnly ==
  ASSUME NEW n \in Nat, NEW S \in SUBSET (1 .. n), NEW q \in Seq(Nat), IsAscending(q, S)
  PROVE  Ascending(S) = q
  BY AscendingIs, AscendingUnique

(***************************************************************************)
(* Answers that are left                                                    *)
(***************************************************************************)

\* T has the numbers of S from some one on.
UpperPart(T, S) == T \in SUBSET S /\ \A l \in T : \A m \in S : m < l \/ m \in T

\* What is the end of the end is an end.
LEMMA UpperPartOfUpperPart ==
  ASSUME NEW S, NEW T, NEW R, UpperPart(T, S), UpperPart(R, T)
  PROVE  UpperPart(R, S)
  BY DEF UpperPart

\* Of the numbers of S, oldest first: the end of them,
LEMMA UnreadSuffix ==
  ASSUME NEW n \in Nat, NEW S \in SUBSET (1 .. n), NEW T, UpperPart(T, S)
  PROVE  Ascending(T) \in Suffixes(Ascending(S))
<1>0. T \in SUBSET S /\ \A l \in T : \A m \in S : m < l \/ m \in T
  BY DEF UpperPart
<1>1. Ascending(S) \in Seq(Nat) /\ IsAscending(Ascending(S), S)
  BY AscendingIs
<1>2. PICK r \in Suffixes(Ascending(S)) : r \in Seq(Nat) /\ IsAscending(r, T)
  BY <1>0, <1>1, AscendingSuffix
<1>3. T \in SUBSET (1 .. n)
  BY <1>0
<1> QED BY <1>2, <1>3, AscendingOnly

\* all of them and a later one,
LEMMA UnreadAppend ==
  ASSUME NEW n \in Nat, NEW S \in SUBSET (1 .. n), NEW e \in 1 .. n, \A m \in S : m < e
  PROVE  Ascending(S \cup {e}) = Append(Ascending(S), e)
<1>0. e \in Nat
  OBVIOUS
<1>1. Ascending(S) \in Seq(Nat) /\ IsAscending(Ascending(S), S)
  BY AscendingIs
<1>2. Append(Ascending(S), e) \in Seq(Nat)
      /\ IsAscending(Append(Ascending(S), e), S \cup {e})
  BY <1>0, <1>1, AscendingAppend
<1>3. S \cup {e} \in SUBSET (1 .. n)
  OBVIOUS
<1> QED BY <1>2, <1>3, AscendingOnly

\* all but one of them,
LEMMA UnreadRemove ==
  ASSUME NEW n \in Nat, NEW S \in SUBSET (1 .. n), NEW e \in S
  PROVE  \E i \in DOMAIN Ascending(S) :
           Ascending(S \ {e}) = RemoveAt(Ascending(S), i)
<1>1. Ascending(S) \in Seq(Nat) /\ IsAscending(Ascending(S), S)
  BY AscendingIs
<1>2. PICK i \in DOMAIN Ascending(S) :
        /\ RemoveAt(Ascending(S), i) \in Seq(Nat)
        /\ IsAscending(RemoveAt(Ascending(S), i), S \ {e})
  BY <1>1, AscendingRemove
<1>3. S \ {e} \in SUBSET (1 .. n)
  OBVIOUS
<1>4. Ascending(S \ {e}) = RemoveAt(Ascending(S), i)
  BY <1>2, <1>3, AscendingOnly
<1> QED BY <1>4

\* and all but the first.
LEMMA UnreadTail ==
  ASSUME NEW n \in Nat, NEW S \in SUBSET (1 .. n), NEW f \in S, \A m \in S : f <= m
  PROVE  /\ Ascending(S) # <<>> /\ Head(Ascending(S)) = f
         /\ Tail(Ascending(S)) = Ascending(S \ {f})
<1> DEFINE q == Ascending(S)
<1>1. q \in Seq(Nat) /\ IsAscending(q, S)
  BY AscendingIs
<1> HIDE DEF q
<1>2. q # <<>>
  <2>1. PICK i \in 1 .. Len(q) : q[i] = f
    BY <1>1, AscendingElements
  <2>2. Len(q) # 0 /\ Len(<<>>) = 0
    BY <1>1
  <2> QED BY <2>2, Zenon
<1>3. /\ Head(q) \in S /\ \A m \in S : m = Head(q) \/ Head(q) < m
      /\ Tail(q) \in Seq(Nat) /\ IsAscending(Tail(q), S \ {Head(q)})
  BY <1>1, <1>2, AscendingTail
<1>4. Head(q) = f
  <2>1. Head(q) \in Nat /\ f \in Nat /\ f <= Head(q)
    BY <1>3
  <2>2. f = Head(q) \/ Head(q) < f
    BY <1>3
  <2> QED BY <2>1, <2>2
<1>5. S \ {f} \in SUBSET (1 .. n)
  OBVIOUS
<1>6. Ascending(S \ {f}) = Tail(q)
  BY <1>3, <1>4, <1>5, AscendingOnly
<1> QED BY <1>2, <1>4, <1>6 DEF q

\* The answers of the bytes of a sequence, of two,
LEMMA NumbersType ==
  ASSUME NEW s \in Seq(BytesOnLine)
  PROVE  /\ Numbers(s) = {s[i].answer : i \in 1 .. Len(s)}
         /\ Numbers(s) \in SUBSET (1 .. MaxCommands)
<1>1. DOMAIN s = 1 .. Len(s) /\ \A i \in 1 .. Len(s) : s[i] \in BytesOnLine
  BY LenProperties, ElementOfSeq
<1>2. \A i \in 1 .. Len(s) : s[i].answer \in 1 .. MaxCommands
  BY <1>1 DEF BytesOnLine
<1> QED BY <1>1, <1>2 DEF Numbers

LEMMA NumbersConcat ==
  ASSUME NEW s \in Seq(BytesOnLine), NEW t \in Seq(BytesOnLine)
  PROVE  Numbers(s \o t) = Numbers(s) \cup Numbers(t)
<1> DEFINE u == s \o t
<1>1. /\ u \in Seq(BytesOnLine)
      /\ Len(u) = Len(s) + Len(t)
      /\ \A i \in 1 .. Len(s) + Len(t) : u[i] = IF i <= Len(s) THEN s[i] ELSE t[i - Len(s)]
  BY ConcatProperties, Zenon
<1> HIDE DEF u
<1>2. Numbers(s) = {s[i].answer : i \in 1 .. Len(s)}
      /\ Numbers(t) = {t[i].answer : i \in 1 .. Len(t)}
      /\ Numbers(u) = {u[i].answer : i \in 1 .. Len(u)}
  BY <1>1, NumbersType
<1> DEFINE a == Len(s)
           c == Len(t)
<1>3. a \in Nat /\ c \in Nat
  BY LenProperties
<1>4. Len(u) = a + c /\ \A i \in 1 .. a + c : u[i] = IF i <= a THEN s[i] ELSE t[i - a]
  BY <1>1
<1> HIDE DEF a, c
<1>5. \A i \in 1 .. a : i \in 1 .. a + c /\ i <= a
  BY <1>3
<1>6. \A i \in 1 .. c : i + a \in 1 .. a + c /\ ~(i + a <= a) /\ (i + a) - a = i
  BY <1>3
<1>7. \A i \in 1 .. a + c : i \in 1 .. a \/ (~(i <= a) /\ i - a \in 1 .. c)
  BY <1>3
<1>8. ASSUME NEW e \in Numbers(u) PROVE e \in Numbers(s) \cup Numbers(t)
  <2>1. PICK i \in 1 .. a + c : e = u[i].answer
    BY <1>2, <1>4
  <2>2. CASE i \in 1 .. a
    BY <1>2, <1>4, <1>5, <2>1, <2>2 DEF a
  <2>3. CASE ~(i <= a) /\ i - a \in 1 .. c
    BY <1>2, <1>4, <2>1, <2>3 DEF c
  <2> QED BY <1>7, <2>2, <2>3
<1>9. ASSUME NEW e \in Numbers(s) PROVE e \in Numbers(u)
  <2>1. PICK i \in 1 .. a : e = s[i].answer
    BY <1>2 DEF a
  <2>2. i \in 1 .. a + c /\ u[i] = s[i]
    BY <1>4, <1>5
  <2> QED BY <1>2, <1>4, <2>1, <2>2
<1>10. ASSUME NEW e \in Numbers(t) PROVE e \in Numbers(u)
  <2>1. PICK i \in 1 .. c : e = t[i].answer
    BY <1>2 DEF c
  <2>2. i + a \in 1 .. a + c /\ u[i + a] = t[i]
    BY <1>4, <1>6
  <2> QED BY <1>2, <1>4, <2>1, <2>2
<1> QED BY <1>8, <1>9, <1>10 DEF u

\* and of the rest of one.
LEMMA NumbersTail ==
  ASSUME NEW s \in Seq(BytesOnLine), s # <<>>
  PROVE  Numbers(s) = Numbers(Tail(s)) \cup {Head(s).answer}
<1>1. <<Head(s)>> \in Seq(BytesOnLine) /\ Tail(s) \in Seq(BytesOnLine)
  BY HeadTailProperties
<1>2. <<Head(s)>> \o Tail(s) = s
  OBVIOUS
<1>3. Numbers(<<Head(s)>>) = {Head(s).answer}
  BY DEF Numbers
<1>4. Numbers(<<Head(s)>> \o Tail(s)) = Numbers(<<Head(s)>>) \cup Numbers(Tail(s))
  BY <1>1, NumbersConcat
<1> QED BY <1>2, <1>3, <1>4

\* The answers of a packet's bytes.
LEMMA NumbersFrame ==
  ASSUME NEW body \in Bodies, NEW n \in 1 .. MaxCommands
  PROVE  Numbers(Frame(body, n)) = {n}
<1>1. /\ Frame(body, n) \in Seq(BytesOnLine)
      /\ Len(Frame(body, n)) = Len(body) + 9
      /\ \A i \in 1 .. Len(body) + 9 : Frame(body, n)[i].answer = n
  BY FrameProperties
<1>2. Numbers(Frame(body, n)) = {Frame(body, n)[i].answer : i \in 1 .. Len(body) + 9}
  BY <1>1, NumbersType
<1>3. 1 \in 1 .. Len(body) + 9
  BY BodySize
<1> QED BY <1>1, <1>2, <1>3

(***************************************************************************)
(* What is left of an answer that was returned                              *)
(***************************************************************************)

\* The reader sent x before y.
Before(x, y) == x.answer < y.answer \/ (x.answer = y.answer /\ x.place < y.place)
InOrder(s)   == \A i, j \in 1 .. Len(s) : i < j => Before(s[i], s[j])

\* x was sent after the first byte of answer n.
IsRest(x, n) == n <= x.answer /\ (x.answer = n => x.place > 1)

\* The first k bytes of a header are among the bytes of a packet behind the
\* first and before the p-th, in their order.
Left(body, k, p) ==
  \E S \in SUBSET (2 .. p - 1) :
    /\ Cardinality(S) = k
    /\ \A q \in S : Packet(body)[q] = Header[Cardinality({r \in S : r <= q})]

\* The bytes on the line are of answers no older than the one returned last.
LineInv(B) ==
  /\ InOrder(Line)
  /\ \A i \in 1 .. Len(Line) : Carries(Line[i], B, sent) /\ IsRest(Line[i], last)

\* As long as bytes of the answer returned last are to come, the bytes of the
\* header that were found are of this answer: a whole header is not, and what
\* follows it is the body of a later answer.
RestInv(B) ==
  waiting =>
    /\ \A i \in 1 .. Len(Line) : Line[i].answer = last =>
         idx < 7 /\ Left(B[last], idx, Line[i].place)
    /\ data # <<>> => /\ last < data[1].answer /\ data[1].answer <= sent
                      /\ \A i \in 1 .. Len(Line) : Before(data[1], Line[i])

LinkInv == last <= sent /\ \E B \in Texts : LineInv(B) /\ RestInv(B)

\* The first k numbers of a set do not change when a greater one is added.
LEMMA LeftNext ==
  ASSUME NEW body, NEW k \in 0 .. 6, NEW p \in Nat, NEW r \in Nat, 1 < p, p < r,
         Left(body, k, p), Packet(body)[p] = Header[k + 1]
  PROVE  Left(body, k + 1, r)
<1>1. PICK S \in SUBSET (2 .. p - 1) :
        /\ Cardinality(S) = k
        /\ \A q \in S : Packet(body)[q] = Header[Cardinality({l \in S : l <= q})]
  BY DEF Left
<1> DEFINE R == S \cup {p}
<1>2. R \in SUBSET (2 .. r - 1) /\ p \notin S /\ \A q \in S : q \in Nat /\ q < p
  <2>1. \A q \in 2 .. p - 1 : q \in 2 .. r - 1 /\ q \in Nat /\ q < p
    OBVIOUS
  <2>2. p \in 2 .. r - 1 /\ p \notin 2 .. p - 1
    OBVIOUS
  <2>3. \A q \in S : q \in 2 .. p - 1
    OBVIOUS
  <2> QED BY <2>1, <2>2, <2>3
<1>3. Cardinality(R) = k + 1
  <2>1. IsFiniteSet(2 .. p - 1)
    BY FS_Interval
  <2>2. IsFiniteSet(S)
    BY <2>1, FS_Subset
  <2>3. Cardinality(S \cup {p}) = Cardinality(S) + 1
    BY <1>2, <2>2, FS_AddElement
  <2> QED BY <1>1, <2>3
<1>4. ASSUME NEW q \in R
      PROVE  Packet(body)[q] = Header[Cardinality({l \in R : l <= q})]
  <2>1. CASE q = p
    <3>1. {l \in R : l <= p} = R
      <4>1. \A l \in R : l <= p
        BY <1>2
      <4> HIDE DEF R
      <4> QED BY <4>1
    <3> QED BY <1>3, <2>1, <3>1
  <2>2. CASE q \in S
    <3>1. {l \in R : l <= q} = {l \in S : l <= q}
      BY <1>2, <2>2
    <3> QED BY <1>1, <2>2, <3>1
  <2> QED BY <2>1, <2>2
<1> HIDE DEF R
<1> QED BY <1>2, <1>3, <1>4 DEF Left

\* No byte of a header is always left; and a whole header never is, if NoHeaderLeft.
LEMMA LeftNothing == \A body, p : Left(body, 0, p)
<1> SUFFICES ASSUME NEW body, NEW p PROVE Left(body, 0, p)
  OBVIOUS
<1>1. {} \in SUBSET (2 .. p - 1) /\ Cardinality({}) = 0
  BY FS_EmptySet
<1>2. \A q \in {} : Packet(body)[q] = Header[Cardinality({r \in {} : r <= q})]
  OBVIOUS
<1> QED BY <1>1, <1>2 DEF Left

LEMMA LeftNoHeader ==
  ASSUME NoHeaderLeft, NEW body \in Bodies, NEW p \in Nat, p <= Len(body) + 9,
         Left(body, 7, p)
  PROVE  FALSE
<1>1. Len(body) \in Nat
  BY BodySize
<1>2. PICK S \in SUBSET (2 .. p - 1) :
        /\ Cardinality(S) = 7
        /\ \A q \in S : Packet(body)[q] = Header[Cardinality({r \in S : r <= q})]
  BY DEF Left
<1>3. 2 .. p - 1 \subseteq 2 .. Len(body) + 9
  BY <1>1
<1>4. S \in SUBSET (2 .. Len(body) + 9)
  BY <1>3
<1> QED BY <1>2, <1>4 DEF NoHeaderLeft

(***************************************************************************)
(* The line gets shorter                                                    *)
(***************************************************************************)

\* t has only bytes of s, in the same order.
Thins(s, t) ==
  \E g \in [1 .. Len(t) -> 1 .. Len(s)] :
    /\ \A i, j \in 1 .. Len(t) : i < j => g[i] < g[j]
    /\ \A i \in 1 .. Len(t) : t[i] = s[g[i]]

\* What is left of a sequence in order is in order.
LEMMA ThinnedInOrder ==
  ASSUME NEW s, NEW t, Thins(s, t), InOrder(s)
  PROVE  InOrder(t) /\ \A i \in 1 .. Len(t) : \E j \in 1 .. Len(s) : t[i] = s[j]
<1>1. PICK g \in [1 .. Len(t) -> 1 .. Len(s)] :
        /\ \A i, j \in 1 .. Len(t) : i < j => g[i] < g[j]
        /\ \A i \in 1 .. Len(t) : t[i] = s[g[i]]
  BY DEF Thins
<1>2. \A i \in 1 .. Len(t) : g[i] \in 1 .. Len(s)
  OBVIOUS
<1> QED BY <1>1, <1>2 DEF InOrder

\* The end of a sequence,
LEMMA ThinsSuffix ==
  ASSUME NEW s \in Seq(BytesOnLine), NEW t \in Seq(BytesOnLine)
  PROVE  Thins(s \o t, t)
<1> DEFINE u == s \o t
           a == Len(s)
           c == Len(t)
           g == [i \in 1 .. c |-> i + a]
<1>1. a \in Nat /\ c \in Nat
  BY LenProperties
<1>2. Len(u) = a + c /\ \A i \in 1 .. a + c : u[i] = IF i <= a THEN s[i] ELSE t[i - a]
  BY ConcatProperties, Zenon
<1> HIDE DEF u, a, c
<1>3. \A i \in 1 .. c : i + a \in 1 .. a + c /\ ~(i + a <= a) /\ (i + a) - a = i
  BY <1>1
<1>4. g \in [1 .. c -> 1 .. a + c] /\ \A i \in 1 .. c : g[i] = i + a
  BY <1>3
<1> HIDE DEF g
<1>5. \A i, j \in 1 .. c : i < j => g[i] < g[j]
  BY <1>1, <1>4
<1>6. \A i \in 1 .. c : t[i] = u[g[i]]
  BY <1>2, <1>3, <1>4
<1>7. Thins(u, t)
  BY <1>2, <1>4, <1>5, <1>6 DEF Thins, c
<1> QED BY <1>7 DEF u

LEMMA ThinsTail ==
  ASSUME NEW s \in Seq(BytesOnLine), s # <<>>
  PROVE  Thins(s, Tail(s))
<1>1. <<Head(s)>> \in Seq(BytesOnLine) /\ Tail(s) \in Seq(BytesOnLine)
  BY HeadTailProperties
<1>2. <<Head(s)>> \o Tail(s) = s
  OBVIOUS
<1>3. Thins(<<Head(s)>> \o Tail(s), Tail(s))
  BY <1>1, ThinsSuffix
<1> QED BY <1>2, <1>3

\* and a sequence that lacks a byte in its middle.
LEMMA ThinsMiddle ==
  ASSUME NEW s \in Seq(BytesOnLine), NEW t \in Seq(BytesOnLine), t # <<>>
  PROVE  Thins(s \o t, s \o Tail(t))
<1> DEFINE u == s \o t
           v == s \o Tail(t)
           a == Len(s)
           c == Len(Tail(t))
           g == [i \in 1 .. a + c |-> IF i <= a THEN i ELSE i + 1]
<1>1. /\ Tail(t) \in Seq(BytesOnLine) /\ Len(t) = c + 1
      /\ \A i \in 1 .. c : Tail(t)[i] = t[i + 1]
  BY HeadTailProperties
<1>2. a \in Nat /\ c \in Nat
  BY <1>1, LenProperties
<1>3. /\ Len(u) = a + Len(t)
      /\ \A i \in 1 .. a + Len(t) : u[i] = IF i <= a THEN s[i] ELSE t[i - a]
  BY ConcatProperties, Zenon
<1>4. Len(v) = a + c /\ \A i \in 1 .. a + c : v[i] = IF i <= a THEN s[i] ELSE Tail(t)[i - a]
  BY <1>1, ConcatProperties, Zenon
<1> HIDE DEF u, v, a, c
<1>5. /\ Len(u) = a + c + 1
      /\ \A i \in 1 .. a + c + 1 : u[i] = IF i <= a THEN s[i] ELSE t[i - a]
  <2>1. a + Len(t) = a + c + 1
    BY <1>1, <1>2
  <2> QED BY <1>3, <2>1
<1>6. \A i \in 1 .. a + c :
        /\ i \in 1 .. a + c + 1 /\ i + 1 \in 1 .. a + c + 1
        /\ ~(i <= a) => i - a \in 1 .. c /\ ~(i + 1 <= a) /\ (i + 1) - a = (i - a) + 1
  BY <1>2
<1>7. g \in [1 .. a + c -> 1 .. a + c + 1]
      /\ \A i \in 1 .. a + c : g[i] = IF i <= a THEN i ELSE i + 1
  BY <1>6
<1> HIDE DEF g
<1>8. ASSUME NEW i \in 1 .. a + c, NEW j \in 1 .. a + c, i < j PROVE g[i] < g[j]
  <2>1. i < j /\ i < j + 1 /\ i + 1 < j + 1 /\ (j <= a => i <= a)
    BY <1>2, <1>8
  <2> QED BY <1>7, <2>1
<1>9. ASSUME NEW i \in 1 .. a + c PROVE v[i] = u[g[i]]
  <2>1. CASE i <= a
    BY <1>4, <1>5, <1>6, <1>7, <2>1
  <2>2. CASE ~(i <= a)
    <3>1. g[i] = i + 1 /\ i + 1 \in 1 .. a + c + 1 /\ ~(i + 1 <= a)
          /\ (i + 1) - a = (i - a) + 1 /\ i - a \in 1 .. c
      BY <1>6, <1>7, <2>2
    <3>2. u[i + 1] = t[(i + 1) - a]
      BY <1>5, <3>1
    <3>3. v[i] = Tail(t)[i - a] /\ Tail(t)[i - a] = t[(i - a) + 1]
      BY <1>1, <1>4, <2>2, <3>1
    <3> QED BY <3>1, <3>2, <3>3
  <2> QED BY <2>1, <2>2
<1>10. Thins(u, v)
  BY <1>4, <1>5, <1>7, <1>8, <1>9 DEF Thins
<1> QED BY <1>10 DEF u, v

(***************************************************************************)
(* Every step leaves the line in order                                      *)
(***************************************************************************)

\* A sequence is a thinned one of itself.
LEMMA ThinsSame ==
  ASSUME NEW s \in Seq(BytesOnLine)
  PROVE  Thins(s, s)
<1> DEFINE g == [i \in 1 .. Len(s) |-> i]
<1>1. g \in [1 .. Len(s) -> 1 .. Len(s)]
  OBVIOUS
<1>2. \A i, j \in 1 .. Len(s) : i < j => g[i] < g[j]
  OBVIOUS
<1>3. \A i \in 1 .. Len(s) : s[i] = s[g[i]]
  OBVIOUS
<1> HIDE DEF g
<1> QED BY <1>1, <1>2, <1>3 DEF Thins

\* The line is a sequence of bytes.
LEMMA LineType == TypeOK => Line \in Seq(BytesOnLine)
  BY ConcatProperties DEF TypeOK, Line

\* The line gets shorter: what is said of its bytes stays true.
LEMMA LineThinned ==
  ASSUME Thins(Line, Line'), NEW B, LineInv(B), sent' = sent, last' = last
  PROVE  LineInv(B)'
<1>1. InOrder(Line') /\ \A i \in 1 .. Len(Line') : \E j \in 1 .. Len(Line) : Line'[i] = Line[j]
  BY ThinnedInOrder DEF LineInv
<1>2. \A i \in 1 .. Len(Line') : Carries(Line'[i], B, sent') /\ IsRest(Line'[i], last')
  BY <1>1 DEF LineInv, IsRest
<1> QED BY <1>1, <1>2 DEF LineInv, InOrder

\* Bytes are received or lost.
LEMMA LinkThinned ==
  ASSUME LinkInv, Thins(Line, Line'), UNCHANGED <<waiting, idx, data, sent, last>>
  PROVE  LinkInv'
<1>1. PICK B \in Texts : LineInv(B) /\ RestInv(B)
  BY DEF LinkInv
<1>2. LineInv(B)'
  BY <1>1, LineThinned
<1>3. \A i \in 1 .. Len(Line') : \E j \in 1 .. Len(Line) : Line'[i] = Line[j]
  BY <1>1, ThinnedInOrder DEF LineInv
<1>4. RestInv(B)'
  BY <1>1, <1>3 DEF RestInv
<1> QED BY <1>1, <1>2, <1>4 DEF LinkInv

\* Initially the line is empty.
LEMMA InitLink == Init => LinkInv
<1> SUFFICES ASSUME Init PROVE LinkInv
  OBVIOUS
<1>1. Line = <<>> /\ waiting = FALSE /\ last = 0 /\ sent = 0 /\ Len(<<>>) = 0
  BY DEF Init, Line
<1>2. [n \in 1 .. MaxCommands |-> <<>>] \in Texts
  BY DEF Texts
<1>3. \A B \in Texts : LineInv(B) /\ RestInv(B)
  BY <1>1 DEF LineInv, InOrder, RestInv
<1> QED BY <1>1, <1>2, <1>3 DEF LinkInv

\* A command: its answer is behind all that is on the line.
LEMMA CommandLink ==
  ASSUME TInv, LinkInv, Command
  PROVE  LinkInv'
<1>1. /\ waiting' = TRUE /\ rx' = <<>> /\ sent' = sent + 1 /\ last' = last
      /\ idx' = 0 /\ data' = <<>>
      /\ sent \in 0 .. MaxCommands - 1 /\ sent \in Nat /\ last \in Nat
      /\ rx \in Seq(BytesOnLine) /\ wire \in Seq(BytesOnLine)
  BY MaxAssumption DEF Command, ResetLocals, TInv, TypeOK
<1>2. PICK B \in Texts : LineInv(B) /\ RestInv(B)
  BY DEF LinkInv
<1>3. last <= sent
  BY DEF LinkInv
<1>4. last' <= sent'
  BY <1>1, <1>3
<1>5. \A C : RestInv(C)'
  BY <1>1, LeftNothing DEF RestInv
<1>6. InOrder(wire) /\ \A i \in 1 .. Len(wire) : \E j \in 1 .. Len(Line) : wire[i] = Line[j]
  <2>1. Thins(Line, wire)
    BY <1>1, ThinsSuffix DEF Line
  <2> QED BY <1>2, <2>1, ThinnedInOrder DEF LineInv
<1>7. \A i \in 1 .. Len(wire) :
        wire[i] \in BytesOnLine /\ Carries(wire[i], B, sent) /\ IsRest(wire[i], last)
  <2>1. \A i \in 1 .. Len(wire) : wire[i] \in BytesOnLine
    BY <1>1, ElementOfSeq
  <2> QED BY <1>2, <1>6, <2>1 DEF LineInv
<1>8. wire' \in Seq(BytesOnLine) => Line' = wire'
  BY <1>1 DEF Line
<1>9. CASE wire' = wire
  <2>1. Line' = wire
    BY <1>1, <1>8, <1>9
  <2>2. ASSUME NEW i \in 1 .. Len(wire)
        PROVE  Carries(wire[i], B, sent + 1) /\ IsRest(wire[i], last')
    <3>1. wire[i].answer \in Nat
      BY <1>7, MaxAssumption DEF BytesOnLine
    <3> QED BY <1>1, <1>7, <3>1 DEF Carries
  <2>3. LineInv(B)'
    BY <1>1, <1>6, <1>9, <2>1, <2>2 DEF LineInv, InOrder
  <2> QED BY <1>2, <1>4, <1>5, <2>3 DEF LinkInv
<1>10. CASE \E body \in Bodies : wire' = wire \o Frame(body, sent + 1)
  <2>1. PICK body \in Bodies : wire' = wire \o Frame(body, sent + 1)
    BY <1>10
  <2> DEFINE f == Frame(body, sent + 1)
             u == wire \o f
             a == Len(wire)
             c == Len(body) + 9
  <2>0. sent + 1 \in 1 .. MaxCommands /\ c \in Nat /\ a \in Nat
    BY <1>1, MaxAssumption, BodySize, LenProperties
  <2>2. PICK C \in Texts : C[sent + 1] = body /\ \A m \in 1 .. MaxCommands : m <= sent => C[m] = B[m]
    <3> DEFINE D == [B EXCEPT ![sent + 1] = body]
    <3>1. D \in Texts /\ D[sent + 1] = body /\ \A m \in 1 .. MaxCommands : m <= sent => D[m] = B[m]
      BY <1>1, <2>0 DEF Texts
    <3> HIDE DEF D
    <3> QED BY <3>1
  <2>3. /\ f \in Seq(BytesOnLine) /\ Len(f) = c
        /\ \A i \in 1 .. c : /\ f[i].value = Packet(body)[i]
                             /\ f[i].answer = sent + 1
                             /\ f[i].place = i
    BY <2>0, FrameProperties
  <2> HIDE DEF f, c
  <2>4. /\ u \in Seq(BytesOnLine) /\ Len(u) = a + c
        /\ \A i \in 1 .. a + c : u[i] = IF i <= a THEN wire[i] ELSE f[i - a]
    <3>1. /\ u \in Seq(BytesOnLine) /\ Len(u) = Len(wire) + Len(f)
          /\ \A i \in 1 .. Len(wire) + Len(f) :
               u[i] = IF i <= Len(wire) THEN wire[i] ELSE f[i - Len(wire)]
      BY <1>1, <2>3, ConcatProperties, Zenon
    <3> QED BY <2>3, <3>1
  <2>5. Line' = u
    BY <1>8, <2>1, <2>4 DEF f
  <2> HIDE DEF u
  <2>6. \A i \in 1 .. a : /\ wire[i].answer \in 1 .. MaxCommands /\ wire[i].answer <= sent
                          /\ Carries(wire[i], C, sent + 1) /\ last <= wire[i].answer
                          /\ (wire[i].answer = last => wire[i].place > 1)
    <3> SUFFICES ASSUME NEW i \in 1 .. Len(wire)
                 PROVE  /\ wire[i].answer \in 1 .. MaxCommands /\ wire[i].answer <= sent
                        /\ Carries(wire[i], C, sent + 1) /\ last <= wire[i].answer
                        /\ (wire[i].answer = last => wire[i].place > 1)
      OBVIOUS
    <3>1. wire[i] \in BytesOnLine /\ Carries(wire[i], B, sent) /\ IsRest(wire[i], last)
      BY <1>7
    <3>2. wire[i].answer \in 1 .. MaxCommands /\ wire[i].answer <= sent
      BY <3>1 DEF BytesOnLine, Carries
    <3>3. C[wire[i].answer] = B[wire[i].answer] /\ wire[i].answer <= sent + 1
      BY <1>1, <2>2, <3>2
    <3>4. Carries(wire[i], C, sent + 1)
      BY <3>1, <3>3 DEF Carries
    <3> QED BY <3>1, <3>2, <3>4 DEF IsRest
  <2>7. \A i \in 1 .. c : /\ f[i].answer = sent + 1 /\ f[i].place = i
                          /\ Carries(f[i], C, sent + 1) /\ last < f[i].answer
    <3> SUFFICES ASSUME NEW i \in 1 .. c
                 PROVE  Carries(f[i], C, sent + 1) /\ last < f[i].answer
      BY <2>3
    <3>1. last < f[i].answer
      BY <1>1, <1>3, <2>3
    <3>2. i <= Len(body) + 9
      BY <2>0 DEF c
    <3>3. f[i].answer = sent + 1 /\ C[f[i].answer] = body /\ f[i].place <= Len(C[f[i].answer]) + 9
          /\ f[i].value = Packet(C[f[i].answer])[f[i].place]
      BY <2>2, <2>3, <3>2
    <3>4. sent + 1 <= sent + 1
      BY <1>1
    <3> QED BY <3>1, <3>3, <3>4 DEF Carries
  <2>8. \A i \in 1 .. a + c : \/ i \in 1 .. a /\ u[i] = wire[i] /\ i <= a
                              \/ i - a \in 1 .. c /\ u[i] = f[i - a] /\ ~(i <= a)
    BY <2>0, <2>4
  <2>9. ASSUME NEW i \in 1 .. a + c
        PROVE  Carries(u[i], C, sent + 1) /\ last <= u[i].answer
               /\ (u[i].answer = last => u[i].place > 1)
    <3>1. CASE i \in 1 .. a /\ u[i] = wire[i]
      BY <2>6, <3>1
    <3>2. CASE i - a \in 1 .. c /\ u[i] = f[i - a]
      <4>1. Carries(u[i], C, sent + 1) /\ last < u[i].answer /\ u[i].answer = sent + 1
        BY <2>7, <3>2
      <4> QED BY <1>1, <4>1
    <3> QED BY <2>8, <3>1, <3>2
  <2>10. ASSUME NEW i \in 1 .. a + c, NEW j \in 1 .. a + c, i < j PROVE Before(u[i], u[j])
    <3>1. CASE i <= a /\ j <= a
      <4>1. i \in 1 .. Len(wire) /\ j \in 1 .. Len(wire) /\ u[i] = wire[i] /\ u[j] = wire[j]
        BY <2>0, <2>8, <3>1
      <4> QED BY <1>6, <2>10, <4>1 DEF InOrder
    <3>2. CASE i <= a /\ ~(j <= a)
      <4>1. i \in 1 .. a /\ u[i] = wire[i] /\ j - a \in 1 .. c /\ u[j] = f[j - a]
        BY <2>8, <3>2
      <4>2. u[i].answer \in 1 .. MaxCommands /\ u[i].answer <= sent /\ u[j].answer = sent + 1
        BY <2>6, <2>7, <4>1
      <4>3. u[i].answer < u[j].answer
        BY <1>1, <4>2
      <4> QED BY <4>3 DEF Before
    <3>3. CASE ~(i <= a) /\ ~(j <= a)
      <4>1. i - a \in 1 .. c /\ u[i] = f[i - a] /\ j - a \in 1 .. c /\ u[j] = f[j - a]
        BY <2>8, <3>3
      <4>2. u[i].answer = u[j].answer /\ u[i].place = i - a /\ u[j].place = j - a
        BY <2>7, <4>1
      <4>3. u[i].place < u[j].place
        BY <2>0, <2>10, <4>2
      <4> QED BY <4>2, <4>3 DEF Before
    <3> QED BY <2>0, <2>10, <3>1, <3>2, <3>3
  <2>11. LineInv(C)'
    <3>1. Len(Line') = a + c
      BY <2>4, <2>5
    <3>2. InOrder(Line')
      BY <2>5, <2>10, <3>1 DEF InOrder
    <3>3. \A i \in 1 .. Len(Line') : Carries(Line'[i], C, sent') /\ IsRest(Line'[i], last')
      BY <1>1, <2>5, <2>9, <3>1 DEF IsRest
    <3> QED BY <3>2, <3>3 DEF LineInv, InOrder
  <2> QED BY <1>4, <1>5, <2>2, <2>11 DEF LinkInv
<1> QED BY <1>9, <1>10 DEF Command

\* A byte is read: those behind it were sent later.
LEMMA ReadFirst ==
  ASSUME TInv, ReadByte, NEW B, LineInv(B)
  PROVE  /\ Line[1] \in BytesOnLine /\ Carries(Line[1], B, sent) /\ IsRest(Line[1], last)
         /\ \A i \in 1 .. Len(Line') : Before(Line[1], Line'[i])
         /\ \A i \in 1 .. Len(Line') : \E j \in 1 .. Len(Line) : Line'[i] = Line[j]
         /\ Line' \in Seq(BytesOnLine)
<1>1. Line \in Seq(BytesOnLine) /\ Line # <<>> /\ Line' = Tail(Line)
  BY LineRead DEF TInv
<1> DEFINE a == Len(Line)
<1>2. /\ Line' \in Seq(BytesOnLine) /\ Len(Line') = a - 1
      /\ \A i \in 1 .. Len(Line') : Line'[i] = Line[i + 1]
  BY <1>1, HeadTailProperties
<1>3. a \in Nat /\ a # 0 /\ \A i \in 1 .. a : Line[i] \in BytesOnLine
  BY <1>1, ElementOfSeq
<1>4. \A i \in 1 .. a : \A j \in 1 .. a : i < j => Before(Line[i], Line[j])
  BY DEF LineInv, InOrder
<1>5. \A i \in 1 .. a : Carries(Line[i], B, sent) /\ IsRest(Line[i], last)
  BY DEF LineInv
<1> HIDE DEF a
<1>6. 1 \in 1 .. a /\ \A i \in 1 .. a - 1 : i + 1 \in 1 .. a /\ 1 < i + 1
  BY <1>3
<1>7. \A i \in 1 .. Len(Line') : Line'[i] = Line[i + 1] /\ i + 1 \in 1 .. a /\ 1 < i + 1
  BY <1>2, <1>6
<1>8. \A i \in 1 .. Len(Line') : Before(Line[1], Line'[i])
  BY <1>4, <1>6, <1>7
<1>9. \A i \in 1 .. Len(Line') : \E j \in 1 .. Len(Line) : Line'[i] = Line[j]
  BY <1>7 DEF a
<1> QED BY <1>2, <1>3, <1>5, <1>6, <1>8, <1>9

\* In the body, the answer that is read is later than the one returned last,
\* and earlier than all that is to come.
LEMMA ReadBody ==
  ASSUME TInv, ReadByte, idx >= 9, NEW B, LineInv(B), RestInv(B)
  PROVE  /\ data' \in Seq(BytesOnLine) /\ data' # <<>>
         /\ data'[1] \in BytesOnLine
         /\ data'[1] = IF data = <<>> THEN Line[1] ELSE data[1]
         /\ last < data'[1].answer /\ data'[1].answer <= sent
         /\ \A i \in 1 .. Len(Line') : Before(data'[1], Line'[i])
<1> DEFINE x == Line[1]
<1>1. /\ Line \in Seq(BytesOnLine) /\ Line # <<>> /\ x = Head(rx)
  BY LineRead DEF TInv
<1>2. /\ x \in BytesOnLine /\ Carries(x, B, sent) /\ IsRest(x, last)
      /\ \A i \in 1 .. Len(Line') : Before(x, Line'[i])
      /\ \A i \in 1 .. Len(Line') : \E j \in 1 .. Len(Line) : Line'[i] = Line[j]
  BY ReadFirst
<1>3. data' = Append(data, x) /\ waiting
  BY <1>1 DEF ReadByte
<1>4. data \in Seq(BytesOnLine) /\ last \in Nat /\ sent \in Nat
  BY DEF TInv, TypeOK
<1>5. x.answer # last
  <2>1. 1 \in 1 .. Len(Line)
    BY <1>1
  <2>2. idx \in Nat
    BY DEF TInv, TypeOK
  <2> QED BY <1>3, <2>1, <2>2 DEF RestInv
<1> HIDE DEF x
<1>6. last < x.answer /\ x.answer <= sent
  <2>1. x.answer \in Nat
    BY <1>2, MaxAssumption DEF BytesOnLine
  <2> QED BY <1>2, <1>4, <1>5, <2>1 DEF IsRest, Carries
<1>7. data' \in Seq(BytesOnLine) /\ Len(data') = Len(data) + 1
      /\ \A i \in 1 .. Len(data) : data'[i] = data[i]
      /\ data'[Len(data) + 1] = x
  BY <1>2, <1>3, <1>4, AppendProperties
<1>8. data' # <<>>
  BY <1>3, <1>4
<1>9. CASE data = <<>>
  <2>1. data'[1] = x
    <3>1. Append(<<>>, x) = <<x>>
      OBVIOUS
    <3> QED BY <1>3, <1>9, <3>1
  <2> QED BY <1>2, <1>6, <1>7, <1>8, <1>9, <2>1 DEF x
<1>10. CASE data # <<>>
  <2>1. 1 \in 1 .. Len(data)
    BY <1>4, <1>10
  <2>2. data'[1] = data[1] /\ data[1] \in BytesOnLine
    BY <1>4, <1>7, <2>1, ElementOfSeq
  <2>3. /\ last < data[1].answer /\ data[1].answer <= sent
        /\ \A i \in 1 .. Len(Line) : Before(data[1], Line[i])
    BY <1>3, <1>10 DEF RestInv
  <2> QED BY <1>2, <1>7, <1>8, <1>10, <2>2, <2>3
<1> QED BY <1>9, <1>10

\* Nothing is left on the line of the answer returned last.
NoRest == \A i \in 1 .. Len(Line) : Line[i].answer # last

\* A byte is read: if it is left of the answer returned last, the header that is
\* looked for grows by bytes of that answer only, and is never whole.
LEMMA ReadByteLink ==
  ASSUME NoHeaderLeft \/ NoRest, TInv, LinkInv, ReadByte
  PROVE  LinkInv'
<1> DEFINE x == Line[1]
<1>1. /\ Line \in Seq(BytesOnLine) /\ Line # <<>> /\ x = Head(rx) /\ Line' = Tail(Line)
  BY LineRead DEF TInv
<1>2. PICK B \in Texts : LineInv(B) /\ RestInv(B)
  BY DEF LinkInv
<1>3. /\ x \in BytesOnLine /\ Carries(x, B, sent) /\ IsRest(x, last)
      /\ \A i \in 1 .. Len(Line') : Before(x, Line'[i])
      /\ \A i \in 1 .. Len(Line') : \E j \in 1 .. Len(Line) : Line'[i] = Line[j]
      /\ Line' \in Seq(BytesOnLine)
  BY <1>2, ReadFirst
<1>4. waiting /\ sent' = sent /\ idx \in Nat /\ last \in Nat /\ sent \in Nat
      /\ (idx < 9 => data = <<>>)
  BY DEF ReadByte, TInv, TypeOK, Counted
<1>5. Thins(Line, Line')
  BY <1>1, ThinsTail
<1>6. CASE idx >= 9 /\ Complete
  <2> DEFINE d == data'[1]
  <2>1. waiting' = FALSE /\ last' = d.answer
    BY <1>6 DEF ReadByte
  <2>2. /\ d \in BytesOnLine
        /\ last < d.answer /\ d.answer <= sent
        /\ \A i \in 1 .. Len(Line') : Before(d, Line'[i])
    BY <1>2, <1>6, ReadBody
  <2>3. InOrder(Line')
    BY <1>2, <1>5, ThinnedInOrder DEF LineInv
  <2> HIDE DEF d
  <2>4. ASSUME NEW i \in 1 .. Len(Line')
        PROVE  Carries(Line'[i], B, sent') /\ IsRest(Line'[i], last')
    <3> DEFINE y == Line'[i]
    <3>1. Carries(y, B, sent')
      BY <1>2, <1>3, <1>4 DEF LineInv
    <3>2. Before(d, y) /\ y \in BytesOnLine
      BY <1>3, <2>2, ElementOfSeq
    <3> HIDE DEF y
    <3>3. d.answer \in Nat /\ y.answer \in Nat /\ d.place \in Nat \ {0} /\ y.place \in Nat \ {0}
      BY <2>2, <3>2, MaxAssumption DEF BytesOnLine
    <3>4. d.answer <= y.answer /\ (y.answer = d.answer => y.place > 1)
      BY <3>2, <3>3 DEF Before
    <3> QED BY <2>1, <3>1, <3>4 DEF IsRest, y
  <2>5. LineInv(B)'
    BY <2>3, <2>4 DEF LineInv, InOrder
  <2>6. RestInv(B)'
    BY <2>1 DEF RestInv
  <2>7. last' <= sent'
    BY <1>4, <2>1, <2>2
  <2> QED BY <2>5, <2>6, <2>7 DEF LinkInv
<1>7. CASE ~(idx >= 9 /\ Complete)
  <2>1. /\ waiting' /\ last' = last
        /\ idx' = IF Mismatch(x.value) THEN 0 ELSE idx + 1
        /\ data' = IF idx >= 9 THEN Append(data, x) ELSE data
    BY <1>1, <1>4, <1>7 DEF ReadByte
  <2>2. LineInv(B)'
    BY <1>2, <1>4, <1>5, <2>1, LineThinned
  <2>3. data' # <<>> => /\ last' < data'[1].answer /\ data'[1].answer <= sent'
                        /\ \A i \in 1 .. Len(Line') : Before(data'[1], Line'[i])
    <3>1. CASE idx >= 9
      BY <1>2, <1>4, <2>1, <3>1, ReadBody
    <3>2. CASE idx < 9
      <4>1. data' = <<>>
        BY <1>4, <2>1, <3>2
      <4> QED BY <4>1
    <3> QED BY <1>4, <3>1, <3>2
  <2>4. ASSUME NEW i \in 1 .. Len(Line'), Line'[i].answer = last
        PROVE  idx' < 7 /\ Left(B[last], idx', Line'[i].place)
    <3> DEFINE y == Line'[i]
    <3>1. Before(x, y) /\ y \in BytesOnLine /\ Carries(y, B, sent)
      <4>1. Before(x, y) /\ y \in BytesOnLine
        BY <1>3, ElementOfSeq
      <4>2. Carries(y, B, sent)
        BY <1>2, <1>3 DEF LineInv
      <4> QED BY <4>1, <4>2
    <3>2. y.answer = last
      BY <2>4
    <3> HIDE DEF x, y
    <3>3. /\ x.answer \in Nat /\ y.answer \in Nat /\ x.place \in Nat /\ y.place \in Nat
      BY <1>3, <3>1, MaxAssumption DEF BytesOnLine
    <3>4. x.answer = last /\ x.place > 1 /\ x.place < y.place
      BY <1>3, <1>4, <3>1, <3>2, <3>3 DEF Before, IsRest
    <3>5. idx < 7 /\ Left(B[last], idx, x.place) /\ NoHeaderLeft
      <4>1. 1 \in 1 .. Len(Line)
        BY <1>1
      <4> QED BY <1>2, <1>4, <3>4, <4>1 DEF RestInv, NoRest, x
    <3>6. CASE Mismatch(x.value)
      <4>1. idx' = 0
        BY <2>1, <3>6
      <4> QED BY <4>1, LeftNothing DEF y
    <3>7. CASE ~Mismatch(x.value)
      <4>1. idx' = idx + 1
        BY <2>1, <3>7
      <4>2. x.value = Header[idx + 1] /\ idx \in 0 .. 6
        BY <1>4, <3>5, <3>7 DEF Mismatch
      <4>3. Packet(B[last])[x.place] = Header[idx + 1]
        BY <1>3, <3>4, <4>2 DEF Carries
      <4>4. Left(B[last], idx + 1, y.place)
        BY <3>3, <3>4, <3>5, <4>2, <4>3, LeftNext
      <4>5. idx + 1 # 7
        <5> SUFFICES ASSUME idx + 1 = 7 PROVE FALSE
          OBVIOUS
        <5>1. B[last] \in Bodies /\ y.place <= Len(B[last]) + 9
          BY <3>1, <3>2 DEF Carries
        <5>2. Left(B[last], 7, y.place)
          BY <4>4
        <5> QED BY <3>3, <3>5, <5>1, <5>2, LeftNoHeader
      <4>6. idx' < 7
        BY <4>1, <4>2, <4>5
      <4> QED BY <4>1, <4>4, <4>6 DEF y
    <3> QED BY <3>6, <3>7
  <2>5. RestInv(B)'
    BY <2>1, <2>3, <2>4 DEF RestInv
  <2>6. last' <= sent'
    BY <1>4, <2>1 DEF LinkInv
  <2> QED BY <2>2, <2>5, <2>6 DEF LinkInv
<1> QED BY <1>6, <1>7

\* When transfer_ gives up, the line stays as it is.
LEMMA ExpireLink ==
  ASSUME LinkInv, Expire
  PROVE  LinkInv'
<1>1. PICK B \in Texts : LineInv(B) /\ RestInv(B)
  BY DEF LinkInv
<1>2. Line' = Line /\ last' = last /\ sent' = sent /\ waiting' = FALSE
  BY DEF Expire, Line
<1>3. LineInv(B)' /\ RestInv(B)'
  BY <1>1, <1>2 DEF LineInv, InOrder, RestInv
<1> QED BY <1>2, <1>3 DEF LinkInv

\* LinkInv is an invariant, given the types.
LEMMA NextLink ==
  ASSUME NoHeaderLeft
  PROVE  TInv /\ LinkInv /\ [Next]_vars => LinkInv'
<1> SUFFICES ASSUME TInv, LinkInv, [Next]_vars PROVE LinkInv'
  OBVIOUS
<1>0. Line \in Seq(BytesOnLine)
  BY LineType DEF TInv
<1>1. CASE Command BY <1>1, CommandLink
<1>2. CASE Delay
  <2>1. Line' = Line
    BY <1>2 DEF Delay, Line
  <2> QED BY <1>0, <1>2, <2>1, ThinsSame, LinkThinned DEF Delay, history
<1>3. CASE ReadByte BY <1>3, ReadByteLink
<1>4. CASE Expire BY <1>4, ExpireLink
<1>5. CASE Deliver
  <2>1. Line' = Line
    BY <1>5, LineDelivered DEF TInv
  <2> QED BY <1>0, <1>5, <2>1, ThinsSame, LinkThinned DEF Deliver, locals, history
<1>6. CASE Lose
  <2>1. /\ Line = rx \o wire /\ Line' = rx \o Tail(wire) /\ wire # <<>>
        /\ rx \in Seq(BytesOnLine) /\ wire \in Seq(BytesOnLine)
    BY <1>6 DEF Lose, Line, TInv, TypeOK
  <2>2. Thins(Line, Line')
    BY <2>1, ThinsMiddle
  <2> QED BY <1>6, <2>2, LinkThinned DEF Lose, locals, history
<1>7. CASE UNCHANGED vars
  <2>1. Line' = Line
    BY <1>7 DEF vars, Line
  <2> QED BY <1>0, <1>7, <2>1, ThinsSame, LinkThinned DEF vars, locals, history
<1> QED BY <1>1, <1>2, <1>3, <1>4, <1>5, <1>6, <1>7 DEF Next, Parse

(***************************************************************************)
(* The refinement                                                           *)
(***************************************************************************)

\* The answer whose body is being read.
BeingRead == IF waiting /\ data # <<>> THEN {data[1].answer} ELSE {}

\* The answers that are left, by the bytes on the line.
LEMMA PendingIs ==
  TypeOK => /\ Pending = {n \in Numbers(Line) \cup BeingRead : n > last}
            /\ Pending \in SUBSET (1 .. MaxCommands)
<1> SUFFICES ASSUME TypeOK
             PROVE  /\ Pending = {n \in Numbers(Line) \cup BeingRead : n > last}
                    /\ Pending \in SUBSET (1 .. MaxCommands)
  OBVIOUS
<1>1. rx \in Seq(BytesOnLine) /\ wire \in Seq(BytesOnLine) /\ data \in Seq(BytesOnLine)
  BY DEF TypeOK
<1>2. Numbers(Line) = Numbers(rx) \cup Numbers(wire)
  BY <1>1, NumbersConcat DEF Line
<1>3. Numbers(rx) \in SUBSET (1 .. MaxCommands) /\ Numbers(wire) \in SUBSET (1 .. MaxCommands)
  BY <1>1, NumbersType
<1>4. BeingRead \in SUBSET (1 .. MaxCommands)
  <2>1. ASSUME data # <<>> PROVE data[1].answer \in 1 .. MaxCommands
    <3>1. 1 \in 1 .. Len(data)
      BY <1>1, <2>1
    <3>2. data[1] \in BytesOnLine
      BY <1>1, <3>1, ElementOfSeq
    <3> QED BY <3>2 DEF BytesOnLine
  <2> QED BY <2>1 DEF BeingRead
<1>5. Pending = {n \in Numbers(wire) \cup Numbers(rx) \cup BeingRead : n > last}
  BY Zenon DEF Pending, BeingRead
<1>6. Pending = {n \in Numbers(Line) \cup BeingRead : n > last}
  BY <1>2, <1>5
<1>7. Pending \in SUBSET (1 .. MaxCommands)
  BY <1>3, <1>4, <1>5
<1> QED BY <1>6, <1>7

\* An answer on the line is there with one of its bytes.
LEMMA OnLine ==
  ASSUME TypeOK, NEW n \in Numbers(Line)
  PROVE  \E i \in 1 .. Len(Line) : Line[i] \in BytesOnLine /\ Line[i].answer = n
<1>1. Line \in Seq(BytesOnLine)
  BY LineType
<1>2. PICK i \in 1 .. Len(Line) : Line[i].answer = n
  BY <1>1, NumbersType
<1> QED BY <1>1, <1>2, ElementOfSeq

\* The sequence depends on the set alone.
LEMMA UnreadSame ==
  ASSUME Pending' = Pending
  PROVE  Unread' = Unread
  BY DEF Unread, Ascending

\* One answer less, or none.
LEMMA OneLess ==
  ASSUME TypeOK, NEW e, Pending' \subseteq Pending, Pending \subseteq Pending' \cup {e},
         UNCHANGED <<sent, waiting, returned>>
  PROVE  [Link!Next]_Link!vars
<1>1. MaxCommands \in Nat /\ Pending \in SUBSET (1 .. MaxCommands)
  BY MaxAssumption, PendingIs
<1>2. CASE Pending' = Pending
  <2>1. Unread' = Unread
    BY <1>2, UnreadSame
  <2> QED BY <2>1 DEF Link!vars
<1>3. CASE Pending' # Pending
  <2>1. e \in Pending /\ Pending' = Pending \ {e}
    BY <1>3
  <2>2. \E i \in DOMAIN Unread : Unread' = RemoveAt(Unread, i)
    <3>1. \E i \in DOMAIN Ascending(Pending) :
            Ascending(Pending \ {e}) = RemoveAt(Ascending(Pending), i)
      BY <1>1, <2>1, UnreadRemove
    <3>2. Unread = Ascending(Pending) /\ Unread' = Ascending(Pending \ {e})
      BY <2>1 DEF Unread, Ascending
    <3> QED BY <3>1, <3>2
  <2>3. Link!Miss
    BY <2>2 DEF Link!Miss, Link!RemoveAt, RemoveAt
  <2> QED BY <2>3 DEF Link!Next
<1> QED BY <1>2, <1>3

\* The drain takes the oldest; the answer to the command may be added.
LEMMA CommandPending ==
  ASSUME TInv, LinkInv, Command
  PROVE  /\ \A m \in Pending : m < sent + 1
         /\ \E kept : /\ UpperPart(kept, Pending)
                       /\ Pending' \in {kept, kept \cup {sent + 1}}
<1>1. /\ waiting = FALSE /\ waiting' = TRUE /\ rx' = <<>> /\ sent' = sent + 1
      /\ last' = last /\ returned' = returned /\ data' = <<>>
      /\ sent \in 0 .. MaxCommands - 1 /\ sent \in Nat /\ last \in Nat
      /\ rx \in Seq(BytesOnLine) /\ wire \in Seq(BytesOnLine)
      /\ MaxCommands \in Nat
  BY MaxAssumption DEF Command, ResetLocals, TInv, TypeOK
<1>2. PICK B \in Texts : LineInv(B)
  BY DEF LinkInv
<1> DEFINE Kept == {n \in Numbers(wire) : n > last}
<1>3. Pending = {n \in Numbers(rx) \cup Numbers(wire) : n > last}
      /\ Pending \in SUBSET (1 .. MaxCommands)
  <2>1. Numbers(Line) = Numbers(rx) \cup Numbers(wire)
    BY <1>1, NumbersConcat DEF Line
  <2>2. BeingRead = {}
    BY <1>1 DEF BeingRead
  <2> QED BY <2>1, <2>2, PendingIs DEF TInv
<1>4. \A l \in Kept : \A m \in Pending : m < l \/ m \in Kept
  <2> SUFFICES ASSUME NEW l \in Kept, NEW m \in Numbers(rx), m > last, m \notin Kept
               PROVE  m < l
    BY <1>3
  <2>1. PICK i \in 1 .. Len(rx) : m = rx[i].answer
    <3>1. Numbers(rx) = {rx[i].answer : i \in 1 .. Len(rx)}
      BY <1>1, NumbersType
    <3> HIDE DEF Kept
    <3> QED BY <3>1
  <2>2. PICK j \in 1 .. Len(wire) : l = wire[j].answer
    <3>1. Numbers(wire) = {wire[k].answer : k \in 1 .. Len(wire)}
      BY <1>1, NumbersType
    <3> QED BY <3>1
  <2> DEFINE a == Len(rx)
             c == Len(wire)
  <2>3. a \in Nat /\ c \in Nat
    BY <1>1, LenProperties
  <2>4. Len(Line) = a + c
        /\ \A k \in 1 .. a + c : Line[k] = IF k <= a THEN rx[k] ELSE wire[k - a]
    BY <1>1, ConcatProperties, Zenon DEF Line
  <2> HIDE DEF a, c
  <2>5. /\ i \in 1 .. a + c /\ i <= a /\ j + a \in 1 .. a + c /\ ~(j + a <= a)
        /\ (j + a) - a = j /\ i < j + a
    BY <2>3 DEF a, c
  <2>6. Line[i] = rx[i] /\ Line[j + a] = wire[j]
    BY <2>4, <2>5
  <2>7. Before(rx[i], wire[j])
    BY <1>2, <2>4, <2>5, <2>6 DEF LineInv, InOrder
  <2>8. m \in Nat /\ l \in Nat /\ m # l
    BY <1>1, <1>3, NumbersType
  <2> QED BY <2>1, <2>2, <2>7, <2>8 DEF Before
<1>5. UpperPart(Kept, Pending)
  BY <1>3, <1>4 DEF UpperPart
<1>6. \A m \in Pending : m < sent + 1
  <2> SUFFICES ASSUME NEW m \in Pending PROVE m < sent + 1
    OBVIOUS
  <2>1. m \in Numbers(Line)
    BY <1>1, <1>3, NumbersConcat DEF Line
  <2>2. PICK i \in 1 .. Len(Line) : Line[i].answer = m
    BY <2>1, OnLine DEF TInv
  <2>3. m <= sent
    BY <1>2, <2>2 DEF LineInv, Carries
  <2>4. m \in Nat
    BY <1>3
  <2> QED BY <1>1, <2>3, <2>4
<1> HIDE DEF Kept
<1>7. wire' \in Seq(BytesOnLine) => Pending' = {n \in Numbers(wire') : n > last}
  <2>1. Numbers(<<>>) = {}
    BY DEF Numbers
  <2> QED BY <1>1, <2>1 DEF Pending
<1>8. CASE wire' = wire
  <2>1. Pending' = Kept
    BY <1>1, <1>7, <1>8 DEF Kept
  <2> QED BY <1>5, <1>6, <2>1
<1>9. CASE \E body \in Bodies : wire' = wire \o Frame(body, sent + 1)
  <2>1. PICK body \in Bodies : wire' = wire \o Frame(body, sent + 1)
    BY <1>9
  <2>2. sent + 1 \in 1 .. MaxCommands
    BY <1>1
  <2>3. Frame(body, sent + 1) \in Seq(BytesOnLine)
    BY <2>2, FrameProperties
  <2>4. wire' \in Seq(BytesOnLine) /\ Numbers(wire') = Numbers(wire) \cup {sent + 1}
    BY <1>1, <2>1, <2>2, <2>3, NumbersConcat, NumbersFrame, ConcatProperties
  <2>5. Pending' = Kept \cup {sent + 1}
    <3>1. sent + 1 > last
      BY <1>1 DEF LinkInv
    <3> QED BY <1>7, <2>4, <3>1 DEF Kept
  <2> QED BY <1>5, <1>6, <2>5
<1> QED BY <1>8, <1>9 DEF Command

\* A command is a command of the link.
LEMMA CommandSimulates ==
  ASSUME TInv, LinkInv, Command
  PROVE  Link!Command
<1>1. /\ waiting = FALSE /\ waiting' = TRUE /\ sent' = sent + 1 /\ returned' = returned
      /\ MaxCommands \in Nat /\ sent + 1 \in 1 .. MaxCommands
  BY MaxAssumption DEF Command, TInv, TypeOK
<1>2. Pending \in SUBSET (1 .. MaxCommands)
  BY PendingIs DEF TInv
<1>3. /\ \A m \in Pending : m < sent + 1
      /\ \E kept : /\ UpperPart(kept, Pending)
                    /\ Pending' \in {kept, kept \cup {sent + 1}}
  BY CommandPending
<1>4. PICK kept : UpperPart(kept, Pending) /\ Pending' \in {kept, kept \cup {sent + 1}}
  BY <1>3
<1>5. kept \in SUBSET (1 .. MaxCommands) /\ \A m \in kept : m < sent + 1
  BY <1>2, <1>3, <1>4 DEF UpperPart
<1>6. Ascending(kept) \in Suffixes(Ascending(Pending))
  BY <1>1, <1>2, <1>4, UnreadSuffix
<1>7. Ascending(kept \cup {sent + 1}) = Append(Ascending(kept), sent + 1)
  BY <1>1, <1>5, UnreadAppend
<1>8. Unread = Ascending(Pending) /\ Unread' = Ascending(Pending')
  BY DEF Unread, Ascending
<1>9. Unread' \in {Ascending(kept), Append(Ascending(kept), sent + 1)}
  BY <1>4, <1>7, <1>8
<1> QED BY <1>1, <1>6, <1>8, <1>9 DEF Link!Command, Link!Suffixes, Suffixes

\* PendingIs in the next state.
LEMMA PendingNext ==
  TypeOK' => Pending' = {n \in Numbers(Line') \cup BeingRead' : n > last'}
<1>1. TypeOK => Pending = {n \in Numbers(Line) \cup BeingRead : n > last}
  BY PendingIs
<1>2. (TypeOK => Pending = {n \in Numbers(Line) \cup BeingRead : n > last})'
  BY <1>1, PTL
<1> QED BY <1>2 DEF Numbers

\* A byte is read: the link returns its oldest answer, misses one, or stutters.
LEMMA ReadSimulates ==
  ASSUME TInv, LinkInv, ReadByte
  PROVE  [Link!Next]_Link!vars
<1> DEFINE x == Line[1]
<1>1. /\ Line \in Seq(BytesOnLine) /\ Line # <<>> /\ x = Head(rx) /\ Line' = Tail(Line)
  BY LineRead DEF TInv
<1>2. PICK B \in Texts : LineInv(B) /\ RestInv(B)
  BY DEF LinkInv
<1>3. TypeOK' /\ TypeOK
  BY ReadByteTypes DEF TInv
<1>4. /\ Numbers(Line) = Numbers(Line') \cup {x.answer}
      /\ x.answer \in Numbers(Line)
  <2>1. Numbers(Line) = Numbers(Tail(Line)) \cup {Head(Line).answer}
    BY <1>1, NumbersTail
  <2>2. Head(Line) = x
    BY <1>1
  <2> QED BY <1>1, <2>1, <2>2
<1>5. waiting /\ sent' = sent /\ idx \in Nat /\ (idx < 9 => data = <<>>)
      /\ MaxCommands \in Nat /\ last \in Nat /\ data \in Seq(BytesOnLine)
  BY MaxAssumption DEF ReadByte, TInv, TypeOK, Counted
<1>6. Pending = {n \in Numbers(Line) \cup BeingRead : n > last}
      /\ Pending \in SUBSET (1 .. MaxCommands)
  BY <1>3, PendingIs
<1>7. Pending' = {n \in Numbers(Line') \cup BeingRead' : n > last'}
  BY <1>3, PendingNext
<1>8. CASE idx >= 9 /\ Complete
  <2> DEFINE f == data'[1].answer
  <2>1. waiting' = FALSE /\ last' = f /\ returned' = f
    BY <1>8 DEF ReadByte
  <2>2. /\ data'[1] \in BytesOnLine
        /\ data'[1] = IF data = <<>> THEN x ELSE data[1]
        /\ last < f
        /\ \A i \in 1 .. Len(Line') : Before(data'[1], Line'[i])
    BY <1>2, <1>8, ReadBody
  <2>3. f \in Pending
    BY <1>4, <1>5, <1>6, <2>2 DEF BeingRead
  <2>4. \A i \in 1 .. Len(Line') : f <= Line'[i].answer /\ x.answer <= Line'[i].answer
    <3> SUFFICES ASSUME NEW i \in 1 .. Len(Line')
                 PROVE  f <= Line'[i].answer /\ x.answer <= Line'[i].answer
      OBVIOUS
    <3>1. Before(x, Line'[i]) /\ Line'[i] \in BytesOnLine /\ x \in BytesOnLine
      BY <1>2, ReadFirst, ElementOfSeq
    <3>2. Before(data'[1], Line'[i])
      BY <2>2
    <3>3. f \in Nat /\ x.answer \in Nat /\ Line'[i].answer \in Nat
      BY <2>2, <3>1, MaxAssumption DEF BytesOnLine
    <3> QED BY <3>1, <3>2, <3>3 DEF Before
  <2>5. f \in Nat /\ x.answer \in Nat
    BY <1>2, <2>2, ReadFirst, MaxAssumption DEF BytesOnLine
  <2>6. f <= x.answer
    <3>1. CASE data = <<>>
      BY <2>2, <2>5, <3>1
    <3>2. CASE data # <<>>
      <4>1. Before(data[1], Line[1])
        <5>1. 1 \in 1 .. Len(Line)
          BY <1>1
        <5> QED BY <1>2, <1>5, <3>2, <5>1 DEF RestInv
      <4> QED BY <2>2, <2>5, <3>2, <4>1 DEF Before
    <3> QED BY <3>1, <3>2
  <2>7. \A n \in Numbers(Line') : n \in Nat /\ f <= n /\ x.answer <= n
    <3> SUFFICES ASSUME NEW n \in Numbers(Line') PROVE n \in Nat /\ f <= n /\ x.answer <= n
      OBVIOUS
    <3>1. Line' \in Seq(BytesOnLine)
      BY <1>2, ReadFirst
    <3>2. PICK i \in 1 .. Len(Line') : n = Line'[i].answer
      BY <3>1, NumbersType
    <3>3. n \in Nat
      BY <3>1, NumbersType
    <3> QED BY <2>4, <3>2, <3>3
  <2>8. BeingRead \subseteq {f}
    BY <2>2 DEF BeingRead
  <2> HIDE DEF f, x
  <2>9. \A m \in Pending : f <= m
    BY <1>4, <1>6, <2>5, <2>6, <2>7, <2>8
  <2>10. Pending' = {n \in Numbers(Line') : n > f}
    BY <1>7, <2>1 DEF BeingRead
  <2>11. Pending' \in SUBSET (Pending \ {f})
    <3> SUFFICES ASSUME NEW n \in Numbers(Line'), n > f PROVE n \in Pending /\ n # f
      BY <2>10
    <3>1. last \in Nat /\ n \in Nat /\ last < f
      BY <1>5, <2>2, <2>7 DEF f
    <3>2. n > last /\ n # f
      BY <2>5, <3>1
    <3> QED BY <1>4, <1>6, <3>2
  <2>12. \A l \in Pending' : \A m \in Pending \ {f} : m < l \/ m \in Pending'
    <3> SUFFICES ASSUME NEW l \in Pending', NEW m \in Pending \ {f}, m \notin Pending'
                 PROVE  m < l
      OBVIOUS
    <3>1. m \in Numbers(Line') \cup {x.answer} /\ m > f
      BY <1>4, <1>6, <2>5, <2>8, <2>9
    <3>2. m = x.answer
      BY <2>10, <3>1
    <3>3. l \in Numbers(Line') /\ l \in Nat /\ x.answer <= l /\ m # l
      BY <2>7, <2>10
    <3> QED BY <2>5, <3>2, <3>3
  <2>13. Ascending(Pending') \in Suffixes(Ascending(Pending \ {f}))
    <3>1. Pending \ {f} \in SUBSET (1 .. MaxCommands)
      BY <1>6
    <3>2. UpperPart(Pending', Pending \ {f})
      BY <2>11, <2>12 DEF UpperPart
    <3> QED BY <1>5, <3>1, <3>2, UnreadSuffix
  <2>14. /\ Ascending(Pending) # <<>> /\ Head(Ascending(Pending)) = f
         /\ Tail(Ascending(Pending)) = Ascending(Pending \ {f})
    BY <1>5, <1>6, <2>3, <2>9, UnreadTail
  <2>15. Unread = Ascending(Pending) /\ Unread' = Ascending(Pending')
    BY DEF Unread, Ascending
  <2>16. Link!Return
    BY <1>5, <2>1, <2>13, <2>14, <2>15 DEF Link!Return, Link!Suffixes, Suffixes
  <2> QED BY <2>16 DEF Link!Next
<1>9. CASE ~(idx >= 9 /\ Complete)
  <2>1. /\ waiting' /\ last' = last /\ returned' = returned /\ waiting' = waiting
        /\ data' = IF idx >= 9 THEN Append(data, x) ELSE data
    BY <1>1, <1>5, <1>9 DEF ReadByte, TInv, TypeOK
  <2>2. Numbers(Line') \cup BeingRead' \subseteq Numbers(Line) \cup BeingRead
        /\ Numbers(Line) \cup BeingRead \subseteq Numbers(Line') \cup BeingRead' \cup {x.answer}
    <3>1. CASE idx >= 9
      <4>1. data' # <<>> /\ data'[1] = IF data = <<>> THEN x ELSE data[1]
        BY <1>2, <3>1, ReadBody
      <4>2. BeingRead' = {data'[1].answer}
        BY <2>1, <4>1 DEF BeingRead
      <4> HIDE DEF x
      <4>3. CASE data = <<>>
        BY <1>4, <4>1, <4>2, <4>3 DEF BeingRead
      <4>4. CASE data # <<>>
        BY <1>4, <1>5, <4>1, <4>2, <4>4 DEF BeingRead
      <4> QED BY <4>3, <4>4
    <3>2. CASE idx < 9
      <4>1. BeingRead' = {} /\ BeingRead = {}
        BY <1>5, <2>1, <3>2 DEF BeingRead
      <4> QED BY <1>4, <4>1
    <3> QED BY <1>5, <3>1, <3>2
  <2> HIDE DEF x
  <2>3. Pending' \subseteq Pending /\ Pending \subseteq Pending' \cup {x.answer}
    BY <1>6, <1>7, <2>1, <2>2
  <2> QED BY <1>3, <1>5, <2>1, <2>3, OneLess
<1> QED BY <1>8, <1>9

\* When transfer_ gives up, it has read of the oldest answer at most,
LEMMA ExpirePending ==
  ASSUME TInv, LinkInv, Expire
  PROVE  UpperPart(Pending', Pending)
<1>1. PICK B \in Texts : LineInv(B) /\ RestInv(B)
  BY DEF LinkInv
<1>2. /\ waiting /\ waiting' = FALSE /\ returned' = 0 /\ last' = last /\ sent' = sent
      /\ Line' = Line /\ MaxCommands \in Nat /\ Line \in Seq(BytesOnLine)
      /\ data \in Seq(BytesOnLine)
  BY MaxAssumption, LineType DEF Expire, Line, TInv, TypeOK
<1>3. Pending = {n \in Numbers(Line) \cup BeingRead : n > last}
      /\ Pending \in SUBSET (1 .. MaxCommands)
  BY PendingIs DEF TInv
<1>4. Pending' = {n \in Numbers(Line) : n > last}
  <2>1. TypeOK'
    BY ExpireTypes DEF TInv
  <2>2. BeingRead' = {}
    BY <1>2 DEF BeingRead
  <2> QED BY <1>2, <2>1, <2>2, PendingNext
<1>5. Pending' \in SUBSET Pending
  BY <1>3, <1>4
<1>6. \A l \in Pending' : \A m \in Pending : m < l \/ m \in Pending'
  <2> SUFFICES ASSUME NEW l \in Pending', NEW m \in Pending, m \notin Pending' PROVE m < l
    OBVIOUS
  <2>1. m \in BeingRead
    BY <1>3, <1>4
  <2>2. data # <<>> /\ m = data[1].answer
    BY <2>1 DEF BeingRead
  <2>3. PICK i \in 1 .. Len(Line) : l = Line[i].answer
    <3>1. l \in Numbers(Line)
      BY <1>4
    <3>2. Numbers(Line) = {Line[i].answer : i \in 1 .. Len(Line)}
      BY <1>2, NumbersType
    <3> QED BY <3>1, <3>2
  <2>4. Before(data[1], Line[i])
    BY <1>1, <1>2, <2>2 DEF RestInv
  <2>5. m \in Nat /\ l \in Nat /\ m # l
    BY <1>2, <1>3, <1>5
  <2> QED BY <2>2, <2>3, <2>4, <2>5 DEF Before
<1> QED BY <1>5, <1>6 DEF UpperPart

\* and the link gives up.
LEMMA ExpireSimulates ==
  ASSUME TInv, LinkInv, Expire
  PROVE  Link!GiveUp
<1>1. waiting /\ waiting' = FALSE /\ returned' = 0 /\ sent' = sent
  BY DEF Expire
<1>2. Pending \in SUBSET (1 .. MaxCommands) /\ MaxCommands \in Nat
  BY MaxAssumption, PendingIs DEF TInv
<1>3. Ascending(Pending') \in Suffixes(Ascending(Pending))
  BY <1>2, ExpirePending, UnreadSuffix
<1>4. Unread = Ascending(Pending) /\ Unread' = Ascending(Pending')
  BY DEF Unread, Ascending
<1> QED BY <1>1, <1>3, <1>4 DEF Link!GiveUp, Link!Suffixes, Suffixes

\* Every step of transfer_ is one of the link, or none.
LEMMA NextSimulates ==
  TInv /\ LinkInv /\ [Next]_vars => [Link!Next]_Link!vars
<1> SUFFICES ASSUME TInv, LinkInv, [Next]_vars PROVE [Link!Next]_Link!vars
  OBVIOUS
<1>0. TypeOK /\ rx \in Seq(BytesOnLine) /\ wire \in Seq(BytesOnLine)
  BY DEF TInv, TypeOK
<1> DEFINE Same == Pending' = Pending /\ UNCHANGED <<sent, waiting, returned>>
<1>a. ASSUME Same PROVE [Link!Next]_Link!vars
  <2>1. Unread' = Unread
    BY <1>a, UnreadSame
  <2> QED BY <1>a, <2>1 DEF Link!vars
<1>1. CASE Command
  BY <1>1, CommandSimulates DEF Link!Next
<1>2. CASE Delay
  <2>1. Same
    BY <1>2 DEF Delay, history, Pending, Numbers
  <2> QED BY <1>a, <2>1
<1>3. CASE ReadByte
  BY <1>3, ReadSimulates
<1>4. CASE Expire
  BY <1>4, ExpireSimulates DEF Link!Next
<1>5. CASE Deliver
  <2>1. Line' = Line /\ UNCHANGED <<sent, waiting, returned, last, data>>
    BY <1>0, <1>5, LineDelivered DEF Deliver, locals, history
  <2>2. TypeOK'
    BY <1>5, DeliverTypes DEF TInv
  <2>3. BeingRead' = BeingRead
    BY <2>1 DEF BeingRead
  <2>4. Pending' = Pending
    BY <1>0, <2>1, <2>2, <2>3, PendingIs, PendingNext
  <2> QED BY <1>a, <2>1, <2>4
<1>6. CASE Lose
  <2>1. /\ wire # <<>> /\ wire' = Tail(wire) /\ rx' = rx
        /\ UNCHANGED <<sent, waiting, returned, last, data>>
    BY <1>6 DEF Lose, locals, history
  <2>2. Numbers(wire) = Numbers(wire') \cup {Head(wire).answer}
    BY <1>0, <2>1, NumbersTail
  <2>3. Numbers(rx') = Numbers(rx)
    BY <2>1 DEF Numbers
  <2> DEFINE Read == IF waiting /\ data # <<>> THEN {data[1].answer} ELSE {}
  <2>4. /\ Pending = {n \in Numbers(wire) \cup Numbers(rx) \cup Read : n > last}
        /\ Pending' = {n \in Numbers(wire') \cup Numbers(rx) \cup Read : n > last}
    BY <2>1, <2>3, Zenon DEF Pending, Numbers
  <2> HIDE DEF Read
  <2>5. Pending' \subseteq Pending /\ Pending \subseteq Pending' \cup {Head(wire).answer}
    BY <2>2, <2>4
  <2> QED BY <1>0, <2>1, <2>5, OneLess
<1>7. CASE UNCHANGED vars
  <2>1. Same
    BY <1>7 DEF vars, locals, history, Pending, Numbers
  <2> QED BY <1>a, <2>1
<1> QED BY <1>1, <1>2, <1>3, <1>4, <1>5, <1>6, <1>7 DEF Next, Parse

\* Initially nothing is unread.
LEMMA InitSimulates == Init => Link!Init
<1> SUFFICES ASSUME Init PROVE Link!Init
  OBVIOUS
<1>1. sent = 0 /\ waiting = FALSE /\ returned = 0 /\ wire = <<>> /\ rx = <<>>
  BY DEF Init
<1>2. Pending = {}
  BY <1>1 DEF Pending, Numbers
<1>3. Ascending({}) = <<>>
  <2>1. <<>> \in Seq(Nat) /\ IsAscending(<<>>, {})
    BY DEF IsAscending, Range
  <2>2. {} \in SUBSET (1 .. 0) /\ 0 \in Nat
    OBVIOUS
  <2> QED BY <2>1, <2>2, AscendingOnly
<1>4. Unread = Ascending({})
  BY <1>2 DEF Unread, Ascending
<1> QED BY <1>1, <1>3, <1>4 DEF Link!Init

\* transfer_ implements the link, whatever is lost and however late bytes arrive:
\* answers are returned in the order of their commands and at most once, if what is
\* left of an answer that was cut short holds no header.
THEOREM ImplementsTheLink ==
  ASSUME NoHeaderLeft
  PROVE  Spec => ImplementsLink
<1>1. Init => TInv /\ LinkInv /\ Link!Init
  BY InitTypes, InitLink, InitSimulates
<1>2. TInv /\ LinkInv /\ [Next]_vars => TInv' /\ LinkInv' /\ [Link!Next]_Link!vars
  BY NextTypes, NextLink, NextSimulates
<1> QED BY <1>1, <1>2, PTL DEF Spec, ImplementsLink, Link!Spec

(***************************************************************************)
(* Exchanges on a line that loses nothing                                   *)
(***************************************************************************)

\* Since the command was sent, the oldest of the answers have been used up.
Exchange ==
  waiting =>
    \E S \in SUBSET (1 .. MaxCommands) :
      /\ before = Ascending(S)
      /\ sent \in 1 .. MaxCommands /\ \A m \in S : m < sent
      /\ UpperPart(Pending, S) \/ UpperPart(Pending, S \cup {sent})

\* What the parser may have seen of the answers.
Visible == Suffixes(before) \cup (UNION {Suffixes(Append(before, a)) : a \in {sent}})

\* The end of the answers that were unread, or of these and the new one, is visible.
LEMMA UpperVisible ==
  ASSUME NEW S \in SUBSET (1 .. MaxCommands), before = Ascending(S),
         sent \in 1 .. MaxCommands, \A m \in S : m < sent,
         NEW T, UpperPart(T, S) \/ UpperPart(T, S \cup {sent})
  PROVE  Ascending(T) \in Visible
<1>1. MaxCommands \in Nat /\ S \cup {sent} \in SUBSET (1 .. MaxCommands)
  BY MaxAssumption
<1>2. CASE UpperPart(T, S)
  BY <1>1, <1>2, UnreadSuffix DEF Visible
<1>3. CASE UpperPart(T, S \cup {sent})
  <2>1. Ascending(S \cup {sent}) = Append(Ascending(S), sent)
    BY <1>1, UnreadAppend
  <2>2. Ascending(T) \in Suffixes(Ascending(S \cup {sent}))
    BY <1>1, <1>3, UnreadSuffix
  <2> QED BY <2>1, <2>2 DEF Visible
<1> QED BY <1>2, <1>3

\* While transfer_ waits, the parser may see what is unread.
LEMMA PendingVisible ==
  ASSUME Exchange, waiting
  PROVE  Unread \in Visible
<1>1. PICK S \in SUBSET (1 .. MaxCommands) :
        /\ before = Ascending(S)
        /\ sent \in 1 .. MaxCommands /\ \A m \in S : m < sent
        /\ UpperPart(Pending, S) \/ UpperPart(Pending, S \cup {sent})
  BY DEF Exchange
<1>2. Unread = Ascending(Pending)
  BY DEF Unread, Ascending
<1> QED BY <1>1, <1>2, UpperVisible

\* The end of what it may have seen is also something it may have seen.
LEMMA ExchangeGoesOn ==
  ASSUME TypeOK, Exchange, UpperPart(Pending', Pending), waiting,
         UNCHANGED <<sent, before>>
  PROVE  Exchange'
<1>1. PICK S \in SUBSET (1 .. MaxCommands) :
        /\ before = Ascending(S)
        /\ sent \in 1 .. MaxCommands /\ \A m \in S : m < sent
        /\ UpperPart(Pending, S) \/ UpperPart(Pending, S \cup {sent})
  BY DEF Exchange
<1>2. before' = Ascending(S) /\ sent' = sent
  BY <1>1
<1>3. UpperPart(Pending', S) \/ UpperPart(Pending', S \cup {sent})
  BY <1>1, UpperPartOfUpperPart
<1>4. \E T \in SUBSET (1 .. MaxCommands) :
        /\ before' = Ascending(T)
        /\ sent' \in 1 .. MaxCommands /\ \A m \in T : m < sent'
        /\ UpperPart(Pending', T) \/ UpperPart(Pending', T \cup {sent'})
  BY <1>1, <1>2, <1>3
<1> QED BY <1>4 DEF Exchange, UpperPart, Ascending

\* A command starts an exchange.
LEMMA CommandExchange ==
  ASSUME TInv, LinkInv, Command
  PROVE  Exchange'
<1>1. /\ sent' = sent + 1 /\ before' = Unread /\ sent + 1 \in 1 .. MaxCommands
  BY MaxAssumption DEF Command, TInv, TypeOK
<1>2. Pending \in SUBSET (1 .. MaxCommands)
  BY PendingIs DEF TInv
<1>3. /\ \A m \in Pending : m < sent + 1
      /\ \E kept : /\ UpperPart(kept, Pending)
                    /\ Pending' \in {kept, kept \cup {sent + 1}}
  BY CommandPending
<1>4. PICK kept : UpperPart(kept, Pending) /\ Pending' \in {kept, kept \cup {sent + 1}}
  BY <1>3
<1>5. UpperPart(kept \cup {sent + 1}, Pending \cup {sent + 1})
  BY <1>3, <1>4 DEF UpperPart
<1>6. before' = Ascending(Pending)
  BY <1>1 DEF Unread, Ascending
<1>7. PICK S : S = Pending
  OBVIOUS
<1>8. /\ S \in SUBSET (1 .. MaxCommands)
      /\ before' = Ascending(S)
      /\ sent' \in 1 .. MaxCommands /\ \A m \in S : m < sent'
      /\ UpperPart(Pending', S) \/ UpperPart(Pending', S \cup {sent'})
  BY <1>1, <1>2, <1>3, <1>4, <1>5, <1>6, <1>7
<1> QED BY <1>8 DEF Exchange, UpperPart, Ascending

\* In the body, the byte that is read belongs to the answer that is being read.
LEMMA ReadOfBody ==
  ASSUME TInv, ReadByte, idx >= 9, NEW B, Stream(Line, B, sent), Parsed(B)
  PROVE  /\ data'[1].answer = Line[1].answer
         /\ data # <<>> => data[1].answer = Line[1].answer
         /\ Complete => IsLast(Line[1], B)
<1>1. /\ Line \in Seq(BytesOnLine) /\ Line # <<>> /\ Line[1] = Head(rx)
  BY LineRead DEF TInv
<1>2. waiting /\ idx \in Nat /\ data \in Seq(BytesOnLine) /\ data' = Append(data, Line[1])
  BY <1>1 DEF ReadByte, TInv, TypeOK
<1>3. InBody(B)
  BY <1>2 DEF Parsed
<1>4. data # <<>> => 1 \in 1 .. Len(data) /\ data[1].answer = Line[1].answer /\ data'[1] = data[1]
  <2> SUFFICES ASSUME data # <<>>
               PROVE  1 \in 1 .. Len(data) /\ data[1].answer = Line[1].answer /\ data'[1] = data[1]
    OBVIOUS
  <2>1. 1 \in 1 .. Len(data)
    BY <1>2
  <2>2. data'[1] = data[1]
    BY <1>1, <1>2, <2>1, AppendProperties, HeadTailProperties
  <2> QED BY <1>3, <2>1, <2>2 DEF InBody
<1>5. data = <<>> => data'[1] = Line[1]
  <2>1. Append(<<>>, Line[1]) = <<Line[1]>>
    OBVIOUS
  <2> QED BY <1>2, <2>1
<1>6. Complete => IsLast(Line[1], B)
  <2> SUFFICES ASSUME Complete PROVE IsLast(Line[1], B)
    OBVIOUS
  <2> DEFINE n == Len(B[Line[1].answer])
  <2>1. Line[1].place = idx + 1 /\ length = n /\ idx - 8 = length
    BY <1>3 DEF InBody, Complete
  <2>2. length \in Nat
    BY DEF TInv, TypeOK, Word
  <2> HIDE DEF n
  <2>3. Line[1].place = n + 9
    BY <1>2, <2>1, <2>2
  <2> QED BY <2>3 DEF IsLast, n
<1> QED BY <1>4, <1>5, <1>6

\* What follows the last byte of an answer belongs to later ones.
LEMMA LaterAnswers ==
  ASSUME NEW s \in Seq(BytesOnLine), s # <<>>, NEW B, NEW n, Stream(s, B, n), InOrder(s),
         IsLast(s[1], B), NEW i \in 2 .. Len(s)
  PROVE  s[1].answer < s[i].answer
<1> DEFINE size == Len(s)
           x == s[1]
           y == s[2]
           z == s[i]
<1>1. size \in Nat /\ i \in 1 .. size /\ 1 \in 1 .. size /\ 2 \in 1 .. size
      /\ 1 \in 1 .. size - 1
  OBVIOUS
<1>2. x \in BytesOnLine /\ y \in BytesOnLine /\ z \in BytesOnLine
  BY <1>1, ElementOfSeq
<1>3. /\ \A k \in 1 .. size : Carries(s[k], B, n)
      /\ \A k \in 1 .. size - 1 : Follows(s[k], s[k + 1], B)
      /\ \A k, l \in 1 .. size : k < l => Before(s[k], s[l])
  BY DEF Stream, InOrder
<1>4. Follows(x, y, B) /\ Carries(x, B, n) /\ Carries(y, B, n)
      /\ Before(x, y) /\ (i = 2 \/ Before(y, z))
  <2>1. 1 + 1 = 2 /\ 1 < 2 /\ (i = 2 \/ 2 < i)
    BY <1>1
  <2> HIDE DEF size
  <2> QED BY <1>1, <1>3, <2>1
<1> HIDE DEF x, y, size
<1>5. /\ x.answer \in Nat /\ y.answer \in Nat /\ z.answer \in Nat
      /\ x.place \in Nat \ {0} /\ y.place \in Nat \ {0} /\ z.place \in Nat \ {0}
  BY <1>2, MaxAssumption DEF BytesOnLine
<1>6. x.answer < y.answer
  <2>1. CASE y.answer = x.answer /\ y.place = x.place + 1
    <3>1. x.place = Len(B[x.answer]) + 9 /\ y.place <= Len(B[x.answer]) + 9
      BY <1>4, <2>1 DEF IsLast, Carries, x
    <3> DEFINE top == Len(B[x.answer]) + 9
    <3> HIDE DEF top
    <3>2. x.place = top /\ y.place <= top
      BY <3>1 DEF top
    <3> QED BY <1>5, <2>1, <3>2
  <2>2. CASE y.place = 1
    BY <1>4, <1>5, <2>2 DEF Before
  <2> QED BY <1>4, <2>1, <2>2 DEF Follows
<1>7. CASE i = 2
  BY <1>6, <1>7 DEF x, y
<1>8. CASE Before(y, z)
  BY <1>5, <1>6, <1>8 DEF Before, x
<1> QED BY <1>4, <1>7, <1>8

\* A byte is read on a line that loses nothing: what is returned is the oldest
\* answer, and nothing is left of it.
LEMMA ReadByteReturns ==
  ASSUME TInv, InStep, LinkInv, lost = 0, ReadByte, idx >= 9, Complete
  PROVE  /\ NoRest'
         /\ Unread # <<>> /\ returned' = Head(Unread) /\ Unread' = Tail(Unread)
<1> DEFINE x == Line[1]
           f == x.answer
<1>1. /\ Line \in Seq(BytesOnLine) /\ Line # <<>> /\ x = Head(rx) /\ Line' = Tail(Line)
  BY LineRead DEF TInv
<1>2. PICK B \in Texts : Stream(Line, B, sent) /\ Parsed(B)
  BY DEF InStep
<1>3. PICK C \in Texts : LineInv(C) /\ RestInv(C)
  BY DEF LinkInv
<1>4. /\ data'[1].answer = f /\ (data # <<>> => data[1].answer = f) /\ IsLast(x, B)
  BY <1>2, ReadOfBody
<1>5. last < f /\ x \in BytesOnLine
  BY <1>3, <1>4, ReadBody, ReadFirst
<1>6. waiting /\ waiting' = FALSE /\ last' = f /\ returned' = f
  BY <1>4 DEF ReadByte
<1>7. \A i \in 1 .. Len(Line') : Line'[i].answer > f
  <2> SUFFICES ASSUME NEW i \in 1 .. Len(Line') PROVE Line'[i].answer > f
    OBVIOUS
  <2>1. i + 1 \in 2 .. Len(Line) /\ Line'[i] = Line[i + 1]
    BY <1>1, HeadTailProperties
  <2>2. f < Line[i + 1].answer
    BY <1>1, <1>2, <1>3, <1>4, <2>1, LaterAnswers DEF LineInv
  <2>3. Line[i + 1].answer \in Nat /\ f \in Nat
    <3>1. i + 1 \in 1 .. Len(Line)
      BY <1>1, <2>1
    <3>2. Line[i + 1] \in BytesOnLine
      BY <1>1, <3>1, ElementOfSeq
    <3> QED BY <1>5, <3>2, MaxAssumption DEF BytesOnLine
  <2> HIDE DEF x, f
  <2> QED BY <2>1, <2>2, <2>3
<1>8. NoRest'
  <2>1. f \in Nat
    BY <1>5, MaxAssumption DEF BytesOnLine
  <2> HIDE DEF f, x
  <2>2. \A i \in 1 .. Len(Line') : Line'[i].answer # last'
    BY <1>6, <1>7, <2>1
  <2> QED BY <2>2 DEF NoRest
<1>9. \A n \in Numbers(Line') : n \in Nat /\ n > f
  <2>1. Line' \in Seq(BytesOnLine)
    BY <1>3, ReadFirst
  <2>2. Numbers(Line') = {Line'[i].answer : i \in 1 .. Len(Line')}
        /\ Numbers(Line') \in SUBSET (1 .. MaxCommands)
    BY <2>1, NumbersType
  <2>3. \A n \in 1 .. MaxCommands : n \in Nat
    BY MaxAssumption
  <2> HIDE DEF f, x
  <2> QED BY <1>7, <2>2, <2>3
<1>10. Numbers(Line) = Numbers(Line') \cup {f}
  <2>1. Numbers(Line) = Numbers(Tail(Line)) \cup {Head(Line).answer}
    BY <1>1, NumbersTail
  <2>2. Head(Line) = x
    BY <1>1
  <2> QED BY <1>1, <2>1, <2>2
<1>11. Pending = {n \in Numbers(Line) \cup BeingRead : n > last}
       /\ Pending \in SUBSET (1 .. MaxCommands)
  BY PendingIs DEF TInv
<1>12. BeingRead \subseteq {f} /\ BeingRead' = {}
  BY <1>4, <1>6 DEF BeingRead
<1>13. Pending' = {n \in Numbers(Line') : n > f}
  <2>1. TypeOK'
    BY ReadByteTypes DEF TInv
  <2> QED BY <1>6, <1>12, <2>1, PendingNext
<1>14. last \in Nat /\ f \in Nat
  BY <1>5, MaxAssumption DEF TInv, TypeOK, BytesOnLine
<1> HIDE DEF f, x
<1>15. \A n \in Numbers(Line') : n > last /\ n # f
  BY <1>5, <1>9, <1>14
<1>16. f \in Pending /\ Pending' = Pending \ {f}
  <2>1. Pending = Numbers(Line') \cup {f}
    BY <1>5, <1>10, <1>11, <1>12, <1>15
  <2>2. Pending' = Numbers(Line')
    BY <1>9, <1>13
  <2> QED BY <1>15, <2>1, <2>2
<1>17. \A m \in Pending : f <= m
  BY <1>9, <1>10, <1>11, <1>12, <1>14
<1>18. MaxCommands \in Nat
  BY MaxAssumption
<1>19. /\ Ascending(Pending) # <<>> /\ Head(Ascending(Pending)) = f
       /\ Tail(Ascending(Pending)) = Ascending(Pending \ {f})
  BY <1>11, <1>16, <1>17, <1>18, UnreadTail
<1>20. Unread = Ascending(Pending) /\ Unread' = Ascending(Pending')
  BY DEF Unread, Ascending
<1> QED BY <1>6, <1>8, <1>16, <1>19, <1>20

\* Until then, the oldest answers are missed.
LEMMA ReadByteMisses ==
  ASSUME TInv, InStep, LinkInv, lost = 0, ReadByte, ~(idx >= 9 /\ Complete)
  PROVE  UpperPart(Pending', Pending)
<1> DEFINE x == Line[1]
<1>1. /\ Line \in Seq(BytesOnLine) /\ Line # <<>> /\ x = Head(rx) /\ Line' = Tail(Line)
  BY LineRead DEF TInv
<1>2. PICK B \in Texts : Stream(Line, B, sent) /\ Parsed(B)
  BY DEF InStep
<1>3. PICK C \in Texts : LineInv(C) /\ RestInv(C)
  BY DEF LinkInv
<1>4. /\ waiting /\ waiting' = waiting /\ last' = last
      /\ data' = IF idx >= 9 THEN Append(data, x) ELSE data
      /\ idx \in Nat /\ (idx < 9 => data = <<>>) /\ data \in Seq(BytesOnLine)
  <2>1. waiting /\ waiting' = waiting /\ last' = last
    BY DEF ReadByte
  <2>2. data' = IF idx >= 9 THEN Append(data, x) ELSE data
    BY <1>1 DEF ReadByte
  <2>3. idx \in Nat /\ (idx < 9 => data = <<>>) /\ data \in Seq(BytesOnLine)
    BY <2>1 DEF TInv, TypeOK, Counted
  <2> QED BY <2>1, <2>2, <2>3
<1>5. Numbers(Line) = Numbers(Line') \cup {x.answer}
  <2>1. Numbers(Line) = Numbers(Tail(Line)) \cup {Head(Line).answer}
    BY <1>1, NumbersTail
  <2>2. Head(Line) = x
    BY <1>1
  <2> QED BY <1>1, <2>1, <2>2
<1>6. Pending = {n \in Numbers(Line) \cup BeingRead : n > last}
  BY PendingIs DEF TInv
<1>7. Pending' = {n \in Numbers(Line') \cup BeingRead' : n > last}
  <2>1. TypeOK'
    BY ReadByteTypes DEF TInv
  <2> QED BY <1>4, <2>1, PendingNext
<1>8. CASE idx >= 9
  <2>1. BeingRead \subseteq {x.answer} /\ BeingRead' = {x.answer}
    <3>1. data'[1].answer = x.answer /\ (data # <<>> => data[1].answer = x.answer)
      BY <1>2, <1>8, ReadOfBody
    <3>2. data' # <<>>
      BY <1>4, <1>8
    <3> HIDE DEF x
    <3> QED BY <1>4, <3>1, <3>2 DEF BeingRead
  <2> HIDE DEF x
  <2>2. Pending' = Pending
    BY <1>5, <1>6, <1>7, <2>1
  <2> QED BY <2>2 DEF UpperPart
<1>9. CASE idx < 9
  <2>1. BeingRead = {} /\ BeingRead' = {}
    BY <1>4, <1>9 DEF BeingRead
  <2>2. \A l \in Numbers(Line') : l \in Nat /\ x.answer <= l
    <3>1. Line' \in Seq(BytesOnLine) /\ x \in BytesOnLine
      BY <1>3, ReadFirst
    <3>2. Numbers(Line') = {Line'[i].answer : i \in 1 .. Len(Line')}
      BY <3>1, NumbersType
    <3>3. ASSUME NEW i \in 1 .. Len(Line') PROVE Line'[i].answer \in Nat /\ x.answer <= Line'[i].answer
      <4>1. Before(x, Line'[i]) /\ Line'[i] \in BytesOnLine
        BY <1>3, <3>1, ReadFirst, ElementOfSeq
      <4>2. x.answer \in Nat /\ Line'[i].answer \in Nat
        BY <3>1, <4>1, MaxAssumption DEF BytesOnLine
      <4> QED BY <4>1, <4>2 DEF Before
    <3> QED BY <3>2, <3>3
  <2>3. x.answer \in Nat
    <3>1. x \in BytesOnLine
      BY <1>3, ReadFirst
    <3> QED BY <3>1, MaxAssumption DEF BytesOnLine
  <2> HIDE DEF x
  <2>4. Pending' \in SUBSET Pending /\ Pending \subseteq Pending' \cup {x.answer}
    BY <1>5, <1>6, <1>7, <2>1
  <2>5. ASSUME NEW l \in Pending', NEW m \in Pending, m \notin Pending' PROVE m < l
    <3>1. m = x.answer /\ l \in Numbers(Line') /\ m # l
      BY <1>7, <2>1, <2>4, <2>5
    <3> QED BY <2>2, <2>3, <3>1
  <2> QED BY <2>4, <2>5 DEF UpperPart
<1> QED BY <1>4, <1>8, <1>9

\* What holds as long as nothing is lost.
LosslessInv == lost = 0 => LinkInv /\ NoRest /\ Exchange

\* The line is as it was.
LEMMA SameLossless ==
  ASSUME TInv, LinkInv, NoRest, Exchange, TInv', Line' = Line,
         UNCHANGED <<waiting, idx, data, sent, last, before>>
  PROVE  LinkInv' /\ NoRest' /\ Exchange'
<1>1. Line \in Seq(BytesOnLine)
  BY LineType DEF TInv
<1>2. LinkInv'
  BY <1>1, ThinsSame, LinkThinned
<1>3. NoRest'
  BY DEF NoRest
<1>4. BeingRead' = BeingRead
  BY DEF BeingRead
<1>5. Pending' = Pending
  BY <1>4, PendingIs, PendingNext DEF TInv
<1>6. Exchange'
  <2>1. CASE waiting
    <3>1. UpperPart(Pending', Pending)
      BY <1>5 DEF UpperPart
    <3> QED BY <2>1, <3>1, ExchangeGoesOn DEF TInv
  <2>2. CASE ~waiting
    BY <2>2 DEF Exchange
  <2> QED BY <2>1, <2>2
<1> QED BY <1>2, <1>3, <1>6

\* As long as nothing is lost, nothing is left of an answer that was returned, and
\* the exchange goes on.
LEMMA NextLossless ==
  ASSUME TInv, InStep, LosslessInv, [Next]_vars
  PROVE  LosslessInv'
<1> SUFFICES ASSUME lost' = 0 PROVE LinkInv' /\ NoRest' /\ Exchange'
  BY DEF LosslessInv
<1>0. lost = 0 /\ ~Lose
  <2>1. ~Lose
    BY MaxAssumption DEF Lose, TInv, TypeOK
  <2> QED BY <2>1 DEF Next, Parse, Command, Delay, ReadByte, Expire, Deliver, vars
<1>a. LinkInv /\ NoRest /\ Exchange
  BY <1>0 DEF LosslessInv
<1>b. TInv'
  BY NextTypes
<1>1. CASE Command
  <2>1. LinkInv' /\ Exchange'
    BY <1>1, <1>a, CommandLink, CommandExchange
  <2>2. NoRest'
    <3>1. /\ rx' = <<>> /\ last' = last /\ sent' = sent + 1 /\ last <= sent
          /\ sent \in Nat /\ last \in Nat /\ sent + 1 \in 1 .. MaxCommands
          /\ rx \in Seq(BytesOnLine) /\ wire \in Seq(BytesOnLine)
      BY <1>1, <1>a, MaxAssumption DEF Command, TInv, TypeOK, LinkInv
    <3>2. Numbers(Line) = Numbers(rx) \cup Numbers(wire)
      BY <3>1, NumbersConcat DEF Line
    <3>3. Line \in Seq(BytesOnLine) /\ Line' \in Seq(BytesOnLine)
      <4>1. Line \in Seq(BytesOnLine)
        BY LineType DEF TInv
      <4>2. rx' \in Seq(BytesOnLine) /\ wire' \in Seq(BytesOnLine)
        BY <1>b DEF TInv, TypeOK
      <4>3. rx' \o wire' \in Seq(BytesOnLine)
        BY <4>2, ConcatProperties
      <4> QED BY <4>1, <4>3 DEF Line
    <3>4. last \notin Numbers(Line)
      <4>1. Numbers(Line) = {Line[i].answer : i \in 1 .. Len(Line)}
        BY <3>3, NumbersType
      <4> QED BY <1>a, <4>1 DEF NoRest
    <3>5. last \notin Numbers(wire')
      <4>1. CASE wire' = wire
        BY <3>2, <3>4, <4>1
      <4>2. CASE \E body \in Bodies : wire' = wire \o Frame(body, sent + 1)
        <5>1. PICK body \in Bodies : wire' = wire \o Frame(body, sent + 1)
          BY <4>2
        <5>2. Frame(body, sent + 1) \in Seq(BytesOnLine)
          BY <3>1, FrameProperties
        <5>3. Numbers(wire') = Numbers(wire) \cup {sent + 1}
          BY <3>1, <5>1, <5>2, NumbersConcat, NumbersFrame
        <5>4. last # sent + 1
          BY <3>1
        <5> QED BY <3>2, <3>4, <5>3, <5>4
      <4> QED BY <1>1, <4>1, <4>2 DEF Command
    <3>6. Line' = wire'
      <4>1. wire' \in Seq(BytesOnLine)
        BY <1>b DEF TInv, TypeOK
      <4> QED BY <3>1, <4>1 DEF Line
    <3>7. Numbers(Line') = {Line'[i].answer : i \in 1 .. Len(Line')}
      BY <3>3, NumbersType
    <3>8. \A i \in 1 .. Len(Line') : Line'[i].answer # last'
      BY <3>1, <3>5, <3>6, <3>7
    <3> QED BY <3>8 DEF NoRest
  <2> QED BY <2>1, <2>2
<1>2. CASE Delay
  <2>1. Line' = Line
    BY <1>2 DEF Delay, Line
  <2> QED BY <1>2, <1>a, <1>b, <2>1, SameLossless DEF Delay, history
<1>3. CASE ReadByte
  <2>1. LinkInv'
    BY <1>3, <1>a, ReadByteLink
  <2>2. CASE idx >= 9 /\ Complete
    <3>1. NoRest'
      BY <1>0, <1>3, <1>a, <2>2, ReadByteReturns
    <3>2. waiting' = FALSE
      BY <1>3, <2>2 DEF ReadByte
    <3>3. Exchange'
      BY <3>2 DEF Exchange
    <3> QED BY <2>1, <3>1, <3>3
  <2>3. CASE ~(idx >= 9 /\ Complete)
    <3>1. waiting /\ last' = last /\ UNCHANGED <<sent, before>>
      BY <1>3, <2>3 DEF ReadByte
    <3>2. NoRest'
      <4>1. PICK C \in Texts : LineInv(C)
        BY <1>a DEF LinkInv
      <4>2. \A i \in 1 .. Len(Line') : \E j \in 1 .. Len(Line) : Line'[i] = Line[j]
        BY <1>3, <4>1, ReadFirst
      <4> QED BY <1>a, <3>1, <4>2 DEF NoRest
    <3>3. UpperPart(Pending', Pending)
      BY <1>0, <1>3, <1>a, <2>3, ReadByteMisses
    <3>4. Exchange'
      BY <1>a, <3>1, <3>3, ExchangeGoesOn DEF TInv
    <3> QED BY <2>1, <3>2, <3>4
  <2> QED BY <2>2, <2>3
<1>4. CASE Expire
  <2>1. waiting' = FALSE /\ Line' = Line /\ last' = last
    BY <1>4 DEF Expire, Line
  <2>2. NoRest' /\ Exchange'
    BY <1>a, <2>1 DEF NoRest, Exchange
  <2> QED BY <1>4, <1>a, <2>2, ExpireLink
<1>5. CASE Deliver
  <2>1. Line' = Line
    BY <1>5, LineDelivered DEF TInv
  <2> QED BY <1>5, <1>a, <1>b, <2>1, SameLossless DEF Deliver, locals, history
<1>6. CASE UNCHANGED vars
  <2>1. Line' = Line
    BY <1>6 DEF vars, Line
  <2> QED BY <1>6, <1>a, <1>b, <2>1, SameLossless DEF vars, locals, history
<1> QED BY <1>0, <1>1, <1>2, <1>3, <1>4, <1>5, <1>6 DEF Next, Parse

\* transfer_ returns.
LEMMA ReturnIsOutcome ==
  ASSUME TInv, InStep, LosslessInv, [Next]_vars, Returning, lost = 0
  PROVE  [response |-> returned', unread |-> Unread'] \in Link!Outcomes(before, {sent}, 0)
<1>1. LinkInv /\ NoRest /\ Exchange /\ waiting /\ ~waiting' /\ TypeOK
  BY DEF LosslessInv, Returning, TInv
<1>2. Unread \in Visible
  BY <1>1, PendingVisible
<1>3. Link!Outcomes(before, {sent}, 0) =
        {[response |-> 0, unread |-> q] : q \in Visible}
          \cup {[response |-> Head(q), unread |-> Tail(q)] : q \in Visible \ {<<>>}}
  BY DEF Link!Outcomes, Link!Suffixes, Suffixes, Visible
<1>4. ReadByte \/ Expire
  BY <1>1 DEF Next, Parse, Command, Delay, Deliver, Lose, vars, locals
<1>5. CASE ReadByte
  <2>1. idx >= 9 /\ Complete
    BY <1>1, <1>5 DEF ReadByte
  <2>2. Unread # <<>> /\ returned' = Head(Unread) /\ Unread' = Tail(Unread)
    BY <1>1, <1>5, <2>1, ReadByteReturns
  <2> QED BY <1>2, <1>3, <2>2
<1>6. CASE Expire
  <2>1. returned' = 0 /\ UNCHANGED <<sent, before>>
    BY <1>6 DEF Expire
  <2>2. UpperPart(Pending', Pending)
    BY <1>1, <1>6, ExpirePending
  <2>3. Unread' \in Visible
    <3>1. PICK S \in SUBSET (1 .. MaxCommands) :
            /\ before = Ascending(S)
            /\ sent \in 1 .. MaxCommands /\ \A m \in S : m < sent
            /\ UpperPart(Pending, S) \/ UpperPart(Pending, S \cup {sent})
      BY <1>1 DEF Exchange
    <3>2. UpperPart(Pending', S) \/ UpperPart(Pending', S \cup {sent})
      BY <2>2, <3>1, UpperPartOfUpperPart
    <3>3. Unread' = Ascending(Pending')
      BY DEF Unread, Ascending
    <3> QED BY <3>1, <3>2, <3>3, UpperVisible
  <2> QED BY <1>3, <2>1, <2>3
<1> QED BY <1>4, <1>5, <1>6

\* On a line that loses nothing, every call of transfer_ is one of the outcomes that
\* the model of the component gives to send_command_, however late its bytes are,
\* if headers occur only in front of bodies.
THEOREM ExchangesAreOutcomes ==
  ASSUME HeaderOnlyInFront
  PROVE  Spec => ExchangeIsOutcome
<1> DEFINE Inv == StepInv /\ LosslessInv
<1>1. Init => Inv
  <2>1. Init => NoRest /\ Exchange
    <3>1. Init => Line = <<>> /\ waiting = FALSE /\ Len(<<>>) = 0
      BY DEF Init, Line
    <3> QED BY <3>1 DEF NoRest, Exchange
  <2> QED BY <2>1, InitTypes, InitInStep, InitLink DEF StepInv, LosslessInv
<1>2. Inv /\ [Next]_vars => Inv'
  BY NextInStep, NextLossless DEF StepInv
<1>3. Inv /\ [Next]_vars =>
        [Returning /\ lost = 0 =>
           [response |-> returned', unread |-> Unread']
             \in Link!Outcomes(before, {sent}, 0)]_vars
  BY ReturnIsOutcome DEF StepInv
<1> HIDE DEF Inv
<1> QED BY <1>1, <1>2, <1>3, PTL DEF Spec, ExchangeIsOutcome
==============================================================================
