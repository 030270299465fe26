--------------------- MODULE Marklin6050FeedbackProofs ---------------------
(***************************************************************************)
(* The receiving half of the 6050, for every number of modules, every set  *)
(* of events and every bound: its counters keep their ranges, an answer    *)
(* ends with its last byte, and it implements the abstract receiver.       *)
(*                                                                         *)
(* Shape says, while the line is sound, what is left of the answer on the  *)
(* wire and how far the state machine that awaits it has come.             *)
(***************************************************************************)
EXTENDS Marklin6050Feedback, SequenceTheorems, TLAPS

EventPackets == {EventPacket(e) : e \in Event}

\* What is left of an S88 answer: the last modules.
ModuleAnswer ==
  /\ Len(wire) <= Amount
  /\ \A i \in 1..Len(wire) : wire[i] = ModulePacket(Amount - Len(wire) + i - 1)
  /\ s88State = "ReceivingData"
  /\ s88Expect = 2 * Len(wire) - received
  /\ received = 1 => s88High = <<wire[1], 0>>

\* A whole extension answer.
CountAnswer ==
  /\ received = 0
  /\ wire[1] = CountPacket(Len(wire) - 1)
  /\ \A i \in 2..Len(wire) : wire[i] \in EventPackets
  /\ s88State = "Idle" /\ extState = "WaitCount"

\* What is left of one whose count was received.
EventAnswer ==
  /\ \A i \in 1..Len(wire) : wire[i] \in EventPackets
  /\ s88State = "Idle" /\ extEventsLeft = Len(wire)
  /\ received = 0 => extState = "WaitType"
  /\ received # 0 => extKind = KindOf[wire[1][2]]
  /\ received = 1 => extState = IF extKind = "global" THEN "Data" ELSE "Addr"
  /\ received = 2 => extState = "Data" /\ extTmpAddr = <<wire[1], 1>>

Shape ==
  sound => IF wire = <<>> THEN s88State = "Idle"
           ELSE ModuleAnswer \/ CountAnswer \/ EventAnswer

\* The inductive invariant.
IInv == TypeOK /\ Shape

-----------------------------------------------------------------------------
(* Packets.                                                                *)

\* A packet's tag, which comes first, tells what it is.
LEMMA PacketContents ==
  /\ \A m : ModulePacket(m)[1] = "module" /\ ModulePacket(m)[2] = m
  /\ \A n : CountPacket(n)[1] = "count" /\ CountPacket(n)[2] = n
  /\ \A e : EventPacket(e)[1] = "event" /\ EventPacket(e)[2] = e
BY DEF ModulePacket, CountPacket, EventPacket

LEMMA PacketSize ==
  /\ \A p \in Packet : Size(p) \in 1..3
  /\ \A m : Size(ModulePacket(m)) = 2
  /\ \A n : Size(CountPacket(n)) = 1
  /\ \A e : Size(EventPacket(e)) = IF KindOf[e] = "global" THEN 2 ELSE 3
BY PacketContents DEF Size

\* Nothing else is reported as an item, and an item is never taken for garbled.
LEMMA PacketTypes ==
  /\ Item \subseteq Packet
  /\ EventPackets \subseteq Item
  /\ \A m \in Module : ModulePacket(m) \in Item
  /\ \A n \in 0..MaxCount : CountPacket(n) \in Packet
BY DEF Item, Packet, EventPackets

\* Every kind of event is a kind.
LEMMA KindsOfType ==
  ASSUME NEW b \in Byte
  PROVE  KindsOf(b) \subseteq Kind \cup {"unknown"}
<1>1. CASE b[1] \in EventPackets
  <2>1. b[1][2] \in Event
    BY <1>1, PacketContents DEF EventPackets
  <2> QED
    BY <2>1, FeedbackAssumption DEF KindsOf
<1>2. CASE b[1] \notin EventPackets
  <2>1. b[1] \in Packet
    BY DEF Byte
  <2>2. b[1][1] # "event"
    BY <1>2, <2>1, PacketContents DEF Packet, Item, EventPackets
  <2> QED
    BY <2>2 DEF KindsOf
<1> QED
  BY <1>1, <1>2

LEMMA CountsOfType ==
  ASSUME NEW b \in Byte
  PROVE  CountsOf(b) \subseteq 0..MaxCount
<1>1. b[1] \in Packet
  BY DEF Byte
<1>2. ASSUME b[1][1] = "count"
      PROVE  b[1][2] \in 0..MaxCount
  BY <1>1, <1>2, PacketContents DEF Packet, Item
<1> QED
  BY <1>2 DEF CountsOf

\* What a state machine reports is an item or garbled.
LEMMA ReportTypes ==
  ASSUME NEW b \in Byte, TypeOK, s88State = "ReceivingData"
  PROVE  ModuleReport(b) \in Item \cup {Garbled}
<1>1. s88Module \in Module
  BY FeedbackAssumption DEF TypeOK, Module
<1> QED
  BY <1>1, PacketTypes DEF ModuleReport

LEMMA EventReportType ==
  ASSUME NEW b \in Byte
  PROVE  EventReport(b) \in Item \cup {Garbled}
<1>1. b[1] \in Packet
  BY DEF Byte
<1>2. b[1][1] = "event" => b[1] \in Item
  BY <1>1, PacketContents DEF Packet
<1> QED
  BY <1>2 DEF EventReport

-----------------------------------------------------------------------------
(* The line.                                                               *)

LEMMA TakeByteType ==
  ASSUME TypeOK, TakeByte
  PROVE  /\ wire' \in Seq(Packet)
         /\ received' \in Nat
         /\ received' < IF wire' = <<>> THEN 1 ELSE Size(Head(wire'))
         /\ <<Head(wire), received>> \in Byte
<1>1. wire \in Seq(Packet) /\ wire # <<>> /\ received \in Nat /\ received < Size(Head(wire))
  BY DEF TypeOK, TakeByte
<1>2. Head(wire) \in Packet /\ Tail(wire) \in Seq(Packet)
  BY <1>1
<1>3. Size(Head(wire)) \in 1..3
  BY <1>2, PacketSize
<1>4. Tail(wire) # <<>> => Head(Tail(wire)) \in Packet
  BY <1>2
<1>5. Tail(wire) # <<>> => Size(Head(Tail(wire))) \in 1..3
  BY <1>4, PacketSize
<1>6. CASE received + 1 = Size(Head(wire))
  <2>1. wire' = Tail(wire) /\ received' = 0
    BY <1>6 DEF TakeByte
  <2>2. received' < IF wire' = <<>> THEN 1 ELSE Size(Head(wire'))
    BY <2>1, <1>5
  <2> QED
    BY <1>1, <1>2, <1>3, <2>1, <2>2 DEF Byte
<1>7. CASE received + 1 # Size(Head(wire))
  <2>1. wire' = wire /\ received' = received + 1
    BY <1>7 DEF TakeByte
  <2> QED
    BY <1>1, <1>2, <1>3, <1>7, <2>1 DEF Byte
<1> QED
  BY <1>6, <1>7

\* The counters of the S88 answer: byte by byte, a module every second byte.
LEMMA ModuleCounter ==
  ASSUME NEW n \in 1..(Amount * 2)
  PROVE  LET s == Amount * 2 - n IN
         /\ s \in Nat
         /\ s % 2 = 0 => (s + 1) \div 2 = s \div 2
         /\ s % 2 # 0 => (s + 1) \div 2 = s \div 2 + 1
<1>1. Amount \in Nat
  BY FeedbackAssumption
<1> QED
  BY <1>1

LEMMA ReceiveS88ByteType ==
  ASSUME TypeOK, TakeByte, s88State = "ReceivingData", NEW b \in Byte, ReceiveS88Byte(b),
         UNCHANGED <<changes, sound>>
  PROVE  TypeOK'
<1>1. s88Expect \in 1..(Amount * 2) /\ s88Module = (Amount * 2 - s88Expect) \div 2
  BY FeedbackAssumption DEF TypeOK
<1>2. s88Expect' = s88Expect - 1 /\ s88State' = IF s88Expect = 1 THEN "Idle" ELSE s88State
  BY DEF ReceiveS88Byte
<1>3. Amount \in Nat
  BY FeedbackAssumption
<1>4. Amount * 2 - s88Expect' = Amount * 2 - s88Expect + 1
  BY <1>1, <1>2, <1>3
<1>5. s88Module' = IF s88State' = "Idle" THEN 0 ELSE (Amount * 2 - s88Expect') \div 2
  <2>1. CASE s88Expect = 1
    BY <2>1, <1>2 DEF ReceiveS88Byte
  <2>2. CASE s88Expect # 1
    BY <2>2, <1>1, <1>2, <1>3, <1>4, ModuleCounter DEF ReceiveS88Byte, IsHighByte
  <2> QED
    BY <2>1, <2>2
<1>6. s88State' \in {"Idle", "ReceivingData"} /\ s88Expect' \in 0..(Amount * 2)
      /\ (s88State' = "ReceivingData" <=> s88Expect' > 0)
  BY <1>1, <1>2, <1>3
<1>7. s88High' \in Byte \cup {NoByte} /\ reported' \in Item \cup {Garbled}
  BY ReportTypes DEF ReceiveS88Byte, TypeOK
<1> QED
  BY <1>5, <1>6, <1>7, TakeByteType DEF TypeOK, ReceiveS88Byte, ext

LEMMA ProcessExtensionByteType ==
  ASSUME TypeOK, TakeByte, NEW b \in Byte, ProcessExtensionByte(b),
         UNCHANGED <<s88, changes, sound>>
  PROVE  TypeOK'
<1> DEFINE ExtType == /\ extState' \in {"Idle", "WaitCount", "WaitType", "Addr", "Data"}
                      /\ extKind' \in Kind /\ extEventsLeft' \in 0..MaxCount
                      /\ extState' \in {"WaitType", "Addr", "Data"} => extEventsLeft' > 0
                      /\ extTmpAddr' \in Byte \cup {NoByte}
                      /\ reported' \in Item \cup {Garbled}
<1>0. MaxCount \in Nat
  BY FeedbackAssumption
<1>1. ExtType
  <2>1. CASE extState = "WaitCount"
    BY <1>0, <2>1, CountsOfType DEF ProcessExtensionByte, TypeOK
  <2>2. CASE extState = "WaitType"
    BY <1>0, <2>2, KindsOfType DEF ProcessExtensionByte, TypeOK, Kind
  <2>3. CASE extState = "Addr"
    BY <1>0, <2>3 DEF ProcessExtensionByte, TypeOK
  <2>4. CASE extState = "Data"
    BY <1>0, <2>4, EventReportType DEF ProcessExtensionByte, AdvanceExtensionEvent, TypeOK
  <2> QED
    BY <2>1, <2>2, <2>3, <2>4 DEF ProcessExtensionByte
<1> QED
  BY <1>1, TakeByteType DEF TypeOK, s88

\* What a poll puts on the wire.
LEMMA PollPackets ==
  ASSUME TypeOK
  PROVE  /\ [i \in 1..Amount |-> ModulePacket(i - 1)] \in Seq(Item)
         /\ [i \in DOMAIN changes |-> EventPacket(changes[i])] \in Seq(Item)
         /\ [i \in DOMAIN changes |-> EventPacket(changes[i])] \in Seq(EventPackets)
         /\ CountPacket(Len(changes)) \in Packet
<1>1. Amount \in Nat /\ changes \in Seq(Event) /\ Len(changes) \in 0..MaxCount
  BY FeedbackAssumption DEF TypeOK
<1>2. \A i \in 1..Amount : ModulePacket(i - 1) \in Item
  BY <1>1, PacketTypes DEF Module
<1>3. \A i \in 1..Len(changes) : EventPacket(changes[i]) \in EventPackets
  BY <1>1 DEF EventPackets
<1>4. DOMAIN changes = 1..Len(changes) /\ Len(changes) \in Nat
  BY <1>1
<1>5. [i \in 1..Amount |-> ModulePacket(i - 1)] \in Seq(Item)
  BY <1>1, <1>2
<1>6. [i \in 1..Len(changes) |-> EventPacket(changes[i])] \in Seq(EventPackets)
  BY <1>3, <1>4
<1> QED
  BY <1>1, <1>4, <1>5, <1>6, PacketTypes, SeqMonotonic

\* A poll leaves the first packet, and how much of it was received.
LEMMA PolledWireType ==
  ASSUME TypeOK, NEW more \in Seq(Packet), wire' = wire \o more, UNCHANGED received
  PROVE  /\ wire' \in Seq(Packet)
         /\ received' \in Nat
         /\ received' < IF wire' = <<>> THEN 1 ELSE Size(Head(wire'))
<1>1. wire \in Seq(Packet) /\ received \in Nat
      /\ received < IF wire = <<>> THEN 1 ELSE Size(Head(wire))
  BY DEF TypeOK
<1>2. wire' \in Seq(Packet)
  BY <1>1, ConcatProperties
<1>3. CASE wire = <<>>
  <2>1. wire' # <<>> => Size(Head(wire')) \in 1..3
    BY <1>2, PacketSize
  <2> QED
    BY <1>1, <1>2, <1>3, <2>1
<1>4. CASE wire # <<>>
  <2>1. wire' # <<>> /\ Head(wire') = Head(wire)
    BY <1>1, <1>4, ConcatProperties
  <2> QED
    BY <1>1, <1>2, <1>4, <2>1
<1> QED
  BY <1>3, <1>4

LEMMA TypeInitial == Init => TypeOK
BY FeedbackAssumption DEF Init, TypeOK, NoByte, Garbled, Kind

LEMMA TypeStep == TypeOK /\ [Next]_vars => TypeOK'
<1> SUFFICES ASSUME TypeOK, [Next]_vars
             PROVE  TypeOK'
  OBVIOUS
<1>0. Amount \in Nat /\ MaxCount \in Nat
  BY FeedbackAssumption
<1>1. CASE DoS88Poll
  <2> DEFINE modules == [i \in 1..Amount |-> ModulePacket(i - 1)]
  <2>1. modules \in Seq(Packet)
    BY PollPackets, PacketTypes, SeqMonotonic
  <2>2. wire' = wire \o modules /\ UNCHANGED received
    BY <1>1 DEF DoS88Poll
  <2> HIDE DEF modules
  <2>3. /\ wire' \in Seq(Packet)
        /\ received' \in Nat
        /\ received' < IF wire' = <<>> THEN 1 ELSE Size(Head(wire'))
    BY <2>1, <2>2, PolledWireType
  <2>4. s88Module' = (Amount * 2 - s88Expect') \div 2 /\ s88Expect' \in 1..(Amount * 2)
    BY <1>0, <1>1 DEF DoS88Poll
  <2>5. sound' \in BOOLEAN
    BY <1>1 DEF DoS88Poll
  <2>6. s88State' = "ReceivingData" /\ UNCHANGED <<s88High, ext, changes, reported>>
    BY <1>1 DEF DoS88Poll
  <2> QED
    BY <2>3, <2>4, <2>5, <2>6 DEF TypeOK, ext
<1>2. CASE DoExtensionPoll
  <2> DEFINE events == [i \in DOMAIN changes |-> EventPacket(changes[i])]
             told == <<CountPacket(Len(changes))>> \o events
  <2>1. events \in Seq(Packet) /\ <<CountPacket(Len(changes))>> \in Seq(Packet)
    BY PollPackets, PacketTypes, SeqMonotonic
  <2>2. wire' = wire \o told /\ UNCHANGED received
    <3>1. wire' = wire \o <<CountPacket(Len(changes))>> \o events
      BY <1>2 DEF DoExtensionPoll
    <3>2. wire \in Seq(Packet)
      BY DEF TypeOK
    <3>3. UNCHANGED received
      BY <1>2 DEF DoExtensionPoll
    <3> HIDE DEF events
    <3>4. <<CountPacket(Len(changes))>> \in Seq(Packet) /\ events \in Seq(Packet)
      BY <2>1
    <3> QED
      BY <3>1, <3>2, <3>3, <3>4, ConcatAssociative
  <2> HIDE DEF events
  <2>3. told \in Seq(Packet)
    BY <2>1, ConcatProperties
  <2> HIDE DEF told
  <2>4. /\ wire' \in Seq(Packet)
        /\ received' \in Nat
        /\ received' < IF wire' = <<>> THEN 1 ELSE Size(Head(wire'))
    BY <2>2, <2>3, PolledWireType
  <2>5. changes' \in Seq(Event) /\ Len(changes') <= MaxCount
    BY <1>0, <1>2 DEF DoExtensionPoll
  <2>6. sound' \in BOOLEAN
    BY <1>2 DEF DoExtensionPoll, Quiet
  <2>7. extState' = "WaitCount" /\ extEventsLeft' = 0
        /\ UNCHANGED <<s88, extKind, extTmpAddr, reported>>
    BY <1>2 DEF DoExtensionPoll
  <2> QED
    BY <1>0, <2>4, <2>5, <2>6, <2>7 DEF TypeOK, s88
<1>3. CASE Receive
  <2> DEFINE b == <<Head(wire), received>>
  <2>1. TakeByte /\ UNCHANGED <<changes, sound>>
    BY <1>3 DEF Receive
  <2>2. b \in Byte
    BY <2>1, TakeByteType
  <2>3. CASE s88State = "ReceivingData" /\ ReceiveS88Byte(b)
    BY <2>1, <2>2, <2>3, ReceiveS88ByteType
  <2>4. CASE ProcessExtensionByte(b) /\ UNCHANGED s88
    <3>1. UNCHANGED <<s88, changes, sound>>
      BY <2>1, <2>4
    <3> HIDE DEF b
    <3> QED
      BY <2>1, <2>2, <2>4, <3>1, ProcessExtensionByteType
  <2>5. CASE UNCHANGED <<s88, ext, reported>>
    BY <2>1, <2>5, TakeByteType DEF TypeOK, s88, ext
  <2> QED
    BY <1>3, <2>3, <2>4, <2>5 DEF Receive
<1>4. CASE LoseByte
  BY <1>4, TakeByteType DEF LoseByte, TypeOK, s88, ext
<1>5. CASE \E e \in Event : Change(e)
  <2>1. PICK e \in Event : Change(e)
    BY <1>5
  <2>2. changes' \in Seq(Event) /\ Len(changes') <= MaxCount
    BY <1>0, <2>1 DEF Change, TypeOK
  <2> QED
    BY <2>1, <2>2 DEF TypeOK, Change, s88, ext, line
<1>6. CASE UNCHANGED vars
  BY <1>6 DEF TypeOK, vars, s88, ext, line
<1> QED
  BY <1>1, <1>2, <1>3, <1>4, <1>5, <1>6 DEF Next

\* Both state machines' counters stay within the lengths of the answers, whatever bytes
\* are lost or taken for what they are not (kernel.cpp, receive).
THEOREM TypeCorrect == Spec => []TypeOK
<1> QED
  BY TypeInitial, TypeStep, PTL DEF Spec

-----------------------------------------------------------------------------
(* The shape of the wire.                                                  *)

LEMMA WireProperties ==
  ASSUME TypeOK, wire # <<>>
  PROVE  /\ Len(wire) \in Nat \ {0} /\ Head(wire) = wire[1] /\ wire[1] \in Packet
         /\ Len(Tail(wire)) = Len(wire) - 1
         /\ \A i \in 1..(Len(wire) - 1) : Tail(wire)[i] = wire[i + 1]
         /\ Tail(wire) = <<>> <=> Len(wire) = 1
         /\ received \in Nat /\ received < Size(wire[1])
<1>1. wire \in Seq(Packet) /\ received \in Nat /\ received < Size(Head(wire))
  BY DEF TypeOK
<1>2. Len(wire) \in Nat \ {0} /\ Head(wire) = wire[1] /\ wire[1] \in Packet
  BY <1>1
<1>3. /\ Tail(wire) \in Seq(Packet) /\ Len(Tail(wire)) = Len(wire) - 1
      /\ \A i \in 1..(Len(wire) - 1) : Tail(wire)[i] = wire[i + 1]
  BY <1>1, HeadTailProperties
<1>4. Tail(wire) = <<>> <=> Len(wire) = 1
  <2>1. Tail(wire) = <<>> => Len(Tail(wire)) = 0
    BY EmptySeq
  <2>2. Tail(wire) # <<>> => Len(Tail(wire)) \in Nat \ {0}
    BY <1>3, EmptySeq
  <2> QED
    BY <1>2, <1>3, <2>1, <2>2
<1> QED
  BY <1>1, <1>2, <1>3, <1>4

LEMMA ModuleByte ==
  ASSUME TypeOK, wire # <<>>, ModuleAnswer, Receive
  PROVE  IF wire' = <<>> THEN s88State' = "Idle" ELSE ModuleAnswer'
<1> DEFINE n == Len(wire)
<1>0. Amount \in Nat /\ n \in Nat \ {0} /\ n <= Amount
  BY WireProperties, FeedbackAssumption DEF ModuleAnswer
<1>1. wire[1] = ModulePacket(Amount - n) /\ received \in {0, 1} /\ Size(wire[1]) = 2
  <2>1. wire[1] = ModulePacket(Amount - n + 1 - 1)
    BY <1>0 DEF ModuleAnswer
  <2>2. wire[1] = ModulePacket(Amount - n)
    BY <1>0, <2>1
  <2> QED
    BY <2>2, WireProperties, PacketSize
<1>2. ReceiveS88Byte(<<wire[1], received>>) /\ TakeByte
  BY WireProperties DEF Receive, ModuleAnswer
<1>3. s88Expect = 2 * n - received
  BY DEF ModuleAnswer
<1> HIDE DEF n
<1>4. CASE received = 0
  <2>1. wire' = wire /\ received' = 1
    BY <1>1, <1>4, <1>2, WireProperties DEF TakeByte
  <2>2. IsHighByte
    BY <1>0, <1>3, <1>4 DEF IsHighByte
  <2>3. s88Expect' = 2 * n - 1 /\ s88State' = "ReceivingData" /\ s88High' = <<wire[1], 0>>
    BY <1>0, <1>2, <1>3, <1>4, <2>2 DEF ReceiveS88Byte, ModuleAnswer
  <2> QED
    BY <2>1, <2>3 DEF ModuleAnswer, n
<1>5. CASE received = 1
  <2>1. wire' = Tail(wire) /\ received' = 0
    BY <1>1, <1>5, <1>2, WireProperties DEF TakeByte
  <2>2. s88Expect' = 2 * (n - 1) /\ s88State' = IF n = 1 THEN "Idle" ELSE "ReceivingData"
    BY <1>0, <1>2, <1>3, <1>5 DEF ReceiveS88Byte, ModuleAnswer
  <2>3. CASE n = 1
    BY <2>1, <2>2, <2>3, WireProperties DEF n
  <2>4. CASE n # 1
    <3>1. wire' # <<>> /\ Len(wire') = n - 1
      BY <2>1, <2>4, WireProperties DEF n
    <3>2. \A i \in 1..(n - 1) : wire'[i] = ModulePacket(Amount - (n - 1) + i - 1)
      <4>1. TAKE i \in 1..(n - 1)
      <4>2. wire'[i] = wire[i + 1] /\ i + 1 \in 1..n
        BY <1>0, <2>1, WireProperties DEF n
      <4>3. wire[i + 1] = ModulePacket(Amount - n + (i + 1) - 1)
        BY <4>2 DEF ModuleAnswer, n
      <4>4. Amount - n + (i + 1) - 1 = Amount - (n - 1) + i - 1
        BY <1>0
      <4> QED
        BY <4>2, <4>3, <4>4
    <3>3. s88State' = "ReceivingData" /\ s88Expect' = 2 * Len(wire') - received'
      BY <1>0, <2>1, <2>2, <2>4, <3>1
    <3>4. Len(wire') <= Amount /\ received' # 1
      BY <1>0, <2>1, <3>1
    <3> QED
      BY <3>1, <3>2, <3>3, <3>4 DEF ModuleAnswer
  <2> QED
    BY <2>3, <2>4
<1> QED
  BY <1>1, <1>4, <1>5

LEMMA CountByte ==
  ASSUME TypeOK, wire # <<>>, CountAnswer, Receive
  PROVE  IF wire' = <<>> THEN s88State' = "Idle" ELSE EventAnswer'
<1> DEFINE n == Len(wire)
           b == <<wire[1], 0>>
<1>0. n \in Nat \ {0} /\ wire[1] = CountPacket(n - 1) /\ received = 0
  BY WireProperties DEF CountAnswer
<1>1. wire' = Tail(wire) /\ received' = 0
  BY <1>0, WireProperties, PacketSize DEF Receive, TakeByte
<1>2. ProcessExtensionByte(b) /\ UNCHANGED s88
  BY <1>0, WireProperties DEF Receive, CountAnswer
<1>3. CountsOf(b) = {n - 1}
  BY <1>0, PacketContents DEF CountsOf
<1>4. extEventsLeft' = n - 1 /\ extState' = IF n - 1 > 0 THEN "WaitType" ELSE "Idle"
  BY <1>2, <1>3 DEF ProcessExtensionByte, CountAnswer
<1>5. s88State' = "Idle"
  BY <1>2 DEF s88, CountAnswer
<1>6. \A i \in 1..(n - 1) : wire'[i] \in EventPackets
  BY <1>0, <1>1, WireProperties DEF CountAnswer
<1>7. Len(wire') = n - 1
  BY <1>1, WireProperties
<1>8. CASE wire' # <<>>
  <2>1. n - 1 > 0
    BY <1>0, <1>1, <1>8, WireProperties
  <2> QED
    BY <1>1, <1>4, <1>5, <1>6, <1>7, <2>1 DEF EventAnswer
<1> QED
  BY <1>5, <1>8

LEMMA EventByte ==
  ASSUME TypeOK, wire # <<>>, EventAnswer, Receive
  PROVE  IF wire' = <<>> THEN s88State' = "Idle" ELSE EventAnswer'
<1> DEFINE n == Len(wire)
           b == <<wire[1], received>>
<1>0. n \in Nat \ {0} /\ received \in Nat /\ received < Size(wire[1])
  BY WireProperties
<1>1. PICK e \in Event : wire[1] = EventPacket(e)
  BY <1>0 DEF EventAnswer, EventPackets
<1>2. Size(wire[1]) = (IF KindOf[e] = "global" THEN 2 ELSE 3) /\ wire[1][2] = e /\ wire[1][1] = "event"
  BY <1>1, PacketSize, PacketContents
<1>3. KindOf[e] \in Kind
  BY FeedbackAssumption
<1>4. extState # "Idle"
  BY <1>0, <1>2 DEF EventAnswer
<1>5. ProcessExtensionByte(b) /\ UNCHANGED s88 /\ TakeByte
  BY <1>4, WireProperties DEF Receive, EventAnswer
<1>6. s88State' = "Idle"
  BY <1>5 DEF s88, EventAnswer
<1>7. extEventsLeft = n
  BY DEF EventAnswer
<1>8. CASE received = 0
  <2>1. wire' = wire /\ received' = 1
    BY <1>2, <1>5, <1>8, WireProperties DEF TakeByte
  <2>2. KindsOf(b) = {KindOf[e]} /\ extState = "WaitType"
    BY <1>2, <1>8 DEF KindsOf, EventAnswer
  <2>3. /\ extKind' = KindOf[e] /\ extEventsLeft' = extEventsLeft
        /\ extState' = IF KindOf[e] = "global" THEN "Data" ELSE "Addr"
    BY <1>3, <1>5, <2>2 DEF ProcessExtensionByte, Kind
  <2> QED
    BY <1>2, <1>6, <2>1, <2>3 DEF EventAnswer
<1>9. CASE received = 1 /\ KindOf[e] # "global"
  <2>1. wire' = wire /\ received' = 2
    BY <1>2, <1>5, <1>9, WireProperties DEF TakeByte
  <2>2. extState = "Addr"
    BY <1>2, <1>9 DEF EventAnswer
  <2>3. extState' = "Data" /\ extTmpAddr' = b /\ UNCHANGED <<extKind, extEventsLeft>>
    BY <1>5, <2>2 DEF ProcessExtensionByte
  <2> QED
    BY <1>2, <1>6, <1>9, <2>1, <2>3 DEF EventAnswer
<1>10. CASE received + 1 = Size(wire[1])
  <2>1. wire' = Tail(wire) /\ received' = 0
    BY <1>5, <1>10, WireProperties DEF TakeByte
  <2>2. extState = "Data"
    BY <1>0, <1>2, <1>10 DEF EventAnswer
  <2>3. extEventsLeft' = n - 1 /\ extState' = IF n > 1 THEN "WaitType" ELSE "Idle"
    BY <1>5, <1>7, <2>2 DEF ProcessExtensionByte, AdvanceExtensionEvent
  <2>4. Len(wire') = n - 1 /\ \A i \in 1..(n - 1) : wire'[i] \in EventPackets
    BY <1>0, <2>1, WireProperties DEF EventAnswer
  <2>5. wire' # <<>> => n > 1
    BY <1>0, <2>1, WireProperties
  <2> QED
    BY <1>6, <2>1, <2>3, <2>4, <2>5 DEF EventAnswer
<1> QED
  BY <1>0, <1>2, <1>8, <1>9, <1>10

\* What a poll on a quiet line puts there.
LEMMA ModulesPolled ==
  ASSUME TypeOK, DoS88Poll, wire = <<>>
  PROVE  ModuleAnswer' /\ wire' # <<>> /\ wire' \in Seq(Item)
<1> DEFINE modules == [i \in 1..Amount |-> ModulePacket(i - 1)]
<1>1. Amount \in Nat \ {0}
  BY FeedbackAssumption DEF DoS88Poll
<1>2. modules \in Seq(Item) /\ Len(modules) = Amount
  BY <1>1, PollPackets
<1>3. wire' = <<>> \o modules
  BY DEF DoS88Poll
<1>4. wire' = modules
  BY <1>2, <1>3, ConcatEmptySeq
<1>5. received' = 0
  BY DEF DoS88Poll, TypeOK
<1>6. \A i \in 1..Amount : modules[i] = ModulePacket(Amount - Amount + i - 1)
  BY <1>1
<1>7. s88State' = "ReceivingData" /\ s88Expect' = Amount * 2
  BY DEF DoS88Poll
<1> HIDE DEF modules
<1> QED
  BY <1>1, <1>2, <1>4, <1>5, <1>6, <1>7 DEF ModuleAnswer

LEMMA EventsPolled ==
  ASSUME TypeOK, DoExtensionPoll, wire = <<>>, s88State = "Idle"
  PROVE  CountAnswer' /\ wire' # <<>> /\ Tail(wire') \in Seq(Item)
<1> DEFINE events == [i \in DOMAIN changes |-> EventPacket(changes[i])]
           count == CountPacket(Len(changes))
<1>1. Len(changes) \in Nat
  BY DEF TypeOK
<1>2. events \in Seq(Item) /\ events \in Seq(EventPackets) /\ Len(events) = Len(changes)
  BY <1>1, PollPackets DEF TypeOK
<1>3. wire' = <<>> \o <<count>> \o events
  BY DEF DoExtensionPoll
<1> HIDE DEF events
<1>4. <<count>> \in Seq(Packet) /\ events \in Seq(Packet) /\ Len(<<count>>) = 1
  BY <1>2, PollPackets, PacketTypes, SeqMonotonic
<1>5. wire' = <<count>> \o events
  BY <1>3, <1>4, ConcatEmptySeq
<1>6. /\ wire' \in Seq(Packet) /\ Len(wire') = Len(changes) + 1
      /\ wire'[1] = count
      /\ \A i \in 2..Len(wire') : wire'[i] = events[i - 1]
  BY <1>1, <1>2, <1>4, <1>5, ConcatProperties
<1>7. \A i \in 2..Len(wire') : wire'[i] \in EventPackets
  BY <1>1, <1>2, <1>6
<1>8. wire' # <<>>
  BY <1>1, <1>6
<1>9. Tail(wire') = events
  <2>1. /\ Tail(wire') \in Seq(Packet) /\ Len(Tail(wire')) = Len(events)
        /\ \A i \in 1..Len(events) : Tail(wire')[i] = events[i]
    BY <1>1, <1>2, <1>6, <1>8, HeadTailProperties
  <2> QED
    BY <1>4, <2>1, SeqEqual
<1>10. received' = 0 /\ extState' = "WaitCount" /\ s88State' = "Idle"
  BY DEF DoExtensionPoll, TypeOK, s88
<1>11. wire'[1] = CountPacket(Len(wire') - 1)
  BY <1>1, <1>6
<1> QED
  BY <1>2, <1>7, <1>8, <1>9, <1>10, <1>11 DEF CountAnswer

LEMMA ShapeStep == IInv /\ [Next]_vars => Shape'
<1> SUFFICES ASSUME IInv, [Next]_vars, sound'
             PROVE  IF wire' = <<>> THEN s88State' = "Idle"
                    ELSE ModuleAnswer' \/ CountAnswer' \/ EventAnswer'
  BY DEF Shape
<1>1. CASE DoS88Poll
  BY <1>1, ModulesPolled DEF IInv, DoS88Poll
<1>2. CASE DoExtensionPoll
  BY <1>2, EventsPolled DEF IInv, DoExtensionPoll, Quiet
<1>3. CASE Receive
  BY <1>3, ModuleByte, CountByte, EventByte DEF IInv, Shape, Receive, TakeByte
<1>4. CASE LoseByte
  BY <1>4 DEF LoseByte
<1>5. CASE (\E e \in Event : Change(e)) \/ UNCHANGED vars
  <2>1. UNCHANGED <<s88State, s88Expect, s88High, extState, extKind, extEventsLeft, extTmpAddr,
                    wire, received, sound>>
    BY <1>5 DEF Change, vars, s88, ext, line
  <2> QED
    BY <2>1 DEF IInv, Shape, ModuleAnswer, CountAnswer, EventAnswer
<1> QED
  BY <1>1, <1>2, <1>3, <1>4, <1>5 DEF Next

LEMMA InvInitial == Init => IInv
BY TypeInitial DEF Init, IInv, Shape

LEMMA InvStep == IInv /\ [Next]_vars => IInv'
BY TypeStep, ShapeStep DEF IInv

\* What is left of an answer and how far its state machine is determine each other.
LEMMA InvInStep == IInv => InStep
<1> SUFFICES ASSUME TypeOK, Shape, sound
             PROVE  InStep
  BY DEF IInv, InStep
<1>1. CASE wire = <<>>
  BY <1>1 DEF Shape, InStep
<1>2. CASE wire # <<>> /\ ModuleAnswer
  <2>1. Head(wire) = ModulePacket(Amount - Len(wire) + 1 - 1)
    BY <1>2, WireProperties DEF ModuleAnswer
  <2> QED
    BY <1>2, <2>1, PacketContents DEF InStep, ModuleAnswer
<1>3. CASE wire # <<>> /\ CountAnswer
  BY <1>3, WireProperties, PacketContents DEF InStep, CountAnswer
<1>4. CASE wire # <<>> /\ EventAnswer
  <2>1. PICK e \in Event : wire[1] = EventPacket(e)
    BY <1>4, WireProperties DEF EventAnswer, EventPackets
  <2>2. Size(wire[1]) \in 2..3
    BY <2>1, PacketSize
  <2>3. extState # "Idle"
    BY <1>4, <2>2, WireProperties DEF EventAnswer
  <2> QED
    BY <1>4, <2>1, <2>3, WireProperties, PacketContents DEF InStep, EventAnswer
<1> QED
  BY <1>1, <1>2, <1>3, <1>4 DEF Shape

\* On a sound line an answer ends with its last byte: the receiver never takes a byte
\* of one answer for a part of another (kernel.cpp, receive and the polls' onSent).
THEOREM AnswersInStep == Spec => []InStep
<1> QED
  BY InvInitial, InvStep, InvInStep, PTL DEF Spec

-----------------------------------------------------------------------------
(* The refinement.                                                         *)

SilentEvents == {EventPacket(e) : e \in {f \in Event : KindOf[f] = "global"}}

LEMMA Retyped ==
  ASSUME NEW S, NEW T, NEW s \in Seq(T), \A i \in 1..Len(s) : s[i] \in S
  PROVE  s \in Seq(S)
OBVIOUS

\* What is due of an answer that is on the wire.
LEMMA UnreportedAnswer ==
  ASSUME TypeOK, sound
  PROVE  /\ wire = <<>> => unreported = <<>>
         /\ wire # <<>> /\ (ModuleAnswer \/ EventAnswer) =>
              unreported = wire /\ wire \in Seq(Item)
         /\ wire # <<>> /\ CountAnswer =>
              unreported = Tail(wire) /\ Tail(wire) \in Seq(Item)
<1>1. wire = <<>> => unreported = <<>>
  BY DEF unreported
<1>2. ASSUME wire # <<>>, ModuleAnswer
      PROVE  unreported = wire /\ wire \in Seq(Item)
  <2>1. Amount \in Nat /\ Len(wire) \in Nat \ {0} /\ Len(wire) <= Amount
    BY <1>2, WireProperties, FeedbackAssumption DEF ModuleAnswer
  <2>2. \A i \in 1..Len(wire) : wire[i] = ModulePacket(Amount - Len(wire) + i - 1)
                                /\ Amount - Len(wire) + i - 1 \in Module
    BY <1>2, <2>1 DEF ModuleAnswer, Module
  <2>3. \A i \in 1..Len(wire) : wire[i] \in Item
    BY <2>2, PacketTypes
  <2>4. Head(wire)[1] = "module"
    BY <1>2, <2>1, <2>2, WireProperties, PacketContents
  <2> QED
    BY <2>3, <2>4 DEF unreported, TypeOK
<1>3. ASSUME wire # <<>>, EventAnswer
      PROVE  unreported = wire /\ wire \in Seq(Item)
  <2>1. Len(wire) \in Nat \ {0} /\ \A i \in 1..Len(wire) : wire[i] \in EventPackets
    BY <1>3, WireProperties DEF EventAnswer
  <2>2. \A i \in 1..Len(wire) : wire[i] \in Item
    BY <2>1, PacketTypes
  <2>3. Head(wire)[1] = "event"
    BY <1>3, <2>1, WireProperties, PacketContents DEF EventPackets
  <2> QED
    BY <2>2, <2>3 DEF unreported, TypeOK
<1>4. ASSUME wire # <<>>, CountAnswer
      PROVE  unreported = Tail(wire) /\ Tail(wire) \in Seq(Item)
  <2>1. Head(wire)[1] = "count"
    BY <1>4, WireProperties, PacketContents DEF CountAnswer
  <2>2. Tail(wire) \in Seq(Packet) /\ Len(Tail(wire)) \in Nat
    BY <1>4, HeadTailProperties, LenProperties DEF TypeOK
  <2>3. \A i \in 1..Len(Tail(wire)) : Tail(wire)[i] \in Item
    BY <1>4, WireProperties, PacketTypes DEF CountAnswer
  <2>4. Tail(wire) \in Seq(Item)
    BY <2>2, <2>3, Retyped
  <2> QED
    BY <1>4, <2>1, <2>4 DEF unreported
<1> QED
  BY <1>1, <1>2, <1>3, <1>4

\* The refinement mapping, in terms of Shape.
DueInv ==
  /\ unreported \in Seq(Item) /\ reported \in Item \cup {Garbled} /\ sound \in BOOLEAN
  /\ sound /\ (wire = <<>> \/ ModuleAnswer \/ EventAnswer) => unreported = wire
  /\ sound /\ wire # <<>> /\ CountAnswer => unreported = Tail(wire)

LEMMA InvDue == IInv => DueInv
<1> SUFFICES ASSUME IInv
             PROVE  DueInv
  OBVIOUS
<1>1. CASE ~sound
  BY <1>1 DEF DueInv, unreported, IInv, TypeOK
<1>2. CASE sound
  <2>1. TypeOK /\ IF wire = <<>> THEN s88State = "Idle"
                  ELSE ModuleAnswer \/ CountAnswer \/ EventAnswer
    BY <1>2 DEF IInv, Shape
  <2>2. unreported \in Seq(Item)
    BY <1>2, <2>1, UnreportedAnswer, EmptySeq
  <2>3. /\ wire = <<>> \/ ModuleAnswer \/ EventAnswer => unreported = wire
        /\ wire # <<>> /\ CountAnswer => unreported = Tail(wire)
    BY <1>2, <2>1, UnreportedAnswer
  <2>4. reported \in Item \cup {Garbled} /\ sound \in BOOLEAN
    BY <2>1 DEF TypeOK
  <2> QED
    BY <2>2, <2>3, <2>4 DEF DueInv
<1> QED
  BY <1>1, <1>2

LEMMA ModuleReported ==
  ASSUME TypeOK, wire # <<>>, ModuleAnswer, Receive
  PROVE  \/ UNCHANGED <<wire, reported>>
         \/ wire' = Tail(wire) /\ reported' = Head(wire) /\ Head(wire) \notin SilentEvents
<1> DEFINE n == Len(wire)
<1>0. Amount \in Nat /\ n \in Nat \ {0} /\ n <= Amount
  BY WireProperties, FeedbackAssumption DEF ModuleAnswer
<1>1. wire[1] = ModulePacket(Amount - n) /\ received \in {0, 1} /\ Size(wire[1]) = 2
  <2>1. wire[1] = ModulePacket(Amount - n + 1 - 1)
    BY <1>0 DEF ModuleAnswer
  <2>2. wire[1] = ModulePacket(Amount - n)
    BY <1>0, <2>1
  <2> QED
    BY <2>2, WireProperties, PacketSize
<1>2. ReceiveS88Byte(<<wire[1], received>>) /\ TakeByte
  BY WireProperties DEF Receive, ModuleAnswer
<1>3. s88Expect = 2 * n - received /\ s88Module = (Amount * 2 - s88Expect) \div 2
  BY DEF ModuleAnswer, TypeOK
<1> HIDE DEF n
<1>4. CASE received = 0
  <2>1. IsHighByte
    BY <1>0, <1>3, <1>4 DEF IsHighByte
  <2> QED
    BY <1>1, <1>2, <1>4, <2>1, WireProperties DEF TakeByte, ReceiveS88Byte
<1>5. CASE received = 1
  <2>1. ~IsHighByte /\ s88Module = Amount - n
    BY <1>0, <1>3, <1>5 DEF IsHighByte
  <2>2. s88High = <<wire[1], 0>>
    BY <1>5 DEF ModuleAnswer
  <2>3. reported' = wire[1]
    BY <1>1, <1>2, <1>5, <2>1, <2>2 DEF ReceiveS88Byte, ModuleReport
  <2>4. wire[1] \notin SilentEvents
    BY <1>1, PacketContents DEF SilentEvents
  <2> QED
    BY <1>1, <1>2, <1>5, <2>3, <2>4, WireProperties DEF TakeByte
<1> QED
  BY <1>1, <1>4, <1>5

LEMMA CountReported ==
  ASSUME TypeOK, wire # <<>>, CountAnswer, Receive
  PROVE  wire' = Tail(wire) /\ UNCHANGED reported
<1>1. wire' = Tail(wire)
  BY WireProperties, PacketSize DEF Receive, TakeByte, CountAnswer
<1>2. ProcessExtensionByte(<<wire[1], 0>>)
  BY WireProperties DEF Receive, CountAnswer
<1> QED
  BY <1>1, <1>2 DEF ProcessExtensionByte, CountAnswer

LEMMA EventReported ==
  ASSUME TypeOK, wire # <<>>, EventAnswer, Receive
  PROVE  \/ UNCHANGED <<wire, reported>>
         \/ wire' = Tail(wire) /\ Head(wire) \in SilentEvents /\ UNCHANGED reported
         \/ wire' = Tail(wire) /\ Head(wire) \notin SilentEvents /\ reported' = Head(wire)
<1> DEFINE b == <<wire[1], received>>
<1>0. Len(wire) \in Nat \ {0} /\ received \in Nat /\ received < Size(wire[1]) /\ Head(wire) = wire[1]
  BY WireProperties
<1>1. PICK e \in Event : wire[1] = EventPacket(e)
  BY <1>0 DEF EventAnswer, EventPackets
<1>2. Size(wire[1]) = (IF KindOf[e] = "global" THEN 2 ELSE 3) /\ wire[1][2] = e /\ wire[1][1] = "event"
  BY <1>1, PacketSize, PacketContents
<1>3. wire[1] \in SilentEvents <=> KindOf[e] = "global"
  BY <1>1, PacketContents DEF SilentEvents
<1>4. ProcessExtensionByte(b) /\ TakeByte
  <2>1. extState # "Idle"
    BY <1>0, <1>2 DEF EventAnswer
  <2> QED
    BY <2>1, WireProperties DEF Receive, EventAnswer
<1>5. CASE received + 1 # Size(wire[1])
  <2>1. extState \in {"WaitType", "Addr"}
    BY <1>0, <1>2, <1>5 DEF EventAnswer
  <2>2. UNCHANGED reported
    BY <1>4, <2>1 DEF ProcessExtensionByte
  <2> QED
    BY <1>0, <1>4, <1>5, <2>2 DEF TakeByte
<1>6. CASE received + 1 = Size(wire[1])
  <2>1. extState = "Data" /\ extKind = KindOf[e]
    BY <1>0, <1>2, <1>6 DEF EventAnswer
  <2>2. reported' = IF extKind = "global" THEN reported ELSE EventReport(b)
    BY <1>4, <2>1 DEF ProcessExtensionByte
  <2>3. wire' = Tail(wire)
    BY <1>0, <1>4, <1>6 DEF TakeByte
  <2>4. CASE KindOf[e] # "global"
    <3>1. received = 2 /\ extTmpAddr = <<wire[1], 1>>
      BY <1>0, <1>2, <1>6, <2>4 DEF EventAnswer
    <3>2. EventReport(b) = wire[1]
      BY <1>2, <2>1, <2>4, <3>1 DEF EventReport
    <3> QED
      BY <1>0, <1>3, <2>1, <2>2, <2>3, <2>4, <3>2
  <2>5. CASE KindOf[e] = "global"
    BY <1>0, <1>3, <2>1, <2>2, <2>3, <2>5
  <2> QED
    BY <2>4, <2>5
<1> QED
  BY <1>5, <1>6

\* While the line is not sound, nothing is due.
LEMMA Disturbed ==
  ASSUME sound' = FALSE, UNCHANGED reported
  PROVE  Reports!Disturb
BY DEF Reports!Disturb, unreported

LEMMA Reported ==
  ASSUME DueInv, sound, UNCHANGED sound, unreported # <<>>, unreported' = Tail(unreported),
         Head(unreported) \notin SilentEvents, reported' = Head(unreported)
  PROVE  Reports!Report
<1>1. Tail(unreported) \in Seq(Item)
  BY DEF DueInv
<1>2. Reports!IsPrefix(Tail(unreported), Tail(unreported))
  BY <1>1 DEF Reports!IsPrefix
<1> QED
  BY <1>1, <1>2 DEF Reports!Report, SilentEvents

LEMMA Ignored ==
  ASSUME sound, UNCHANGED <<sound, reported>>, unreported # <<>>, unreported' = Tail(unreported),
         Head(unreported) \in SilentEvents
  PROVE  Reports!Ignore
BY DEF Reports!Ignore, SilentEvents

LEMMA RefinesReceive ==
  ASSUME IInv, DueInv, Shape', DueInv', sound, Receive
  PROVE  Reports!Report \/ Reports!Ignore \/ UNCHANGED <<unreported, sound, reported>>
<1>1. wire # <<>> /\ sound' = sound /\ TypeOK
  BY DEF Receive, TakeByte, IInv
<1>2. ASSUME UNCHANGED <<wire, reported>>
      PROVE  UNCHANGED <<unreported, sound, reported>>
  BY <1>1, <1>2 DEF unreported
<1>3. CASE ModuleAnswer
  <2>1. unreported = wire /\ (wire' = Tail(wire) => unreported' = wire')
    BY <1>1, <1>3, ModuleByte DEF DueInv
  <2> QED
    BY <1>1, <1>2, <1>3, <2>1, ModuleReported, Reported
<1>4. CASE CountAnswer
  <2>1. unreported = Tail(wire) /\ unreported' = wire'
    BY <1>1, <1>4, CountByte DEF DueInv
  <2> QED
    BY <1>1, <1>4, <2>1, CountReported
<1>5. CASE EventAnswer
  <2>1. unreported = wire /\ (wire' = Tail(wire) => unreported' = wire')
    BY <1>1, <1>5, EventByte DEF DueInv
  <2> QED
    BY <1>1, <1>2, <1>5, <2>1, EventReported, Reported, Ignored
<1> QED
  BY <1>1, <1>3, <1>4, <1>5 DEF IInv, Shape

LEMMA RefinesPoll ==
  ASSUME IInv, DueInv, DueInv', sound, DoS88Poll \/ DoExtensionPoll
  PROVE  Reports!Poll \/ Reports!Disturb
<1>1. UNCHANGED reported
  BY DEF DoS88Poll, DoExtensionPoll
<1>2. CASE sound' = FALSE
  BY <1>1, <1>2, Disturbed
<1>3. CASE sound' = TRUE
  <2>1. wire = <<>>
    BY <1>3 DEF DoS88Poll, DoExtensionPoll, Quiet
  <2>2. unreported = <<>> /\ unreported' \in Seq(Item)
    BY <2>1 DEF DueInv
  <2> QED
    BY <1>1, <1>3, <2>2 DEF Reports!Poll
<1> QED
  BY <1>2, <1>3 DEF DueInv

LEMMA RefinesStep ==
  IInv /\ DueInv /\ Shape' /\ DueInv' /\ [Next]_vars => [Reports!Next]_Reports!feedback
<1> SUFFICES ASSUME IInv, DueInv, Shape', DueInv', [Next]_vars
             PROVE  Reports!Next \/ UNCHANGED <<unreported, sound, reported>>
  BY DEF Reports!feedback
<1> USE DEF Reports!Next
<1>1. CASE ~sound
  BY <1>1 DEF DueInv, Reports!Unsound
<1>2. CASE sound
  <2>1. CASE DoS88Poll \/ DoExtensionPoll
    BY <1>2, <2>1, RefinesPoll
  <2>2. CASE Receive
    BY <1>2, <2>2, RefinesReceive
  <2>3. CASE LoseByte
    BY <2>3, Disturbed DEF LoseByte
  <2>4. CASE (\E e \in Event : Change(e)) \/ UNCHANGED vars
    BY <2>4 DEF Change, vars, line, unreported
  <2> QED
    BY <2>1, <2>2, <2>3, <2>4 DEF Next
<1> QED
  BY <1>1, <1>2

LEMMA RefinesInit == Init => Reports!Init
BY DEF Init, Reports!Init, unreported

\* What the 6050's receiver reports is what an abstract receiver reports: every module
\* and event once, in order, unless the line lost a byte or a poll did not wait for the
\* answer before (kernel.cpp, receive and processExtensionByte).
THEOREM ReportsFeedback == Spec => FeedbackReported
<1>1. Spec => []IInv
  BY InvInitial, InvStep, PTL DEF Spec
<1>2. IInv => Shape
  BY DEF IInv
<1> QED
  BY <1>1, <1>2, InvDue, RefinesInit, RefinesStep, PTL DEF Spec, FeedbackReported, Reports!Spec
=============================================================================
