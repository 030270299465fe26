------------------------ MODULE Marklin6050Feedback ------------------------
(***************************************************************************)
(* The receiving half of the Marklin 6050/6051 interface:                  *)
(* server/src/hardware/protocol/marklin6050interface/kernel.cpp, receive,  *)
(* the S88 and extension polls, and processExtensionByte.                  *)
(*                                                                         *)
(* An answer is a run of bytes without address or length; two state        *)
(* machines, entered when a poll is sent, count them. What a byte means is *)
(* known here from who sent it, and compared with what it is taken for. A  *)
(* byte that is taken for something else can have any value.               *)
(*                                                                         *)
(* Polls are sent whenever a timer and the queue let them (Poll in         *)
(* Marklin6050): at any time as far as this module is concerned.           *)
(***************************************************************************)
EXTENDS Integers, Sequences

CONSTANTS
  Amount,         \* s88amount
  Event,          \* changes that the extension module may tell of
  KindOf,         \* [Event -> Kind]
  MaxCount,       \* changes that the extension module remembers; also the largest
                  \* count that a misread byte can stand for (255)
  MaxPackets      \* bound: packets on the wire when a poll may be sent

Kind == {"global", "turnout", "locoState", "locoFunc"}

ASSUME FeedbackAssumption ==
  /\ Amount \in Nat
  /\ KindOf \in [Event -> Kind]
  /\ MaxCount \in Nat \ {0} /\ MaxPackets \in Nat

Module == 0..(Amount - 1)

\* What the station sends, each a run of bytes: the contacts of an S88 module (high
\* byte, low byte), the number of events, an event (type, address, data; a global one
\* has no address).
ModulePacket(m) == <<"module", m>>
CountPacket(n) == <<"count", n>>
EventPacket(e) == <<"event", e>>
Item == {ModulePacket(m) : m \in Module} \cup {EventPacket(e) : e \in Event}
Packet == Item \cup {CountPacket(n) : n \in 0..MaxCount}
Size(p) ==
  CASE p[1] = "module" -> 2
    [] p[1] = "count" -> 1
    [] OTHER -> IF KindOf[p[2]] = "global" THEN 2 ELSE 3

\* A byte is a packet and its index therein.
Byte == Packet \X (0..2)
NoByte == <<>>
Garbled == <<>>       \* a report made of bytes that do not belong together

VARIABLES
  s88State,        \* Kernel::m_s88State
  s88Expect,       \* Kernel::m_s88Expect
  s88Module,       \* Kernel::m_s88Module
  s88High,         \* Kernel::m_s88High
  extState,        \* Kernel::m_extState, with ...
  extKind,         \* ... the kind of event it is in
  extEventsLeft,   \* Kernel::m_extEventsLeft
  extTmpAddr,      \* Kernel::m_extTmpAddr
  changes,         \* what the extension module has not told yet (external)
  wire,            \* packets on their way, the first partly received (external)
  received,        \* number of bytes of the first packet that have been received or lost
  reported,        \* history: what the callback called last was told
  sound            \* history: nothing was lost since a poll was sent on a quiet line

s88 == <<s88State, s88Expect, s88Module, s88High>>
ext == <<extState, extKind, extEventsLeft, extTmpAddr>>
line == <<wire, received>>
vars == <<s88, ext, changes, line, reported, sound>>

-----------------------------------------------------------------------------
(* Polls, as of their onSent.                                              *)

\* A poll finds the line quiet when no answer is on its way and none is awaited.
Quiet == wire = <<>> /\ s88State = "Idle"

\* Fault: the module counter is left where the last answer ended.
DoS88PollKeepsModule ==
  /\ Amount > 0 /\ Len(wire) <= MaxPackets
  /\ s88State' = "ReceivingData" /\ s88Expect' = Amount * 2
  /\ wire' = wire \o [i \in 1..Amount |-> ModulePacket(i - 1)]
  /\ sound' = (wire = <<>>)
  /\ UNCHANGED <<s88Module, s88High, ext, changes, received, reported>>

\* doS88Poll. A byte that is still missing from an earlier answer is forgotten, so that
\* it is enough that nothing is on the wire.
DoS88Poll ==
  /\ Amount > 0 /\ Len(wire) <= MaxPackets
  /\ s88State' = "ReceivingData" /\ s88Expect' = Amount * 2 /\ s88Module' = 0
  /\ wire' = wire \o [i \in 1..Amount |-> ModulePacket(i - 1)]
  /\ sound' = (wire = <<>>)
  /\ UNCHANGED <<s88High, ext, changes, received, reported>>

\* doExtensionPoll. The extension module tells all its changes, and forgets them.
DoExtensionPoll ==
  /\ Len(wire) <= MaxPackets
  /\ extState' = "WaitCount" /\ extEventsLeft' = 0
  /\ wire' = wire \o <<CountPacket(Len(changes))>> \o [i \in DOMAIN changes |-> EventPacket(changes[i])]
  /\ changes' = <<>>
  /\ sound' = Quiet
  /\ UNCHANGED <<s88, extKind, extTmpAddr, received, reported>>

-----------------------------------------------------------------------------
(* Bytes.                                                                  *)

\* The next byte leaves the wire.
TakeByte ==
  /\ wire # <<>>
  /\ IF received + 1 = Size(Head(wire))
     THEN wire' = Tail(wire) /\ received' = 0
     ELSE wire' = wire /\ received' = received + 1

\* Fault: the low byte comes first.
IsHighByteSwapped == (Amount * 2 - s88Expect) % 2 = 1

IsHighByte == (Amount * 2 - s88Expect) % 2 = 0

ModuleReport(b) ==
  IF s88High = <<ModulePacket(s88Module), 0>> /\ b = <<ModulePacket(s88Module), 1>>
  THEN ModulePacket(s88Module) ELSE Garbled

\* Fault: the answer is taken to go on for a byte more.
ReceiveS88ByteTooMany(b) ==
  /\ s88State' = s88State
  /\ s88Expect' = s88Expect - 1
  /\ IF IsHighByte THEN s88High' = b /\ UNCHANGED <<s88Module, reported>>
     ELSE s88Module' = s88Module + 1 /\ reported' = ModuleReport(b) /\ UNCHANGED s88High
  /\ UNCHANGED ext

\* receive in ReceivingData. The sixteen contacts of a module are one report.
ReceiveS88Byte(b) ==
  /\ s88Expect' = s88Expect - 1
  /\ s88State' = IF s88Expect = 1 THEN "Idle" ELSE s88State
  /\ IF IsHighByte
     THEN /\ s88High' = b
          /\ s88Module' = IF s88Expect = 1 THEN 0 ELSE s88Module
          /\ UNCHANGED reported
     ELSE /\ s88Module' = IF s88Expect = 1 THEN 0 ELSE s88Module + 1
          /\ reported' = ModuleReport(b)
          /\ UNCHANGED s88High
  /\ UNCHANGED ext

\* What a byte can be taken for.
CountsOf(b) == IF b[1][1] = "count" THEN {b[1][2]} ELSE 0..MaxCount
KindsOf(b) == IF b[1][1] = "event" /\ b[2] = 0 THEN {KindOf[b[1][2]]} ELSE Kind \cup {"unknown"}

\* The callback for global events is never set by the interface.
EventReport(b) ==
  IF /\ b[1][1] = "event" /\ b[2] = Size(b[1]) - 1
     /\ KindOf[b[1][2]] = extKind
     /\ extTmpAddr = <<b[1], 1>>
  THEN b[1] ELSE Garbled

AdvanceExtensionEvent ==
  /\ extEventsLeft' = extEventsLeft - 1
  /\ extState' = IF extEventsLeft > 1 THEN "WaitType" ELSE "Idle"

ProcessExtensionByte(b) ==
  \/ /\ extState = "WaitCount"
     /\ extEventsLeft' \in CountsOf(b)
     /\ extState' = IF extEventsLeft' > 0 THEN "WaitType" ELSE "Idle"
     /\ UNCHANGED <<extKind, extTmpAddr, reported>>
  \/ /\ extState = "WaitType"
     /\ \E kind \in KindsOf(b) :
          \/ kind = "unknown" /\ extState' = "Idle" /\ UNCHANGED extKind
          \/ kind = "global" /\ extState' = "Data" /\ extKind' = kind
          \/ kind \in Kind \ {"global"} /\ extState' = "Addr" /\ extKind' = kind
     /\ UNCHANGED <<extEventsLeft, extTmpAddr, reported>>
  \/ /\ extState = "Addr"
     /\ extTmpAddr' = b
     /\ extState' = "Data"
     /\ UNCHANGED <<extKind, extEventsLeft, reported>>
  \/ /\ extState = "Data"
     /\ reported' = IF extKind = "global" THEN reported ELSE EventReport(b)
     /\ AdvanceExtensionEvent
     /\ UNCHANGED <<extKind, extTmpAddr>>

\* receive: an S88 answer that is awaited takes every byte.
Receive ==
  /\ TakeByte
  /\ LET b == <<Head(wire), received>> IN
     \/ s88State = "ReceivingData" /\ ReceiveS88Byte(b)
     \/ s88State = "Idle" /\ extState # "Idle" /\ ProcessExtensionByte(b) /\ UNCHANGED s88
     \/ s88State = "Idle" /\ extState = "Idle" /\ UNCHANGED <<s88, ext, reported>>
  /\ UNCHANGED <<changes, sound>>

\* A byte is lost on the line, or not sent by a station that is busy (external).
LoseByte ==
  /\ TakeByte
  /\ sound' = FALSE
  /\ UNCHANGED <<s88, ext, changes, reported>>

\* Somebody operates a handset (external).
Change(e) ==
  /\ Len(changes) < MaxCount
  /\ changes' = Append(changes, e)
  /\ UNCHANGED <<s88, ext, line, reported, sound>>

Init ==
  /\ s88State = "Idle" /\ s88Expect = 0 /\ s88Module = 0 /\ s88High = NoByte
  /\ extState = "Idle" /\ extKind = "global" /\ extEventsLeft = 0 /\ extTmpAddr = NoByte
  /\ changes = <<>> /\ wire = <<>> /\ received = 0
  /\ reported = Garbled /\ sound = TRUE

Next ==
  \/ DoS88Poll \/ DoExtensionPoll
  \/ Receive \/ LoseByte
  \/ \E e \in Event : Change(e)

Spec == Init /\ [][Next]_vars

-----------------------------------------------------------------------------
(* Properties.                                                             *)

\* Shapes of the variables; the counters of both state machines stay within what their
\* unsigned types and the answers' lengths allow, also on a line that loses bytes.
TypeOK ==
  /\ s88State \in {"Idle", "ReceivingData"} /\ s88Expect \in 0..(Amount * 2)
  /\ s88State = "ReceivingData" <=> s88Expect > 0
  /\ s88Module = IF s88State = "Idle" THEN 0 ELSE (Amount * 2 - s88Expect) \div 2
  /\ s88High \in Byte \cup {NoByte}
  /\ extState \in {"Idle", "WaitCount", "WaitType", "Addr", "Data"} /\ extKind \in Kind
  /\ extEventsLeft \in 0..MaxCount /\ (extState \in {"WaitType", "Addr", "Data"} => extEventsLeft > 0)
  /\ extTmpAddr \in Byte \cup {NoByte}
  /\ changes \in Seq(Event) /\ Len(changes) <= MaxCount /\ wire \in Seq(Packet)
  /\ received \in Nat /\ received < (IF wire = <<>> THEN 1 ELSE Size(Head(wire)))
  /\ reported \in Item \cup {Garbled} /\ sound \in BOOLEAN

\* What either state machine still awaits is what is on the wire, whatever was lost or
\* mixed up before the last poll that found the line quiet: an answer ends when its
\* last byte comes, and the next answer is not taken for a part of it.
InStep ==
  sound =>
    /\ wire = <<>> => s88State = "Idle"
    /\ wire # <<>> /\ Head(wire)[1] = "module" => s88Expect = 2 * Len(wire) - received
    /\ wire # <<>> /\ Head(wire)[1] = "count" => s88State = "Idle" /\ extState = "WaitCount"
    /\ wire # <<>> /\ Head(wire)[1] = "event" =>
         s88State = "Idle" /\ extState # "Idle" /\ extEventsLeft = Len(wire)

\* Every module's contacts and every event are reported once, in order and as what they
\* are, while no byte is lost and no poll is sent before the last answer is complete;
\* and again as of the next poll that is sent on a quiet line after such a disturbance.
unreported ==
  IF ~sound THEN <<>>
  ELSE IF wire # <<>> /\ Head(wire)[1] = "count" THEN Tail(wire)
  ELSE wire

Reports == INSTANCE FeedbackReports WITH
  NoReport <- Garbled, Lossy <- FALSE, due <- unreported,
  Silent <- {EventPacket(e) : e \in {f \in Event : KindOf[f] = "global"}}

FeedbackReported == Reports!Spec
=============================================================================
