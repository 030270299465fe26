----------------------- MODULE Marklin6050SyncProofs -----------------------
(***************************************************************************)
(* That the layout ends up as the users have asked for: for every set of   *)
(* locos, accessories and settings, when everything sent has arrived and   *)
(* nothing of it was dropped, the track's power, the locos and the         *)
(* accessories are as they were set last.                                  *)
(*                                                                         *)
(* A command is sent once and then repeated from timers of its own, while  *)
(* others are, so a frame that is out of date can be sent after a newer    *)
(* one. That the newest is also the last to be sent rests on how the       *)
(* commands take turns. What frames are about is a subject: the power of   *)
(* the track, the speed of a loco, the position and the coil of an         *)
(* accessory. A loco's direction is no subject, since toggles only count.  *)
(***************************************************************************)
EXTENDS Marklin6050Proofs, SequenceLemmas

\* The frame that a command ends with, which tells what it is about.
Final(e) == e.slots[Len(e.slots)]

\* The commands in r take turns: the i-th has no slots left before the j-th has none.
Sooner(r, i, j) ==
  Len(r[i].slots) < Len(r[j].slots) \/ (Len(r[i].slots) = Len(r[j].slots) /\ i < j)

\* Of the commands in r that end with one of those frames the j-th is the last to end.
Latest(r, ends, j) ==
  j \in DOMAIN r /\ \A i \in DOMAIN r : i # j /\ Final(r[i]) \in ends => Sooner(r, i, j)

\* A subject is a record of
\*   about     the frames about it,
\*   ends      the frames that commands about it end with,
\*   wanted    the frame that has it as wanted,
\*   met       the states of the station in which it is,
\*   renewals  the commands that send the wanted frame,
\*   rest      the slots they have left when they have done so for the last time,
\*   most      the slots that a command about it starts with.
\* The last frame about it that is queued is the wanted one, or none is queued and the
\* layout is as wanted.
Settled(k, s) ==
  \/ \E i \in DOMAIN k.queue : /\ k.queue[i] = s.wanted
                               /\ \A j \in DOMAIN k.queue : j > i => k.queue[j] \notin s.about
  \/ k.station \in s.met /\ \A i \in DOMAIN k.queue : k.queue[i] \notin s.about

\* It will be as wanted when the command that ends last has ended, or it is settled.
Follows(k, s) ==
  \/ (\A i \in DOMAIN k.repeating : Final(k.repeating[i]) \notin s.ends) /\ Settled(k, s)
  \/ \E j \in DOMAIN k.repeating :
       /\ Latest(k.repeating, s.ends, j)
       /\ k.repeating[j] \in s.renewals
       /\ Len(k.repeating[j].slots) <= s.rest => Settled(k, s)

Tracks(k, s) == ~k.lost => Follows(k, s)

\* The last n slots of AccessorySlots with redundancy R.
Rest(a, p, R, n) ==
  [i \in 1..n |-> IF n - i + 1 > R + PulseSlots THEN Switch(a, p)
                  ELSE IF n - i + 1 > R + 1 THEN Pause ELSE Off(a)]

\* The commands that can be in redundancyTimers.
Plain == {Go, Other} \cup {SpeedFrame(l, v) : l \in Loco, v \in Speed}
Repeats(now, f, R) == {[now |-> now, slots |-> Times(n, f)] : n \in 1..R}
Pulses(a, p, R) == {[now |-> FALSE, slots |-> Rest(a, p, R, n)] : n \in 1..(2 * R + PulseSlots)}
PlainEntry(R) == UNION {Repeats(FALSE, f, R) : f \in Plain}
StopEntry(R) == Repeats(TRUE, Stop, R)
ToggleEntry(l) == [now |-> TRUE, slots |-> <<Toggle(l)>>]
OutputEntry(R) == UNION {UNION {Pulses(a, p, R) : p \in Position} : a \in Accessory}
Entry(R) == PlainEntry(R) \cup StopEntry(R) \cup {ToggleEntry(l) : l \in Loco} \cup OutputEntry(R)

Shaped(k, R, queued) ==
  /\ \A i \in DOMAIN k.repeating : k.repeating[i] \in Entry(R)
  /\ ~queued => k.queue = <<>>

\* What the proof needs of a subject: what the commands say of it, ...
Ends(s, R) ==
  /\ s.wanted \in s.about /\ Pause \notin s.about /\ s.rest \in Nat /\ s.most \in Nat
  /\ \A e \in Entry(R) :
       IF Final(e) \in s.ends
       THEN Len(e.slots) <= s.most /\ (Len(e.slots) <= s.rest => Head(e.slots) \notin s.about)
       ELSE Head(e.slots) \notin s.about

\* ... those that have it as wanted, ...
Renews(s, R, queued) ==
  \A e \in s.renewals :
    /\ e \in Entry(R) /\ Final(e) \in s.ends
    /\ e.now => ~queued
    /\ Len(e.slots) = s.rest + 1 => Head(e.slots) = s.wanted
    /\ Len(e.slots) > 1 => [now |-> e.now, slots |-> Tail(e.slots)] \in s.renewals

\* ... and the layout when it receives a frame.
Meets(s) ==
  /\ \A layout \in Station : Receive(layout, s.wanted) \in s.met
  /\ \A layout \in Station, f \in Frame \ s.about : layout \in s.met => Receive(layout, f) \in s.met

Proper(s, R, queued) == Ends(s, R) /\ Renews(s, R, queued) /\ Meets(s)

-----------------------------------------------------------------------------
(* What the sends do to the parts of the kernel that a subject looks at.   *)

CallsKept(k, n) == \A i \in DOMAIN k.calls : i \in DOMAIN n.calls /\ n.calls[i] = k.calls[i]

Writes(k, n, f) ==
  /\ n.queue = k.queue /\ n.repeating = k.repeating /\ n.lost = k.lost
  /\ n.station = Receive(k.station, f)
  /\ CallsKept(k, n)

Sends(k, n, f, queued) ==
  /\ n.repeating = k.repeating
  /\ k.lost => n.lost
  /\ CallsKept(k, n)
  /\ IF queued THEN /\ n.station = k.station
                    /\ n.lost \/ n.queue = Append(k.queue, f)
     ELSE n.queue = k.queue /\ n.station = Receive(k.station, f) /\ n.lost = k.lost

Starts(k, n, now, slots) ==
  /\ n.queue = k.queue /\ n.station = k.station /\ n.lost = k.lost /\ n.calls = k.calls
  /\ n.repeating = IF slots = <<>> THEN k.repeating
                   ELSE Append(k.repeating, [now |-> now, slots |-> slots])

LEMMA WriteEffect ==
  ASSUME NEW k, Good(k), NEW f \in Frame
  PROVE  Writes(k, WriteFrameNow(k, f), f)
BY DEF Good, Fits, KernelState, WriteFrameNow, Writes, CallsKept

LEMMA RefreshEffect ==
  ASSUME NEW k, Fits(k)
  PROVE  LET n == ArmTxTimer(CheckTxOverflow(k))
         IN  /\ n.queue = k.queue /\ n.repeating = k.repeating
             /\ n.station = k.station /\ n.lost = k.lost
             /\ CallsKept(k, n)
<1> DEFINE c == CheckTxOverflow(k)
           told == IF config.ignoreWarnings THEN k.calls ELSE Append(k.calls, "stopWorld")
<1>1. k \in KernelState /\ told \in Seq(Call)
  BY DEF Fits, KernelState, Call
<1>2. \A i \in DOMAIN k.calls : i \in DOMAIN told /\ told[i] = k.calls[i]
  BY <1>1 DEF KernelState, Call
<1>3. c \in {k, [k EXCEPT !.overflow = TRUE, !.calls = told], [k EXCEPT !.overflow = FALSE]}
  BY DEF CheckTxOverflow
<1> HIDE DEF told, c
<1>4. /\ c \in KernelState
      /\ c.queue = k.queue /\ c.repeating = k.repeating
      /\ c.station = k.station /\ c.lost = k.lost
      /\ c.calls = k.calls \/ c.calls = told
  BY <1>1, <1>3 DEF KernelState
<1>5. /\ ArmTxTimer(c).queue = c.queue /\ ArmTxTimer(c).repeating = c.repeating
      /\ ArmTxTimer(c).station = c.station /\ ArmTxTimer(c).lost = c.lost
      /\ ArmTxTimer(c).calls = c.calls
  BY <1>4 DEF ArmTxTimer, KernelState
<1>6. CallsKept(k, ArmTxTimer(c))
  BY <1>2, <1>4, <1>5 DEF CallsKept
<1> HIDE DEF Fits
<1>7. QED
  BY <1>4, <1>5, <1>6 DEF c

LEMMA SendEffect ==
  ASSUME NEW k, Good(k), NEW f \in Frame
  PROVE  Sends(k, SendRaw(k, f), f, config.commandQueue)
<1>1. CASE ~config.commandQueue
  BY <1>1, WriteEffect DEF SendRaw, Sends, Writes
<1>2. CASE config.commandQueue /\ Len(k.queue) >= QueueLimit
  <2>1. CheckTxOverflow(k) = k
    BY <1>2 DEF Good, Told, CheckTxOverflow
  <2>2. SendRaw(k, f) = [k EXCEPT !.lost = TRUE]
    BY <1>2, <2>1 DEF SendRaw, EnqueueTx
  <2>3. QED
    BY <1>2, <2>2 DEF Good, Fits, KernelState, Sends, CallsKept
<1>3. CASE config.commandQueue /\ ~(Len(k.queue) >= QueueLimit)
  <2> DEFINE queue == Append(k.queue, f)
             longer == [k EXCEPT !.queue = queue]
  <2>1. k \in KernelState /\ queue \in Seq(Frame) /\ Len(queue) <= QueueLimit
    BY <1>3, ConfigAssumption DEF Good, Fits, KernelState
  <2> HIDE DEF queue
  <2>2. /\ Fits(longer)
        /\ longer.queue = queue /\ longer.repeating = k.repeating
        /\ longer.station = k.station /\ longer.lost = k.lost /\ longer.calls = k.calls
    BY <2>1 DEF Fits, KernelState
  <2>3. SendRaw(k, f) = ArmTxTimer(CheckTxOverflow(longer))
    BY <1>3 DEF SendRaw, EnqueueTx, longer, queue
  <2> HIDE DEF longer
  <2>4. /\ SendRaw(k, f).queue = queue /\ SendRaw(k, f).repeating = k.repeating
        /\ SendRaw(k, f).station = k.station /\ SendRaw(k, f).lost = k.lost
        /\ CallsKept(longer, SendRaw(k, f))
    BY <2>2, <2>3, RefreshEffect
  <2>5. QED
    BY <1>3, <2>2, <2>4 DEF Sends, CallsKept, queue
<1>4. QED
  BY <1>1, <1>2, <1>3

LEMMA RepeatEffect ==
  ASSUME NEW k, Good(k), NEW now, NEW slots
  PROVE  Starts(k, Repeat(k, now, slots), now, slots)
BY DEF Good, Fits, KernelState, Repeat, Starts

-----------------------------------------------------------------------------
(* Subjects in general: what a send, a new command, the queue's timer and  *)
(* the next redundancy timer do to them.                                   *)

\* A command has slots as long as it repeats, and one less after each.
LEMMA SlotsLeft ==
  ASSUME NEW e \in Repeating
  PROVE  /\ e.slots \in Seq(Frame \cup {Pause})
         /\ Len(e.slots) \in Nat /\ Len(e.slots) >= 1
         /\ Tail(e.slots) = <<>> <=> Len(e.slots) = 1
         /\ Len(e.slots) # 1 =>
              LET left == [now |-> e.now, slots |-> Tail(e.slots)]
              IN  Len(left.slots) = Len(e.slots) - 1 /\ Final(left) = Final(e)
<1>1. e.slots \in Seq(Frame \cup {Pause}) /\ e.slots # <<>>
  BY DEF Repeating
<1>2. Len(e.slots) \in Nat /\ Len(e.slots) >= 1
  BY <1>1
<1>3. Len(Tail(e.slots)) = Len(e.slots) - 1 /\ Tail(e.slots) \in Seq(Frame \cup {Pause})
  BY <1>1
<1>4. \A i \in 1..Len(Tail(e.slots)) : Tail(e.slots)[i] = e.slots[i + 1]
  BY <1>1
<1>5. Tail(e.slots) = <<>> <=> Len(e.slots) = 1
  <2>1. Tail(e.slots) = <<>> <=> Len(Tail(e.slots)) = 0
    BY <1>3, EmptySeq
  <2>2. QED
    BY <1>2, <1>3, <2>1
<1>6. ASSUME Len(e.slots) # 1
      PROVE  Tail(e.slots)[Len(Tail(e.slots))] = e.slots[Len(e.slots)]
  <2>1. Len(Tail(e.slots)) \in 1..Len(Tail(e.slots))
    <3>1. \A n \in Nat : n >= 1 /\ n # 1 => n - 1 \in 1..(n - 1)
      OBVIOUS
    <3>2. Len(e.slots) - 1 \in 1..(Len(e.slots) - 1)
      BY <1>2, <1>6, <3>1
    <3>3. QED
      BY <1>3, <3>2
  <2>2. Len(Tail(e.slots)) + 1 = Len(e.slots)
    BY <1>2, <1>3
  <2>3. QED
    BY <1>4, <2>1, <2>2
<1>7. QED
  BY <1>1, <1>2, <1>3, <1>5, <1>6 DEF Final

\* The frame sent is not about the subject.
LEMMA SettledOther ==
  ASSUME NEW R, NEW queued, NEW s, Proper(s, R, queued), NEW k \in KernelState, NEW n,
         NEW f \in Frame \ s.about, Settled(k, s),
         \/ Writes(k, n, f)
         \/ Sends(k, n, f, queued) /\ ~n.lost
  PROVE  Settled(n, s)
<1>1. k.queue \in Seq(Frame) /\ k.station \in Station
  BY DEF KernelState
<1>2. k.station \in s.met => Receive(k.station, f) \in s.met
  BY <1>1 DEF Proper, Ends, Renews, Meets
<1>3. CASE n.queue = k.queue /\ (n.station = k.station \/ n.station = Receive(k.station, f))
  BY <1>2, <1>3 DEF Settled
<1>4. CASE n.queue = Append(k.queue, f) /\ n.station = k.station
  <2>1. \A i \in DOMAIN k.queue : i \in DOMAIN n.queue /\ n.queue[i] = k.queue[i]
    BY <1>1, <1>4
  <2>2. \A i \in DOMAIN n.queue : n.queue[i] = f \/ (i \in DOMAIN k.queue /\ n.queue[i] = k.queue[i])
    BY <1>1, <1>4
  <2>3. QED
    BY <1>4, <2>1, <2>2 DEF Settled
<1>5. QED
  BY <1>3, <1>4 DEF Writes, Sends

\* The frame sent is the wanted one.
LEMMA SettledWanted ==
  ASSUME NEW R, NEW queued \in BOOLEAN, NEW s, Proper(s, R, queued), NEW k \in KernelState, NEW n,
         ~queued => k.queue = <<>>,
         \/ Writes(k, n, s.wanted) /\ ~queued
         \/ Sends(k, n, s.wanted, queued) /\ ~n.lost
  PROVE  Settled(n, s)
<1>1. k.queue \in Seq(Frame) /\ k.station \in Station
  BY DEF KernelState
<1>2. CASE ~queued
  <2>1. n.queue = <<>> /\ n.station = Receive(k.station, s.wanted)
    BY <1>2 DEF Writes, Sends
  <2>2. n.station \in s.met
    BY <1>1, <2>1 DEF Proper, Ends, Renews, Meets
  <2>3. QED
    BY <2>1, <2>2 DEF Settled
<1>3. CASE queued
  <2>1. n.queue = Append(k.queue, s.wanted)
    BY <1>3 DEF Sends
  <2> DEFINE last == Len(k.queue) + 1
  <2>2. last \in DOMAIN n.queue /\ n.queue[last] = s.wanted /\ \A j \in DOMAIN n.queue : ~(j > last)
    BY <1>1, <2>1
  <2>3. QED
    BY <2>2 DEF Settled
<1>4. QED
  BY <1>2, <1>3

\* A new command that is not about the subject.
LEMMA StartOther ==
  ASSUME NEW s, NEW k \in KernelState, NEW n, NEW now, NEW slots, Starts(k, n, now, slots),
         slots # <<>> => Final([now |-> now, slots |-> slots]) \notin s.ends,
         Follows(k, s)
  PROVE  Follows(n, s)
<1> DEFINE e == [now |-> now, slots |-> slots]
<1>1. k.repeating \in Seq(Repeating)
  BY DEF KernelState
<1>2. Settled(n, s) <=> Settled(k, s)
  BY DEF Starts, Settled
<1>3. CASE slots = <<>>
  BY <1>2, <1>3 DEF Starts, Follows
<1>4. CASE slots # <<>>
  <2> Final(e) \notin s.ends
    BY <1>4
  <2>1. n.repeating = Append(k.repeating, e)
    BY <1>4 DEF Starts
  <2> HIDE DEF e
  <2>2. \A i \in DOMAIN k.repeating : i \in DOMAIN n.repeating /\ n.repeating[i] = k.repeating[i]
    BY <1>1, <2>1
  <2>3. \A i \in DOMAIN n.repeating :
          n.repeating[i] = e \/ (i \in DOMAIN k.repeating /\ n.repeating[i] = k.repeating[i])
    BY <1>1, <2>1
  <2>4. ASSUME NEW j \in DOMAIN k.repeating, Latest(k.repeating, s.ends, j)
        PROVE  Latest(n.repeating, s.ends, j)
    BY <2>2, <2>3, <2>4 DEF Latest, Sooner
  <2>5. QED
    BY <1>2, <2>2, <2>3, <2>4 DEF Follows
<1>5. QED
  BY <1>3, <1>4

\* A new command about the subject ends last, since the others have no more slots left
\* than it starts with.
LEMMA StartOwn ==
  ASSUME NEW R, NEW queued, NEW s, Proper(s, R, queued),
         NEW k \in KernelState, Shaped(k, R, queued),
         NEW n, NEW now, NEW slots, Starts(k, n, now, slots),
         IF slots = <<>> THEN s.most = 0
         ELSE [now |-> now, slots |-> slots] \in s.renewals /\ Len(slots) = s.most,
         s.most <= s.rest => Settled(k, s)
  PROVE  Follows(n, s)
<1> DEFINE e == [now |-> now, slots |-> slots]
<1>1. k.repeating \in Seq(Repeating)
  BY DEF KernelState
<1>2. Settled(n, s) <=> Settled(k, s)
  BY DEF Starts, Settled
<1>3. \A i \in DOMAIN k.repeating :
        Final(k.repeating[i]) \in s.ends => Len(k.repeating[i].slots) <= s.most
  BY DEF Proper, Ends, Renews, Meets, Shaped
<1>4. \A i \in DOMAIN k.repeating : Len(k.repeating[i].slots) \in Nat /\ Len(k.repeating[i].slots) >= 1
  <2>1. \A i \in DOMAIN k.repeating : k.repeating[i] \in Repeating
    BY <1>1
  <2>2. QED
    BY <2>1, SlotsLeft
<1>5. s.most \in Nat /\ s.rest \in Nat
  BY DEF Proper, Ends, Renews, Meets
<1>6. CASE slots = <<>>
  <2>1. \A i \in DOMAIN n.repeating : Final(n.repeating[i]) \notin s.ends
    BY <1>3, <1>4, <1>6 DEF Starts
  <2>2. QED
    BY <1>2, <1>5, <1>6, <2>1 DEF Follows
<1>7. CASE slots # <<>>
  <2> DEFINE last == Len(k.repeating) + 1
  <2>1. n.repeating = Append(k.repeating, e) /\ e \in s.renewals /\ Len(e.slots) = s.most
    BY <1>7 DEF Starts
  <2> HIDE DEF e
  <2>2. last \in DOMAIN n.repeating /\ n.repeating[last] = e
    BY <1>1, <2>1
  <2>3. \A i \in DOMAIN n.repeating : i # last =>
          i \in DOMAIN k.repeating /\ i < last /\ n.repeating[i] = k.repeating[i]
    BY <1>1, <2>1
  <2> HIDE DEF last
  <2>4. Latest(n.repeating, s.ends, last)
    BY <1>3, <1>4, <1>5, <2>1, <2>2, <2>3 DEF Latest, Sooner
  <2>5. Len(n.repeating[last].slots) <= s.rest => Settled(n, s)
    BY <1>2, <2>1, <2>2
  <2>6. QED
    BY <2>1, <2>2, <2>4, <2>5 DEF Follows
<1>8. QED
  BY <1>6, <1>7

\* The queue's timer sends the first frame of the queue.
LEMMA DrainFollows ==
  ASSUME NEW R, NEW queued, NEW s, Proper(s, R, queued), NEW k \in KernelState, NEW n,
         k.queue # <<>>, n.queue = Tail(k.queue), n.repeating = k.repeating,
         n.station = Receive(k.station, Head(k.queue)),
         Follows(k, s)
  PROVE  Follows(n, s)
<1>1. /\ k.queue \in Seq(Frame) /\ Head(k.queue) = k.queue[1] /\ k.queue[1] \in Frame
      /\ 1 \in DOMAIN k.queue /\ k.station \in Station
  BY DEF KernelState
<1>2. \A i \in DOMAIN n.queue : i + 1 \in DOMAIN k.queue /\ n.queue[i] = k.queue[i + 1] /\ i + 1 > 1 /\ i \in Nat
  BY <1>1
<1>3. ASSUME NEW i \in DOMAIN k.queue, i # 1
      PROVE  i - 1 \in DOMAIN n.queue /\ n.queue[i - 1] = k.queue[i] /\ i \in Nat
  BY <1>1, <1>3
<1>4. ASSUME Settled(k, s) PROVE Settled(n, s)
  <2>1. CASE k.station \in s.met /\ \A i \in DOMAIN k.queue : k.queue[i] \notin s.about
    <3>1. n.station \in s.met
      BY <1>1, <2>1 DEF Proper, Ends, Renews, Meets
    <3>2. \A i \in DOMAIN n.queue : n.queue[i] \notin s.about
      BY <1>2, <2>1
    <3>3. QED
      BY <3>1, <3>2 DEF Settled
  <2>2. ASSUME NEW i \in DOMAIN k.queue, k.queue[i] = s.wanted,
               \A j \in DOMAIN k.queue : j > i => k.queue[j] \notin s.about
        PROVE  Settled(n, s)
    <3>1. CASE i = 1
      <4>1. n.station \in s.met
        BY <1>1, <2>2, <3>1 DEF Proper, Ends, Renews, Meets
      <4>2. \A j \in DOMAIN n.queue : n.queue[j] \notin s.about
        BY <1>2, <2>2, <3>1
      <4>3. QED
        BY <4>1, <4>2 DEF Settled
    <3>2. CASE i # 1
      <4>1. i - 1 \in DOMAIN n.queue /\ n.queue[i - 1] = s.wanted /\ i \in Nat
        BY <1>3, <2>2, <3>2
      <4>2. \A j \in DOMAIN n.queue : j > i - 1 => j + 1 > i
        BY <1>2, <4>1
      <4>3. \A j \in DOMAIN n.queue : j > i - 1 => n.queue[j] \notin s.about
        BY <1>2, <2>2, <4>2
      <4>4. QED
        BY <4>1, <4>3 DEF Settled
    <3>3. QED
      BY <3>1, <3>2
  <2>3. QED
    BY <1>4, <2>1, <2>2 DEF Settled
<1>5. QED
  BY <1>4 DEF Follows

\* The commands when the next redundancy timer has expired: the first takes its turn
\* again after the others, if it has a slot left.
Turned(r) ==
  LET t == Head(r)
  IN  IF Tail(t.slots) = <<>> THEN Tail(r)
      ELSE Append(Tail(r), [now |-> t.now, slots |-> Tail(t.slots)])

TurnSends(k, n, queued) ==
  LET t == Head(k.repeating)
      f == Head(t.slots)
      m == [k EXCEPT !.repeating = Turned(@)]
  IN  IF f = Pause THEN n = m ELSE IF t.now THEN Writes(m, n, f) ELSE Sends(m, n, f, queued)

\* The turns do not change in which order the commands end.
LEMMA TurnedOrder ==
  ASSUME NEW r \in Seq(Repeating), r # <<>>, NEW ends, NEW j \in DOMAIN r, Latest(r, ends, j)
  PROVE  LET n == Turned(r)
             left == Len(r[1].slots)
         IN  /\ j # 1 => j - 1 \in DOMAIN n /\ n[j - 1] = r[j] /\ Latest(n, ends, j - 1)
             /\ j = 1 /\ left # 1 => Latest(n, ends, Len(r)) /\ Len(r) \in DOMAIN n
             /\ j = 1 /\ left = 1 => \A i \in DOMAIN n : Final(n[i]) \notin ends
<1> DEFINE n == Turned(r)
           t == Head(r)
           e == [now |-> t.now, slots |-> Tail(t.slots)]
           left == Len(r[1].slots)
<1>1. /\ 1 \in DOMAIN r /\ t = r[1] /\ t \in Repeating
      /\ Len(r) \in Nat /\ DOMAIN r = 1..Len(r)
      /\ \A i \in DOMAIN r : r[i] \in Repeating
  OBVIOUS
<1>2. /\ left \in Nat /\ left >= 1
      /\ \A i \in DOMAIN r : Len(r[i].slots) \in Nat /\ Len(r[i].slots) >= 1
      /\ Tail(t.slots) = <<>> <=> left = 1
      /\ left # 1 => Len(e.slots) = left - 1 /\ Final(e) = Final(t)
  BY <1>1, SlotsLeft
<1>3. CASE left = 1
  <2>1. n = Tail(r)
    BY <1>2, <1>3 DEF Turned
  <2>2. DOMAIN n = 1..(Len(r) - 1) /\ \A i \in 1..(Len(r) - 1) : n[i] = r[i + 1] /\ i + 1 \in DOMAIN r
    BY <1>1, <2>1
  <2> HIDE DEF n
  <2>3. CASE j = 1
    <3>1. ASSUME NEW i \in DOMAIN r, i # 1, Final(r[i]) \in ends
          PROVE  FALSE
      <4>1. Sooner(r, i, 1)
        BY <2>3, <3>1 DEF Latest
      <4>2. Len(r[i].slots) < 1 \/ i < 1
        BY <1>2, <1>3, <4>1 DEF Sooner
      <4>3. QED
        BY <1>1, <1>2, <4>2
    <3>2. QED
      BY <1>1, <1>3, <2>2, <2>3, <3>1 DEF n
  <2>4. CASE j # 1
    <3>1. j - 1 \in DOMAIN n /\ n[j - 1] = r[j]
      BY <1>1, <2>2, <2>4
    <3>2. ASSUME NEW i \in DOMAIN n, i # j - 1, Final(n[i]) \in ends
          PROVE  Sooner(n, i, j - 1)
      <4>1. i + 1 \in DOMAIN r /\ i + 1 # j /\ n[i] = r[i + 1] /\ i \in Nat /\ j \in Nat
        BY <1>1, <2>2, <3>2
      <4>2. Sooner(r, i + 1, j)
        BY <3>2, <4>1 DEF Latest
      <4>3. QED
        BY <3>1, <4>1, <4>2 DEF Sooner
    <3>3. QED
      BY <2>4, <3>1, <3>2 DEF Latest, n
  <2>5. QED
    BY <2>3, <2>4
<1>4. CASE left # 1
  <2>0. Tail(t.slots) # <<>> /\ Len(e.slots) = left - 1 /\ Final(e) = Final(t)
    BY <1>2, <1>4
  <2>1. n = Append(Tail(r), e)
    BY <2>0 DEF Turned
  <2>2. /\ DOMAIN n = 1..Len(r) /\ n[Len(r)] = e
        /\ \A i \in 1..(Len(r) - 1) : n[i] = r[i + 1] /\ i + 1 \in DOMAIN r
    BY <1>1, <2>1
  <2> HIDE DEF n, e
  <2>3. CASE j = 1
    <3>1. ASSUME NEW i \in DOMAIN n, i # Len(r), Final(n[i]) \in ends
          PROVE  Sooner(n, i, Len(r))
      <4>1. i + 1 \in DOMAIN r /\ i + 1 # 1 /\ n[i] = r[i + 1] /\ i \in Nat /\ i < Len(r)
        BY <1>1, <2>2, <3>1
      <4>2. Sooner(r, i + 1, 1)
        BY <2>3, <3>1, <4>1 DEF Latest
      <4>3. QED
        BY <1>1, <1>2, <2>0, <2>2, <4>1, <4>2 DEF Sooner
    <3>2. QED
      BY <1>1, <1>4, <2>2, <2>3, <3>1 DEF Latest, n
  <2>4. CASE j # 1
    <3>1. j - 1 \in DOMAIN n /\ n[j - 1] = r[j] /\ j \in Nat /\ j - 1 < Len(r)
      BY <1>1, <2>2, <2>4
    <3>2. ASSUME NEW i \in DOMAIN n, i # j - 1, Final(n[i]) \in ends
          PROVE  Sooner(n, i, j - 1)
      <4>1. CASE i = Len(r)
        <5>1. Final(r[1]) \in ends
          BY <1>1, <2>0, <2>2, <3>2, <4>1
        <5>2. Sooner(r, 1, j)
          BY <1>1, <2>4, <5>1 DEF Latest
        <5>3. left <= Len(r[j].slots)
          BY <1>2, <5>2 DEF Sooner
        <5>4. Len(n[i].slots) = left - 1 /\ Len(n[j - 1].slots) = Len(r[j].slots)
          <6>1. n[i] = e /\ n[j - 1] = r[j]
            BY <2>2, <3>1, <4>1
          <6>2. Len(n[i].slots) = Len(e.slots) /\ Len(n[j - 1].slots) = Len(r[j].slots)
            BY <6>1
          <6>3. QED
            BY <2>0, <6>2
        <5>5. QED
          BY <1>2, <5>3, <5>4 DEF Sooner
      <4>2. CASE i # Len(r)
        <5>1. i + 1 \in DOMAIN r /\ i + 1 # j /\ n[i] = r[i + 1] /\ i \in Nat
          BY <1>1, <2>2, <3>1, <3>2, <4>2
        <5>2. Sooner(r, i + 1, j)
          BY <3>2, <5>1 DEF Latest
        <5>3. QED
          BY <3>1, <5>1, <5>2 DEF Sooner
      <4>3. QED
        BY <4>1, <4>2
    <3>3. QED
      BY <2>4, <3>1, <3>2 DEF Latest, n
  <2>5. QED
    BY <2>3, <2>4
<1>5. QED
  BY <1>3, <1>4

LEMMA TurnedRest ==
  ASSUME NEW r \in Seq(Repeating), r # <<>>
  PROVE  LET left == [now |-> r[1].now, slots |-> Tail(r[1].slots)]
         IN  /\ Turned(r) \in Seq(Repeating)
             /\ Len(r[1].slots) # 1 => Turned(r)[Len(r)] = left
             /\ \A i \in DOMAIN Turned(r) :
                  \/ \E j \in DOMAIN r : Turned(r)[i] = r[j]
                  \/ Turned(r)[i] = left /\ Len(r[1].slots) # 1
<1> DEFINE n == Turned(r)
           t == Head(r)
           e == [now |-> t.now, slots |-> Tail(t.slots)]
<1>1. /\ 1 \in DOMAIN r /\ t = r[1] /\ t \in Repeating
      /\ Len(r) \in Nat /\ DOMAIN r = 1..Len(r)
      /\ Tail(r) \in Seq(Repeating) /\ Len(Tail(r)) = Len(r) - 1
      /\ \A i \in 1..(Len(r) - 1) : Tail(r)[i] = r[i + 1] /\ i + 1 \in DOMAIN r
  OBVIOUS
<1>2. Tail(t.slots) = <<>> <=> Len(t.slots) = 1
  BY <1>1, SlotsLeft
<1>3. CASE Len(t.slots) = 1
  <2>1. n = Tail(r)
    BY <1>2, <1>3 DEF Turned
  <2>2. QED
    BY <1>1, <1>3, <2>1
<1>4. CASE Len(t.slots) # 1
  <2>1. Tail(t.slots) # <<>>
    BY <1>2, <1>4
  <2>2. e \in Repeating
    BY <1>1, <2>1 DEF Repeating
  <2>3. n = Append(Tail(r), e)
    BY <2>1 DEF Turned
  <2> HIDE DEF n, e
  <2>4. /\ n \in Seq(Repeating) /\ n[Len(r)] = e
        /\ \A i \in DOMAIN n : n[i] = e \/ \E j \in DOMAIN r : n[i] = r[j]
    BY <1>1, <2>2, <2>3
  <2>5. QED
    BY <1>1, <1>4, <2>4 DEF n, e
<1>5. QED
  BY <1>3, <1>4

\* The frame of the turn, and what it does to a subject.
LEMMA TurnEffect ==
  ASSUME NEW R, NEW queued \in BOOLEAN, NEW s, Proper(s, R, queued),
         NEW k \in KernelState, Shaped(k, R, queued), k.repeating # <<>>,
         NEW n, TurnSends(k, n, queued), ~n.lost
  PROVE  LET t == k.repeating[1]
             f == Head(t.slots)
         IN  /\ n.repeating = Turned(k.repeating)
             /\ f \notin s.about /\ Settled(k, s) => Settled(n, s)
             /\ f = s.wanted /\ (t.now => ~queued) => Settled(n, s)
<1> DEFINE t == k.repeating[1]
           f == Head(t.slots)
           m == [k EXCEPT !.repeating = Turned(@)]
<1>1. k.repeating \in Seq(Repeating) /\ t = Head(k.repeating) /\ t \in Repeating
  BY DEF KernelState
<1>2. f \in Frame \cup {Pause}
  <2>1. t.slots \in Seq(Frame \cup {Pause}) /\ t.slots # <<>>
    BY <1>1 DEF Repeating
  <2>2. QED
    BY <2>1
<1>3. IF f = Pause THEN n = m ELSE IF t.now THEN Writes(m, n, f) ELSE Sends(m, n, f, queued)
  BY <1>1 DEF TurnSends
<1> HIDE DEF f, t
<1>4. Turned(k.repeating) \in Seq(Repeating)
  BY <1>1, TurnedRest
<1>5. /\ m \in KernelState /\ m.repeating = Turned(k.repeating)
      /\ m.queue = k.queue /\ m.station = k.station
  BY <1>4 DEF KernelState
<1> HIDE DEF m
<1>6. n.repeating = Turned(k.repeating)
  BY <1>3, <1>5 DEF Writes, Sends
<1>7. Settled(m, s) <=> Settled(k, s)
  BY <1>5 DEF Settled
<1>8. ASSUME f \notin s.about, Settled(k, s) PROVE Settled(n, s)
  <2>1. CASE f = Pause
    BY <1>3, <1>7, <1>8, <2>1
  <2>2. CASE f # Pause
    <3>1. f \in Frame \ s.about
      BY <1>2, <1>8, <2>2
    <3>2. QED
      BY <1>3, <1>5, <1>7, <1>8, <2>2, <3>1, SettledOther
  <2>3. QED
    BY <2>1, <2>2
<1>9. ASSUME f = s.wanted, t.now => ~queued PROVE Settled(n, s)
  <2>1. f # Pause
    BY <1>9 DEF Proper, Ends, Renews, Meets
  <2>2. ~queued => m.queue = <<>>
    BY <1>5 DEF Shaped
  <2>3. \/ Writes(m, n, s.wanted) /\ ~queued
        \/ Sends(m, n, s.wanted, queued) /\ ~n.lost
    BY <1>3, <1>9, <2>1
  <2>4. QED
    BY <1>5, <2>2, <2>3, SettledWanted
<1>10. QED
  BY <1>6, <1>8, <1>9 DEF f, t

\* The next redundancy timer expires.
LEMMA TurnFollows ==
  ASSUME NEW R, NEW queued \in BOOLEAN, NEW s, Proper(s, R, queued),
         NEW k \in KernelState, Shaped(k, R, queued), k.repeating # <<>>,
         NEW n, TurnSends(k, n, queued), ~n.lost,
         Follows(k, s)
  PROVE  Follows(n, s)
<1> DEFINE r == k.repeating
           t == r[1]
           f == Head(t.slots)
           e == [now |-> t.now, slots |-> Tail(t.slots)]
           left == Len(t.slots)
<1>1. /\ r \in Seq(Repeating) /\ r # <<>> /\ 1 \in DOMAIN r
      /\ \A i \in DOMAIN r : r[i] \in Repeating /\ r[i] \in Entry(R)
  <2>1. k.repeating \in Seq(Repeating)
    BY DEF KernelState
  <2>2. QED
    BY <2>1 DEF Shaped
<1>2. /\ n.repeating = Turned(r)
      /\ f \notin s.about /\ Settled(k, s) => Settled(n, s)
      /\ f = s.wanted /\ (t.now => ~queued) => Settled(n, s)
  BY TurnEffect
<1>3. \A i \in DOMAIN r : Len(r[i].slots) \in Nat /\ Len(r[i].slots) >= 1
  BY <1>1, SlotsLeft
<1>4. /\ left \in Nat /\ left >= 1
      /\ left # 1 => Len(e.slots) = left - 1 /\ Final(e) = Final(t)
  BY <1>1, SlotsLeft
<1>5. IF Final(t) \in s.ends THEN left <= s.rest => f \notin s.about ELSE f \notin s.about
  BY <1>1 DEF Proper, Ends, Renews, Meets
<1>6. s.rest \in Nat
  BY DEF Proper, Ends, Renews, Meets
<1>7. /\ left # 1 => Turned(r)[Len(r)] = e
      /\ \A i \in DOMAIN Turned(r) : \/ \E j \in DOMAIN r : Turned(r)[i] = r[j]
                                     \/ Turned(r)[i] = e /\ left # 1
  BY <1>1, TurnedRest
<1>8. CASE (\A i \in DOMAIN r : Final(r[i]) \notin s.ends) /\ Settled(k, s)
  <2>1. f \notin s.about
    BY <1>1, <1>5, <1>8
  <2>2. \A i \in DOMAIN Turned(r) : Final(Turned(r)[i]) \notin s.ends
    BY <1>1, <1>4, <1>7, <1>8
  <2>3. QED
    BY <1>2, <1>8, <2>1, <2>2 DEF Follows
<1>9. ASSUME NEW j \in DOMAIN r, Latest(r, s.ends, j), r[j] \in s.renewals,
             Len(r[j].slots) <= s.rest => Settled(k, s)
      PROVE  Follows(n, s)
  <2>0. /\ j # 1 => j - 1 \in DOMAIN Turned(r) /\ Turned(r)[j - 1] = r[j]
                    /\ Latest(Turned(r), s.ends, j - 1)
        /\ j = 1 /\ left # 1 => Latest(Turned(r), s.ends, Len(r)) /\ Len(r) \in DOMAIN Turned(r)
        /\ j = 1 /\ left = 1 => \A i \in DOMAIN Turned(r) : Final(Turned(r)[i]) \notin s.ends
    BY <1>1, <1>9, TurnedOrder
  <2> HIDE DEF e, left
  <2>1. CASE j # 1
    <3>1. ASSUME Len(r[j].slots) <= s.rest PROVE Settled(n, s)
      <4>1. Final(t) \in s.ends => left <= s.rest
        <5>1. ASSUME Final(t) \in s.ends PROVE left <= s.rest
          <6>1. Sooner(r, 1, j)
            BY <1>1, <1>9, <2>1, <5>1 DEF Latest
          <6>2. left <= Len(r[j].slots)
            BY <1>1, <1>3, <6>1 DEF Sooner, left
          <6>3. QED
            BY <1>3, <1>4, <1>6, <3>1, <6>2
        <5>2. QED
          BY <5>1
      <4>2. f \notin s.about
        BY <1>5, <4>1
      <4>3. QED
        BY <1>2, <1>9, <3>1, <4>2
    <3>2. QED
      BY <1>2, <1>9, <2>0, <2>1, <3>1 DEF Follows
  <2>2. CASE j = 1
    <3>1. left <= s.rest => Settled(n, s)
      <4>1. t \in s.renewals /\ Final(t) \in s.ends
        BY <1>9, <2>2 DEF Proper, Ends, Renews, Meets
      <4>2. left <= s.rest => f \notin s.about /\ Settled(k, s)
        BY <1>5, <1>9, <2>2, <4>1 DEF left
      <4>3. QED
        BY <1>2, <4>2
    <3>2. left = s.rest + 1 => Settled(n, s)
      <4>1. left = s.rest + 1 => f = s.wanted /\ (t.now => ~queued)
        BY <1>9, <2>2 DEF Proper, Ends, Renews, Meets, left
      <4>2. QED
        BY <1>2, <4>1
    <3>3. CASE left = 1
      <4>1. Settled(n, s)
        BY <1>6, <3>1, <3>2, <3>3
      <4>2. QED
        BY <1>2, <2>0, <2>2, <3>3, <4>1 DEF Follows
    <3>4. CASE left # 1
      <4>1. left > 1
        BY <1>4, <3>4
      <4>2. e \in s.renewals
        BY <1>9, <2>2, <4>1 DEF Proper, Ends, Renews, Meets, e, left
      <4>3. Len(e.slots) <= s.rest => Settled(n, s)
        <5>1. Len(e.slots) = left - 1
          BY <1>4, <3>4
        <5>2. Len(e.slots) <= s.rest => left <= s.rest \/ left = s.rest + 1
          BY <1>4, <1>6, <5>1
        <5>3. QED
          BY <3>1, <3>2, <5>2
      <4>4. QED
        BY <1>2, <1>7, <2>0, <2>2, <3>4, <4>2, <4>3 DEF Follows
    <3>5. QED
      BY <3>3, <3>4
  <2>3. QED
    BY <2>1, <2>2
<1>10. QED
  BY <1>8, <1>9 DEF Follows

-----------------------------------------------------------------------------
(* The frames of a command that is being repeated.                         *)

LEMMA TimesSlots ==
  ASSUME NEW n \in Nat, NEW f
  PROVE  /\ Len(Times(n, f)) = n
         /\ n = 0 => Times(n, f) = <<>>
         /\ n # 0 => /\ Times(n, f) # <<>> /\ Head(Times(n, f)) = f /\ Times(n, f)[n] = f
                     /\ Tail(Times(n, f)) = Times(n - 1, f)
<1>1. Times(n, f) \in Seq({f}) /\ Len(Times(n, f)) = n
  BY DEF Times
<1>2. n = 0 => Times(n, f) = <<>>
  BY <1>1, EmptySeq
<1>3. ASSUME n # 0
      PROVE  /\ Times(n, f) # <<>> /\ Head(Times(n, f)) = f /\ Times(n, f)[n] = f
             /\ Tail(Times(n, f)) = Times(n - 1, f)
  <2>1. Times(n, f)[1] = f /\ Times(n, f)[n] = f
    BY <1>3 DEF Times
  <2>2. Times(n, f) # <<>>
    BY <1>1, <1>3, EmptySeq
  <2>3. Tail(Times(n, f)) = Times(n - 1, f)
    BY <1>1, <1>3 DEF Times
  <2>4. QED
    BY <1>1, <2>1, <2>2, <2>3
<1>4. QED
  BY <1>1, <1>2, <1>3

LEMMA RestSlots ==
  ASSUME NEW a, NEW p, NEW R \in Nat, NEW n \in Nat
  PROVE  /\ Len(Rest(a, p, R, n)) = n
         /\ n # 0 => /\ Rest(a, p, R, n)[n] = Off(a)
                     /\ Head(Rest(a, p, R, n)) =
                          IF n > R + PulseSlots THEN Switch(a, p)
                          ELSE IF n > R + 1 THEN Pause ELSE Off(a)
                     /\ Tail(Rest(a, p, R, n)) = Rest(a, p, R, n - 1)
<1> DEFINE r == Rest(a, p, R, n)
<1>1. r \in Seq({Switch(a, p), Pause, Off(a)}) /\ Len(r) = n
  BY DEF Rest
<1>2. ASSUME n # 0
      PROVE  /\ r[n] = Off(a)
             /\ Head(r) = IF n > R + PulseSlots THEN Switch(a, p)
                          ELSE IF n > R + 1 THEN Pause ELSE Off(a)
             /\ Tail(r) = Rest(a, p, R, n - 1)
  <2>1. r[1] = IF n > R + PulseSlots THEN Switch(a, p) ELSE IF n > R + 1 THEN Pause ELSE Off(a)
    BY <1>2 DEF Rest
  <2>2. r[n] = Off(a)
    <3>1. n - n + 1 = 1 /\ ~(1 > R + 1) /\ ~(1 > R + PulseSlots)
      BY ConfigAssumption
    <3>2. n \in 1..n
      BY <1>2
    <3>3. QED
      BY <3>1, <3>2 DEF Rest
  <2>3. Tail(r) = Rest(a, p, R, n - 1)
    <3>1. \A i \in 1..(n - 1) : i + 1 \in 1..n /\ n - (i + 1) + 1 = (n - 1) - i + 1
      OBVIOUS
    <3>2. \A i \in 1..(n - 1) : r[i + 1] = Rest(a, p, R, n - 1)[i]
      BY <3>1 DEF Rest
    <3>3. LET t == Rest(a, p, R, n - 1)
          IN  t \in Seq({Switch(a, p), Pause, Off(a)}) /\ Len(t) = n - 1
      BY <1>2 DEF Rest
    <3>4. /\ Tail(r) \in Seq({Switch(a, p), Pause, Off(a)}) /\ Len(Tail(r)) = n - 1
          /\ \A i \in 1..(n - 1) : Tail(r)[i] = r[i + 1]
      <4>1. r # <<>>
        BY <1>1, <1>2, EmptySeq
      <4> HIDE DEF r
      <4>2. /\ Tail(r) \in Seq({Switch(a, p), Pause, Off(a)}) /\ Len(Tail(r)) = Len(r) - 1
            /\ \A i \in 1..Len(Tail(r)) : Tail(r)[i] = r[i + 1]
        BY <1>1, <4>1, HeadTailProperties
      <4>3. QED
        BY <1>1, <4>2
    <3>5. QED
      BY <3>2, <3>3, <3>4, SeqEqual
  <2>4. Head(r) = r[1]
    OBVIOUS
  <2>5. QED
    BY <2>1, <2>2, <2>3, <2>4
<1>3. QED
  BY <1>1, <1>2

LEMMA AccessoryRest ==
  ASSUME NEW a \in Accessory, NEW p \in Position, config.redundancy \in Nat
  PROVE  AccessorySlots(a, p) = Rest(a, p, config.redundancy, 2 * config.redundancy + PulseSlots)
<1> DEFINE R == config.redundancy
           slots == AccessorySlots(a, p)
           F == {Switch(a, p), Pause, Off(a)}
           on == Times(R, Switch(a, p))
           pulse == Times(PulseSlots - 1, Pause)
           off == Times(R, Off(a))
           n == 2 * R + PulseSlots
<1>1. R \in Nat /\ PulseSlots \in Nat /\ PulseSlots >= 1
  BY ConfigAssumption
<1>2. /\ on \in Seq(F) /\ Len(on) = R /\ \A i \in 1..R : on[i] = Switch(a, p)
      /\ pulse \in Seq(F) /\ Len(pulse) = PulseSlots - 1
      /\ \A i \in 1..(PulseSlots - 1) : pulse[i] = Pause
      /\ off \in Seq(F) /\ Len(off) = R /\ \A i \in 1..R : off[i] = Off(a)
      /\ <<Off(a)>> \in Seq(F)
  BY <1>1 DEF Times
<1>3. slots = on \o pulse \o <<Off(a)>> \o off
  BY DEF AccessorySlots
<1> HIDE DEF on, pulse, off, F, slots, R
<1>4. ASSUME NEW s \in Seq(F), NEW t \in Seq(F)
      PROVE  /\ s \o t \in Seq(F) /\ Len(s \o t) = Len(s) + Len(t)
             /\ \A i \in 1..(Len(s) + Len(t)) :
                  (s \o t)[i] = IF i <= Len(s) THEN s[i] ELSE t[i - Len(s)]
  BY ConcatProperties
<1> DEFINE final == <<Off(a)>>
           x == on \o pulse
           y == x \o final
<1>51. /\ x \in Seq(F) /\ Len(x) = R + PulseSlots - 1
       /\ \A i \in 1..(R + PulseSlots - 1) : x[i] = IF i <= R THEN Switch(a, p) ELSE Pause
  <2>1. x \in Seq(F) /\ Len(x) = Len(on) + Len(pulse)
    BY <1>2, <1>4
  <2>2. \A i \in 1..(Len(on) + Len(pulse)) :
          x[i] = IF i <= Len(on) THEN on[i] ELSE pulse[i - Len(on)]
    BY <1>2, <1>4
  <2> HIDE DEF x
  <2>3. QED
    BY <1>1, <1>2, <2>1, <2>2
<1> HIDE DEF x
<1>5. /\ y \in Seq(F) /\ Len(y) = R + PulseSlots
      /\ \A i \in 1..(R + PulseSlots) :
           y[i] = IF i <= R THEN Switch(a, p) ELSE IF i < R + PulseSlots THEN Pause ELSE Off(a)
  <2>1. final \in Seq(F) /\ Len(final) = 1 /\ final[1] = Off(a)
    BY <1>2
  <2> HIDE DEF final
  <2>2. y \in Seq(F) /\ Len(y) = Len(x) + Len(final)
    BY <1>4, <1>51, <2>1
  <2>3. \A i \in 1..(Len(x) + Len(final)) :
          y[i] = IF i <= Len(x) THEN x[i] ELSE final[i - Len(x)]
    BY <1>4, <1>51, <2>1
  <2> HIDE DEF y
  <2>4. \A i \in 1..(R + PulseSlots) :
          IF i <= R + PulseSlots - 1 THEN i < R + PulseSlots /\ i \in 1..(R + PulseSlots - 1)
          ELSE i - (R + PulseSlots - 1) = 1 /\ ~(i <= R) /\ ~(i < R + PulseSlots)
    BY <1>1
  <2>5. Len(y) = R + PulseSlots
    BY <1>1, <1>51, <2>1, <2>2
  <2>6. QED
    BY <1>51, <2>1, <2>2, <2>3, <2>4, <2>5
<1>6. /\ slots \in Seq(F) /\ Len(slots) = n
      /\ \A i \in 1..n :
           slots[i] = IF i <= R THEN Switch(a, p) ELSE IF i < R + PulseSlots THEN Pause ELSE Off(a)
  <2>1. slots = y \o off
    BY <1>3 DEF x, final
  <2> HIDE DEF y
  <2>2. slots \in Seq(F) /\ Len(slots) = Len(y) + Len(off)
    BY <1>2, <1>4, <1>5, <2>1
  <2>3. \A i \in 1..(Len(y) + Len(off)) :
          slots[i] = IF i <= Len(y) THEN y[i] ELSE off[i - Len(y)]
    BY <1>2, <1>4, <1>5, <2>1
  <2>4. QED
    BY <1>1, <1>2, <1>5, <2>2, <2>3
<1>7. slots = [i \in 1..n |-> slots[i]]
  BY <1>6
<1>8. \A i \in 1..n : /\ n - i + 1 > R + PulseSlots <=> i <= R
                      /\ n - i + 1 > R + 1 <=> i < R + PulseSlots
  BY <1>1
<1>9. Rest(a, p, R, n) = [i \in 1..n |-> slots[i]]
  BY <1>6, <1>8 DEF Rest
<1>10. QED
  BY <1>7, <1>9 DEF R, slots

LEMMA RestTail ==
  \A a, p : \A R, n \in Nat : n # 0 => Tail(Rest(a, p, R, n)) = Rest(a, p, R, n - 1)
<1> SUFFICES ASSUME NEW a, NEW p, NEW R \in Nat, NEW n \in Nat, n # 0
             PROVE  Tail(Rest(a, p, R, n)) = Rest(a, p, R, n - 1)
  OBVIOUS
<1>1. QED
  BY RestSlots

LEMMA EntryKinds ==
  ASSUME NEW R, NEW e
  PROVE  /\ e \in PlainEntry(R) <=>
              \E n \in 1..R, f \in Plain : e = [now |-> FALSE, slots |-> Times(n, f)]
         /\ e \in StopEntry(R) <=> \E n \in 1..R : e = [now |-> TRUE, slots |-> Times(n, Stop)]
         /\ e \in OutputEntry(R) <=>
              \E a \in Accessory, p \in Position, n \in 1..(2 * R + PulseSlots) :
                e = [now |-> FALSE, slots |-> Rest(a, p, R, n)]
BY DEF PlainEntry, StopEntry, OutputEntry, Repeats, Pulses

\* What can be seen of a command that is being repeated, from the slots it has left.
LEMMA EntryCases ==
  ASSUME NEW R \in Nat, NEW e \in Entry(R)
  PROVE  LET n == Len(e.slots)
             f == Head(e.slots)
         IN  /\ n \in Nat /\ n >= 1
             /\ \/ f \in Plain /\ Final(e) = f /\ n <= R
                \/ f = Stop /\ Final(e) = Stop /\ n <= R
                \/ n = 1 /\ Final(e) = f /\ \E l \in Loco : f = Toggle(l)
                \/ \E a \in Accessory, p \in Position :
                     /\ Final(e) = Off(a) /\ n <= 2 * R + PulseSlots
                     /\ f = IF n > R + PulseSlots THEN Switch(a, p)
                            ELSE IF n > R + 1 THEN Pause ELSE Off(a)
<1>1. CASE e \in PlainEntry(R)
  <2>1. PICK n \in 1..R, f \in Plain : e = [now |-> FALSE, slots |-> Times(n, f)]
    BY <1>1, EntryKinds
  <2>2. e.slots = Times(n, f) /\ n \in Nat /\ n # 0 /\ n <= R /\ n >= 1
    BY <2>1
  <2>3. Len(e.slots) = n /\ Head(e.slots) = f /\ e.slots[n] = f
    BY <2>2, TimesSlots
  <2>4. QED
    BY <2>2, <2>3 DEF Final
<1>2. CASE e \in StopEntry(R)
  <2>1. PICK n \in 1..R : e = [now |-> TRUE, slots |-> Times(n, Stop)]
    BY <1>2, EntryKinds
  <2>2. e.slots = Times(n, Stop) /\ n \in Nat /\ n # 0 /\ n <= R /\ n >= 1
    BY <2>1
  <2>3. Len(e.slots) = n /\ Head(e.slots) = Stop /\ e.slots[n] = Stop
    BY <2>2, TimesSlots
  <2>4. QED
    BY <2>2, <2>3 DEF Final
<1>3. ASSUME NEW l \in Loco, e = ToggleEntry(l)
      PROVE  Len(e.slots) = 1 /\ Head(e.slots) = Toggle(l) /\ Final(e) = Toggle(l)
  <2>1. e.slots = <<Toggle(l)>>
    BY <1>3 DEF ToggleEntry
  <2>2. QED
    BY <2>1 DEF Final
<1>4. CASE e \in OutputEntry(R)
  <2>1. PICK a \in Accessory, p \in Position, n \in 1..(2 * R + PulseSlots) :
          e = [now |-> FALSE, slots |-> Rest(a, p, R, n)]
    BY <1>4, EntryKinds
  <2>2. /\ e.slots = Rest(a, p, R, n)
        /\ n \in Nat /\ n # 0 /\ n <= 2 * R + PulseSlots /\ n >= 1
    BY <2>1
  <2> DEFINE r == Rest(a, p, R, n)
  <2>3. /\ Len(r) = n /\ r[n] = Off(a)
        /\ Head(r) = IF n > R + PulseSlots THEN Switch(a, p)
                     ELSE IF n > R + 1 THEN Pause ELSE Off(a)
    BY <2>2, RestSlots, Zenon
  <2> HIDE DEF r
  <2>4. QED
    BY <2>2, <2>3 DEF Final, r
<1>5. QED
  BY <1>1, <1>2, <1>3, <1>4 DEF Entry

\* A command that has sent one of its slots is one of those commands again.
LEMMA EntryTail ==
  ASSUME NEW R \in Nat, NEW e \in Entry(R), Len(e.slots) # 1
  PROVE  [now |-> e.now, slots |-> Tail(e.slots)] \in Entry(R)
<1>1. CASE e \in PlainEntry(R)
  <2>1. PICK n \in 1..R, f \in Plain : e = [now |-> FALSE, slots |-> Times(n, f)]
    BY <1>1, EntryKinds
  <2>2. n \in Nat /\ n # 0 /\ e.slots = Times(n, f) /\ e.now = FALSE
    BY <2>1
  <2>3. Len(e.slots) = n /\ Tail(e.slots) = Times(n - 1, f)
    BY <2>2, TimesSlots
  <2>4. n - 1 \in 1..R
    BY <2>2, <2>3
  <2>5. QED
    <3>1. [now |-> FALSE, slots |-> Times(n - 1, f)] \in PlainEntry(R)
      BY <2>4, EntryKinds, Zenon
    <3>2. QED
      BY <2>2, <2>3, <3>1 DEF Entry
<1>2. CASE e \in StopEntry(R)
  <2>1. PICK n \in 1..R : e = [now |-> TRUE, slots |-> Times(n, Stop)]
    BY <1>2, EntryKinds
  <2>2. n \in Nat /\ n # 0 /\ e.slots = Times(n, Stop) /\ e.now = TRUE
    BY <2>1
  <2>3. Len(e.slots) = n /\ Tail(e.slots) = Times(n - 1, Stop)
    BY <2>2, TimesSlots
  <2>4. n - 1 \in 1..R
    BY <2>2, <2>3
  <2>5. QED
    <3>1. [now |-> TRUE, slots |-> Times(n - 1, Stop)] \in StopEntry(R)
      BY <2>4, EntryKinds
    <3>2. QED
      BY <2>2, <2>3, <3>1 DEF Entry
<1>3. ASSUME NEW l \in Loco, e = ToggleEntry(l) PROVE FALSE
  BY <1>3 DEF ToggleEntry
<1>4. CASE e \in OutputEntry(R)
  <2>1. PICK a \in Accessory, p \in Position, n \in 1..(2 * R + PulseSlots) :
          e = [now |-> FALSE, slots |-> Rest(a, p, R, n)]
    BY <1>4, EntryKinds
  <2>2. n \in Nat /\ n # 0 /\ e.slots = Rest(a, p, R, n) /\ e.now = FALSE
    BY <2>1
  <2>3. Len(e.slots) = n /\ Tail(e.slots) = Rest(a, p, R, n - 1)
    <3>1. Len(Rest(a, p, R, n)) = n
      BY <2>2, RestSlots, Zenon
    <3>2. Tail(Rest(a, p, R, n)) = Rest(a, p, R, n - 1)
      BY <2>2, RestTail, Zenon
    <3>3. QED
      BY <2>2, <3>1, <3>2
  <2>4. n - 1 \in 1..(2 * R + PulseSlots)
    BY <2>2, <2>3, ConfigAssumption
  <2>5. QED
    <3>1. [now |-> FALSE, slots |-> Rest(a, p, R, n - 1)] \in OutputEntry(R)
      BY <2>4, EntryKinds, Zenon
    <3>2. QED
      BY <2>2, <2>3, <3>1 DEF Entry
<1>5. QED
  BY <1>1, <1>2, <1>3, <1>4 DEF Entry

\* The commands that the handlers start.
LEMMA EntryStarts ==
  ASSUME NEW R \in Nat
  PROVE  /\ R # 0 => /\ \A f \in Plain : [now |-> FALSE, slots |-> Times(R, f)] \in Entry(R)
                     /\ [now |-> TRUE, slots |-> Times(R, Stop)] \in Entry(R)
         /\ \A l \in Loco : ToggleEntry(l) \in Entry(R)
         /\ \A a \in Accessory, p \in Position :
              [now |-> FALSE, slots |-> Rest(a, p, R, 2 * R + PulseSlots)] \in Entry(R)
<1>1. R # 0 => R \in 1..R
  OBVIOUS
<1>2. 2 * R + PulseSlots \in 1..(2 * R + PulseSlots)
  BY ConfigAssumption
<1>3. R # 0 => /\ \A f \in Plain : [now |-> FALSE, slots |-> Times(R, f)] \in PlainEntry(R)
               /\ [now |-> TRUE, slots |-> Times(R, Stop)] \in StopEntry(R)
  BY <1>1, EntryKinds, Zenon
<1>4. \A a \in Accessory, p \in Position :
        [now |-> FALSE, slots |-> Rest(a, p, R, 2 * R + PulseSlots)] \in OutputEntry(R)
  BY <1>2, EntryKinds, Zenon
<1>5. QED
  BY <1>3, <1>4 DEF Entry

-----------------------------------------------------------------------------
(* What a frame makes of the layout.                                       *)

LEMMA ReceiveCommand ==
  ASSUME NEW s \in Station
  PROVE  /\ LET r == Receive(s, Go)
            IN  /\ r.track = "on" /\ r.speed = s.speed /\ r.forward = s.forward
                /\ r.coil = s.coil /\ r.position = s.position
         /\ LET r == Receive(s, Stop)
            IN  /\ r.track = "off" /\ r.speed = s.speed /\ r.forward = s.forward
                /\ r.coil = s.coil /\ r.position = s.position
         /\ Receive(s, Other) = s
<1>1. Receive(s, Go) = [s EXCEPT !.track = "on"]
  BY FrameContents DEF Receive
<1>2. Receive(s, Stop) = [s EXCEPT !.track = "off"]
  BY FrameContents DEF Receive
<1>3. Receive(s, Other) = s
  BY FrameContents DEF Receive
<1>4. QED
  BY <1>1, <1>2, <1>3 DEF Station

LEMMA ReceiveSpeedFrame ==
  ASSUME NEW s \in Station, NEW l \in Loco, NEW v \in Speed
  PROVE  /\ \A k \in Loco : Receive(s, SpeedFrame(l, v)).speed[k] = IF k = l THEN v ELSE s.speed[k]
         /\ Receive(s, SpeedFrame(l, v)).forward = s.forward
         /\ Receive(s, SpeedFrame(l, v)).coil = s.coil
         /\ Receive(s, SpeedFrame(l, v)).position = s.position
<1> DEFINE f == SpeedFrame(l, v)
           speeds == [s.speed EXCEPT ![l] = v]
<1>1. f # Go /\ f # Stop /\ f[1] = "speed" /\ f[2] = l /\ f[3] = v
  BY FrameContents
<1> HIDE DEF f
<1>2. Receive(s, f) = [s EXCEPT !.speed[l] = v]
  BY <1>1 DEF Receive
<1>3. Receive(s, f) = [s EXCEPT !.speed = speeds]
  BY <1>2
<1> HIDE DEF speeds
<1>4. /\ Receive(s, f).speed = speeds /\ Receive(s, f).forward = s.forward
      /\ Receive(s, f).coil = s.coil /\ Receive(s, f).position = s.position
  BY <1>3 DEF Station
<1>5. QED
  BY <1>4 DEF f, speeds, Station

LEMMA ReceiveToggle ==
  ASSUME NEW s \in Station, NEW l \in Loco
  PROVE  /\ \A k \in Loco : Receive(s, Toggle(l)).speed[k] = IF k = l THEN 0 ELSE s.speed[k]
         /\ Receive(s, Toggle(l)).forward[l] = ~s.forward[l]
         /\ \A k \in Loco \ {l} : Receive(s, Toggle(l)).forward[k] = s.forward[k]
         /\ Receive(s, Toggle(l)).coil = s.coil
         /\ Receive(s, Toggle(l)).position = s.position
<1> DEFINE f == Toggle(l)
           speeds == [s.speed EXCEPT ![l] = 0]
           directions == [s.forward EXCEPT ![l] = ~@]
<1>1. f # Go /\ f # Stop /\ f[1] = "toggle" /\ f[2] = l
  BY FrameContents
<1> HIDE DEF f
<1>2. Receive(s, f) = [s EXCEPT !.speed[l] = 0, !.forward[l] = ~@]
  BY <1>1 DEF Receive
<1>3. @ = [s EXCEPT !.speed = speeds, !.forward = directions]
  OBVIOUS
<1>4. Receive(s, f) = [s EXCEPT !.speed = speeds, !.forward = directions]
  BY <1>2, <1>3
<1> HIDE DEF speeds, directions
<1>5. /\ Receive(s, f).speed = speeds /\ Receive(s, f).forward = directions
      /\ Receive(s, f).coil = s.coil /\ Receive(s, f).position = s.position
  BY <1>4 DEF Station
<1>6. QED
  BY <1>5 DEF f, speeds, directions, Station

LEMMA ReceiveSwitch ==
  ASSUME NEW s \in Station, NEW a \in Accessory, NEW p \in Position
  PROVE  /\ \A b \in Accessory \ {a} : Receive(s, Switch(a, p)).coil[b] = s.coil[b]
         /\ \A b \in Accessory : Receive(s, Switch(a, p)).position[b] = IF b = a THEN p ELSE s.position[b]
         /\ Receive(s, Switch(a, p)).speed = s.speed
         /\ Receive(s, Switch(a, p)).forward = s.forward
<1> DEFINE f == Switch(a, p)
           coils == [s.coil EXCEPT ![a] = TRUE]
           positions == [s.position EXCEPT ![a] = p]
<1>1. f # Go /\ f # Stop /\ f[1] = "on" /\ f[2] = a /\ f[3] = p
  BY FrameContents
<1> HIDE DEF f
<1>2. Receive(s, f) = [s EXCEPT !.coil[a] = TRUE, !.position[a] = p]
  BY <1>1 DEF Receive
<1>3. @ = [s EXCEPT !.coil = coils, !.position = positions]
  OBVIOUS
<1>4. Receive(s, f) = [s EXCEPT !.coil = coils, !.position = positions]
  BY <1>2, <1>3
<1> HIDE DEF coils, positions
<1>5. /\ Receive(s, f).coil = coils /\ Receive(s, f).position = positions
      /\ Receive(s, f).speed = s.speed /\ Receive(s, f).forward = s.forward
  BY <1>4 DEF Station
<1>6. QED
  BY <1>5 DEF f, coils, positions, Station

LEMMA ReceiveOff ==
  ASSUME NEW s \in Station, NEW a \in Accessory
  PROVE  /\ Receive(s, Off(a)).coil[a] = FALSE
         /\ \A b \in Accessory \ {a} : Receive(s, Off(a)).coil[b] = s.coil[b]
         /\ Receive(s, Off(a)).position = s.position
         /\ Receive(s, Off(a)).speed = s.speed
         /\ Receive(s, Off(a)).forward = s.forward
<1> DEFINE f == Off(a)
           coils == [s.coil EXCEPT ![a] = FALSE]
<1>1. f # Go /\ f # Stop /\ f[1] = "off" /\ f[2] = a
  BY FrameContents
<1> HIDE DEF f
<1>2. Receive(s, f) = [s EXCEPT !.coil[a] = FALSE]
  BY <1>1 DEF Receive
<1>3. Receive(s, f) = [s EXCEPT !.coil = coils]
  BY <1>2
<1> HIDE DEF coils
<1>4. /\ Receive(s, f).coil = coils /\ Receive(s, f).position = s.position
      /\ Receive(s, f).speed = s.speed /\ Receive(s, f).forward = s.forward
  BY <1>3 DEF Station
<1>5. QED
  BY <1>4 DEF f, coils, Station

-----------------------------------------------------------------------------
(* The subjects.                                                           *)

\* The track's power: on after a go, off after a stop.
PowerSubject(f, R) ==
  [about |-> {Go, Stop}, ends |-> {Go, Stop}, wanted |-> f,
   renewals |-> Repeats(f = Stop, f, R),
   rest |-> 0, most |-> R,
   met |-> {s \in Station : s.track = IF f = Go THEN "on" ELSE "off"}]

\* A loco's speed, which a toggle takes to zero.
SpeedSubject(l, v, R) ==
  [about |-> {SpeedFrame(l, u) : u \in Speed}, ends |-> {SpeedFrame(l, u) : u \in Speed},
   wanted |-> SpeedFrame(l, v),
   renewals |-> Repeats(FALSE, SpeedFrame(l, v), R),
   rest |-> 0, most |-> R, met |-> {s \in Station : s.speed[l] \in {0, v}}]

\* An accessory's position, settled when the pulse begins.
PositionSubject(a, p, R) ==
  [about |-> {Switch(a, q) : q \in Position}, ends |-> {Off(a)}, wanted |-> Switch(a, p),
   renewals |-> Pulses(a, p, R),
   rest |-> R + PulseSlots, most |-> 2 * R + PulseSlots,
   met |-> {s \in Station : s.position[a] = p}]

\* An accessory's coil, off after the pulse of whatever position came last.
CoilSubject(a, R) ==
  [about |-> {Switch(a, q) : q \in Position} \cup {Off(a)}, ends |-> {Off(a)}, wanted |-> Off(a),
   renewals |-> UNION {Pulses(a, p, R) : p \in Position},
   rest |-> 0, most |-> 2 * R + PulseSlots, met |-> {s \in Station : ~s.coil[a]}]

LEMMA PauseIsNoFrame ==
  /\ Pause[1] = "pause"
  /\ Pause \notin Frame
BY FrameContents DEF Frame, Pause

LEMMA PowerEnds ==
  ASSUME NEW R \in Nat, NEW f \in {Go, Stop}
  PROVE  Ends(PowerSubject(f, R), R)
<1> DEFINE s == PowerSubject(f, R)
<1>1. /\ s.about = {Go, Stop} /\ s.ends = {Go, Stop} /\ s.wanted = f
      /\ s.rest = 0 /\ s.most = R
  BY DEF PowerSubject
<1> HIDE DEF s
<1>2. Pause \notin {Go, Stop}
  BY PauseIsNoFrame, FramesAreFrames
<1>3. ASSUME NEW e \in Entry(R)
      PROVE  IF Final(e) \in {Go, Stop} THEN Len(e.slots) <= R /\ ~(Len(e.slots) <= 0)
             ELSE Head(e.slots) \notin {Go, Stop}
  <2>1. Plain \cap {Go, Stop} = {Go}
    BY FrameContents DEF Plain
  <2>2. /\ \A a \in Accessory : /\ Off(a) \notin {Go, Stop}
                               /\ \A p \in Position : Switch(a, p) \notin {Go, Stop}
        /\ \A l \in Loco : Toggle(l) \notin {Go, Stop}
    BY FrameContents
  <2>3. Len(e.slots) \in Nat /\ Len(e.slots) >= 1
    BY EntryCases
  <2>4. CASE \E b \in Accessory, q \in Position :
               /\ Final(e) = Off(b) /\ Len(e.slots) <= 2 * R + PulseSlots
               /\ Head(e.slots) = IF Len(e.slots) > R + PulseSlots THEN Switch(b, q)
                                  ELSE IF Len(e.slots) > R + 1 THEN Pause ELSE Off(b)
    BY <1>2, <2>2, <2>4
  <2>5. QED
    BY <2>1, <2>2, <2>3, <2>4, EntryCases
<1>4. Ends(s, R)
  BY <1>1, <1>2, <1>3 DEF Ends
<1>5. QED
  BY <1>4 DEF s

LEMMA SpeedEnds ==
  ASSUME NEW R \in Nat, NEW l \in Loco, NEW v \in Speed
  PROVE  Ends(SpeedSubject(l, v, R), R)
<1> DEFINE s == SpeedSubject(l, v, R)
           own == {SpeedFrame(l, u) : u \in Speed}
<1>1. /\ s.about = own /\ s.ends = own /\ s.wanted = SpeedFrame(l, v)
      /\ s.rest = 0 /\ s.most = R
  BY DEF SpeedSubject
<1>2. Pause \notin own /\ SpeedFrame(l, v) \in own
  BY PauseIsNoFrame, FrameContents
<1>3. Stop \notin own
  BY FrameContents
<1>4. /\ \A a \in Accessory : /\ Off(a) \notin own
                             /\ \A p \in Position : Switch(a, p) \notin own
      /\ \A k \in Loco : Toggle(k) \notin own
  BY FrameContents
<1> HIDE DEF s, own
<1>5. ASSUME NEW e \in Entry(R)
      PROVE  IF Final(e) \in own THEN Len(e.slots) <= R /\ ~(Len(e.slots) <= 0)
             ELSE Head(e.slots) \notin own
  <2>1. Len(e.slots) \in Nat /\ Len(e.slots) >= 1
    BY EntryCases
  <2>2. CASE \E b \in Accessory, q \in Position :
               /\ Final(e) = Off(b) /\ Len(e.slots) <= 2 * R + PulseSlots
               /\ Head(e.slots) = IF Len(e.slots) > R + PulseSlots THEN Switch(b, q)
                                  ELSE IF Len(e.slots) > R + 1 THEN Pause ELSE Off(b)
    BY <1>2, <1>4, <2>2
  <2>3. QED
    BY <1>3, <1>4, <2>1, <2>2, EntryCases
<1>6. Ends(s, R)
  BY <1>1, <1>2, <1>5 DEF Ends
<1>7. QED
  BY <1>6 DEF s

LEMMA PositionEnds ==
  ASSUME NEW R \in Nat, NEW a \in Accessory, NEW p \in Position
  PROVE  Ends(PositionSubject(a, p, R), R)
<1> DEFINE s == PositionSubject(a, p, R)
           own == {Switch(a, q) : q \in Position}
           most == 2 * R + PulseSlots
           rest == R + PulseSlots
<1>1. /\ s.about = own /\ s.ends = {Off(a)} /\ s.wanted = Switch(a, p)
      /\ s.rest = rest /\ s.most = most
  BY DEF PositionSubject
<1>2. Pause \notin own /\ Switch(a, p) \in own /\ most \in Nat /\ rest \in Nat
  BY PauseIsNoFrame, FrameContents, ConfigAssumption
<1>3. \A f \in Plain \cup {Stop} : f \notin own /\ f # Off(a)
  BY FrameContents DEF Plain
<1>4. \A k \in Loco : Toggle(k) \notin own /\ Toggle(k) # Off(a)
  BY FrameContents
<1>5. \A b \in Accessory : /\ Off(b) \notin own /\ (Off(b) = Off(a) => b = a)
                           /\ \A q \in Position : Switch(b, q) \in own => b = a
  BY FrameContents
<1> HIDE DEF s, own, most, rest
<1>6. ASSUME NEW e \in Entry(R)
      PROVE  IF Final(e) \in {Off(a)}
             THEN Len(e.slots) <= most /\ (Len(e.slots) <= rest => Head(e.slots) \notin own)
             ELSE Head(e.slots) \notin own
  <2>1. CASE \E b \in Accessory, q \in Position :
               /\ Final(e) = Off(b) /\ Len(e.slots) <= 2 * R + PulseSlots
               /\ Head(e.slots) = IF Len(e.slots) > R + PulseSlots THEN Switch(b, q)
                                  ELSE IF Len(e.slots) > R + 1 THEN Pause ELSE Off(b)
    <3>1. Len(e.slots) \in Nat
      BY EntryCases
    <3>2. Len(e.slots) <= rest => ~(Len(e.slots) > R + PulseSlots)
      BY <1>2, <3>1 DEF rest
    <3>3. QED
      BY <1>2, <1>5, <2>1, <3>2 DEF most
  <2>2. QED
    BY <1>3, <1>4, <2>1, EntryCases
<1>7. Ends(s, R)
  BY <1>1, <1>2, <1>6 DEF Ends
<1>8. QED
  BY <1>7 DEF s

LEMMA CoilEnds ==
  ASSUME NEW R \in Nat, NEW a \in Accessory
  PROVE  Ends(CoilSubject(a, R), R)
<1> DEFINE s == CoilSubject(a, R)
           own == {Switch(a, q) : q \in Position} \cup {Off(a)}
           most == 2 * R + PulseSlots
<1>1. /\ s.about = own /\ s.ends = {Off(a)} /\ s.wanted = Off(a)
      /\ s.rest = 0 /\ s.most = most
  BY DEF CoilSubject
<1>2. Pause \notin own /\ Off(a) \in own /\ most \in Nat
  BY PauseIsNoFrame, FrameContents, ConfigAssumption
<1>3. \A f \in Plain \cup {Stop} : f \notin own /\ f # Off(a)
  BY FrameContents DEF Plain
<1>4. \A k \in Loco : Toggle(k) \notin own /\ Toggle(k) # Off(a)
  BY FrameContents
<1>5. \A b \in Accessory : /\ Off(b) \in own => b = a
                           /\ \A q \in Position : Switch(b, q) \in own => b = a
  BY FrameContents
<1> HIDE DEF s, own, most
<1>6. ASSUME NEW e \in Entry(R)
      PROVE  IF Final(e) \in {Off(a)} THEN Len(e.slots) <= most /\ ~(Len(e.slots) <= 0)
             ELSE Head(e.slots) \notin own
  <2>1. Len(e.slots) \in Nat /\ Len(e.slots) >= 1
    BY EntryCases
  <2>2. CASE \E b \in Accessory, q \in Position :
               /\ Final(e) = Off(b) /\ Len(e.slots) <= 2 * R + PulseSlots
               /\ Head(e.slots) = IF Len(e.slots) > R + PulseSlots THEN Switch(b, q)
                                  ELSE IF Len(e.slots) > R + 1 THEN Pause ELSE Off(b)
    BY <1>2, <1>5, <2>1, <2>2 DEF most
  <2>3. QED
    BY <1>3, <1>4, <2>1, <2>2, EntryCases
<1>7. Ends(s, R)
  BY <1>1, <1>2, <1>6 DEF Ends
<1>8. QED
  BY <1>7 DEF s

LEMMA PlainRenews ==
  ASSUME NEW R \in Nat, NEW f \in Plain, NEW e \in Repeats(FALSE, f, R)
  PROVE  /\ e \in Entry(R) /\ Final(e) = f /\ Head(e.slots) = f /\ e.now = FALSE
         /\ Len(e.slots) > 1 => [now |-> e.now, slots |-> Tail(e.slots)] \in Repeats(FALSE, f, R)
<1>1. PICK n \in 1..R : e = [now |-> FALSE, slots |-> Times(n, f)]
  BY DEF Repeats
<1>2. n \in Nat /\ n # 0 /\ e.slots = Times(n, f) /\ e.now = FALSE
  BY <1>1
<1>3. /\ Len(e.slots) = n /\ Head(e.slots) = f /\ e.slots[n] = f
      /\ Tail(e.slots) = Times(n - 1, f)
  BY <1>2, TimesSlots
<1>4. n > 1 => n - 1 \in 1..R
  BY <1>2
<1>5. e \in Entry(R)
  BY <1>1, EntryKinds DEF Entry
<1>6. QED
  BY <1>2, <1>3, <1>4, <1>5 DEF Final, Repeats

LEMMA StopRenews ==
  ASSUME NEW R \in Nat, NEW e \in Repeats(TRUE, Stop, R)
  PROVE  /\ e \in Entry(R) /\ Final(e) = Stop /\ Head(e.slots) = Stop
         /\ Len(e.slots) > 1 => [now |-> e.now, slots |-> Tail(e.slots)] \in Repeats(TRUE, Stop, R)
<1>1. PICK n \in 1..R : e = [now |-> TRUE, slots |-> Times(n, Stop)]
  BY DEF Repeats
<1>2. n \in Nat /\ n # 0 /\ e.slots = Times(n, Stop) /\ e.now = TRUE
  BY <1>1
<1>3. /\ Len(e.slots) = n /\ Head(e.slots) = Stop /\ e.slots[n] = Stop
      /\ Tail(e.slots) = Times(n - 1, Stop)
  BY <1>2, TimesSlots
<1>4. n > 1 => n - 1 \in 1..R
  BY <1>2
<1>5. e \in Entry(R)
  BY <1>1, EntryKinds DEF Entry
<1>6. QED
  BY <1>2, <1>3, <1>4, <1>5 DEF Final, Repeats

LEMMA OutputRenews ==
  ASSUME NEW R \in Nat, NEW a \in Accessory, NEW p \in Position, NEW e \in Pulses(a, p, R)
  PROVE  /\ e \in Entry(R) /\ Final(e) = Off(a) /\ e.now = FALSE
         /\ Len(e.slots) = R + PulseSlots + 1 => Head(e.slots) = Switch(a, p)
         /\ Len(e.slots) = 1 => Head(e.slots) = Off(a)
         /\ Len(e.slots) > 1 => [now |-> e.now, slots |-> Tail(e.slots)] \in Pulses(a, p, R)
<1>1. PICK n \in 1..(2 * R + PulseSlots) : e = [now |-> FALSE, slots |-> Rest(a, p, R, n)]
  BY DEF Pulses
<1>2. n \in Nat /\ n # 0 /\ e.slots = Rest(a, p, R, n) /\ e.now = FALSE
  BY <1>1
<1> DEFINE r == Rest(a, p, R, n)
<1>3. /\ Len(r) = n /\ r[n] = Off(a)
      /\ Head(r) = IF n > R + PulseSlots THEN Switch(a, p)
                   ELSE IF n > R + 1 THEN Pause ELSE Off(a)
  BY <1>2, RestSlots, Zenon
<1>4. Tail(r) = Rest(a, p, R, n - 1)
  BY <1>2, RestTail, Zenon
<1> HIDE DEF r
<1>5. n > 1 => n - 1 \in 1..(2 * R + PulseSlots)
  BY <1>2, ConfigAssumption
<1>6. e \in Entry(R)
  <2>1. e \in OutputEntry(R)
    BY <1>1, EntryKinds, Zenon
  <2>2. QED
    BY <2>1 DEF Entry
<1>7. /\ n = R + PulseSlots + 1 => Head(r) = Switch(a, p)
      /\ n = 1 => Head(r) = Off(a)
  BY <1>2, <1>3, ConfigAssumption
<1>8. e.slots = r
  BY <1>2 DEF r
<1>9. n > 1 => [now |-> FALSE, slots |-> Rest(a, p, R, n - 1)] \in Pulses(a, p, R)
  BY <1>5 DEF Pulses
<1>10. QED
  BY <1>2, <1>3, <1>4, <1>6, <1>7, <1>8, <1>9 DEF Final

LEMMA PowerProper ==
  ASSUME NEW R \in Nat, NEW queued, NEW f \in {Go, Stop}, f = Go \/ ~queued
  PROVE  Proper(PowerSubject(f, R), R, queued)
<1> DEFINE s == PowerSubject(f, R)
<1>1. /\ s.about = {Go, Stop} /\ s.ends = {Go, Stop} /\ s.wanted = f /\ s.rest = 0
      /\ s.renewals = Repeats(f = Stop, f, R)
      /\ s.met = {layout \in Station : layout.track = IF f = Go THEN "on" ELSE "off"}
  BY DEF PowerSubject
<1>2. Go # Stop /\ Go \in Plain
  BY FrameContents DEF Plain
<1>3. Ends(s, R)
  BY PowerEnds
<1> HIDE DEF s
<1>4. Renews(s, R, queued)
  <2>1. CASE f = Go
    <3>1. s.renewals = Repeats(FALSE, Go, R)
      BY <1>1, <1>2, <2>1
    <3>2. QED
      <4>1. ASSUME NEW e \in s.renewals
            PROVE  /\ e \in Entry(R) /\ Final(e) \in s.ends
                   /\ e.now = FALSE /\ Head(e.slots) = s.wanted
                   /\ Len(e.slots) > 1 => [now |-> e.now, slots |-> Tail(e.slots)] \in s.renewals
        <5>1. e \in Repeats(FALSE, Go, R)
          BY <3>1, <4>1
        <5>2. /\ e \in Entry(R) /\ Final(e) = Go /\ Head(e.slots) = Go /\ e.now = FALSE
              /\ Len(e.slots) > 1 => [now |-> e.now, slots |-> Tail(e.slots)] \in Repeats(FALSE, Go, R)
          BY <1>2, <5>1, PlainRenews, Zenon
        <5>3. Go \in s.ends /\ s.wanted = Go
          BY <1>1, <2>1
        <5>4. QED
          BY <3>1, <5>2, <5>3, Zenon
      <4>2. QED
        BY <4>1, Zenon DEF Renews
  <2>2. CASE f = Stop
    <3>1. s.renewals = Repeats(TRUE, Stop, R)
      BY <1>1, <2>2
    <3>2. QED
      <4>1. ASSUME NEW e \in s.renewals
            PROVE  /\ e \in Entry(R) /\ Final(e) \in s.ends /\ Head(e.slots) = s.wanted
                   /\ Len(e.slots) > 1 => [now |-> e.now, slots |-> Tail(e.slots)] \in s.renewals
        BY <1>1, <2>2, <3>1, StopRenews
      <4>2. ~queued
        BY <1>2, <2>2
      <4>3. QED
        BY <4>1, <4>2, Zenon DEF Renews
  <2>3. QED
    BY <2>1, <2>2
<1>5. Meets(s)
  <2>1. \A layout \in Station : Receive(layout, f) \in s.met
    BY <1>1, <1>2, FramesAreFrames, ReceiveType, ReceiveCommand
  <2>2. \A layout \in Station, g \in Frame \ {Go, Stop} :
          layout \in s.met => Receive(layout, g) \in s.met
    BY <1>1, ReceiveType, ReceiveTrack DEF Neutral
  <2>3. QED
    BY <1>1, <2>1, <2>2 DEF Meets
<1>6. QED
  BY <1>3, <1>4, <1>5 DEF Proper, s

LEMMA SpeedProper ==
  ASSUME NEW R \in Nat, NEW queued, NEW l \in Loco, NEW v \in Speed
  PROVE  Proper(SpeedSubject(l, v, R), R, queued)
<1> DEFINE s == SpeedSubject(l, v, R)
           f == SpeedFrame(l, v)
           own == {SpeedFrame(l, u) : u \in Speed}
<1>1. /\ s.about = own /\ s.ends = own /\ s.wanted = f /\ s.rest = 0
      /\ s.renewals = Repeats(FALSE, f, R)
      /\ s.met = {layout \in Station : layout.speed[l] \in {0, v}}
  BY DEF SpeedSubject
<1>2. f \in own /\ f \in Plain /\ f \in Frame
  BY FramesAreFrames DEF Plain
<1>3. Ends(s, R)
  BY SpeedEnds
<1> HIDE DEF s
<1>4. Renews(s, R, queued)
  <2> HIDE DEF f, own
  <2>1. QED
    <3>1. ASSUME NEW e \in s.renewals
          PROVE  /\ e \in Entry(R) /\ Final(e) \in s.ends
                 /\ e.now = FALSE /\ Head(e.slots) = s.wanted
                 /\ Len(e.slots) > 1 => [now |-> e.now, slots |-> Tail(e.slots)] \in s.renewals
      <4>1. e \in Repeats(FALSE, f, R)
        BY <1>1, <3>1
      <4>2. /\ e \in Entry(R) /\ Final(e) = f /\ Head(e.slots) = f /\ e.now = FALSE
            /\ Len(e.slots) > 1 => [now |-> e.now, slots |-> Tail(e.slots)] \in Repeats(FALSE, f, R)
        BY <1>2, <4>1, PlainRenews, Zenon
      <4>3. QED
        BY <1>1, <1>2, <4>2, Zenon
    <3>2. QED
      BY <3>1, Zenon DEF Renews
<1>5. Meets(s)
  <2>1. ASSUME NEW layout \in Station
        PROVE  Receive(layout, f) \in s.met
    <3>1. Receive(layout, f) \in Station
      BY <1>2, ReceiveType
    <3>2. Receive(layout, f).speed[l] = v
      BY ReceiveSpeedFrame
    <3>3. QED
      BY <1>1, <3>1, <3>2
  <2>2. ASSUME NEW layout \in Station, NEW g \in Frame \ own
        PROVE  Receive(layout, g).speed[l] \in {0, layout.speed[l]}
    <3>2. CASE g \in {Go, Stop, Other}
      BY <3>2, ReceiveCommand
    <3>3. ASSUME NEW k \in Loco, NEW u \in Speed, g = SpeedFrame(k, u)
          PROVE  Receive(layout, g).speed[l] \in {0, layout.speed[l]}
      <4>1. k # l
        BY <2>2, <3>3
      <4>2. QED
        BY <3>3, <4>1, ReceiveSpeedFrame
    <3>4. ASSUME NEW k \in Loco, g = Toggle(k)
          PROVE  Receive(layout, g).speed[l] \in {0, layout.speed[l]}
      <4>1. Receive(layout, Toggle(k)).speed[l] = IF l = k THEN 0 ELSE layout.speed[l]
        BY ReceiveToggle
      <4>2. QED
        BY <3>4, <4>1
    <3>5. ASSUME NEW a \in Accessory, NEW p \in Position, g = Switch(a, p)
          PROVE  Receive(layout, g).speed = layout.speed
      BY <3>5, ReceiveSwitch, Zenon
    <3>6. ASSUME NEW a \in Accessory, g = Off(a)
          PROVE  Receive(layout, g).speed = layout.speed
      BY <3>6, ReceiveOff, Zenon
    <3>7. QED
      BY <3>2, <3>3, <3>4, <3>5, <3>6 DEF Frame
  <2>3. ASSUME NEW layout \in Station, NEW g \in Frame \ own, layout \in s.met
        PROVE  Receive(layout, g) \in s.met
    <3>1. Receive(layout, g) \in Station
      BY ReceiveType
    <3>2. QED
      BY <1>1, <2>2, <2>3, <3>1
  <2> HIDE DEF f, own
  <2>4. QED
    BY <1>1, <2>1, <2>3 DEF Meets
<1>6. QED
  BY <1>3, <1>4, <1>5 DEF Proper, s

LEMMA PositionProper ==
  ASSUME NEW R \in Nat, NEW queued, NEW a \in Accessory, NEW p \in Position
  PROVE  Proper(PositionSubject(a, p, R), R, queued)
<1> DEFINE s == PositionSubject(a, p, R)
           f == Switch(a, p)
           own == {Switch(a, q) : q \in Position}
<1>1. /\ s.about = own /\ s.ends = {Off(a)} /\ s.wanted = f /\ s.rest = R + PulseSlots
      /\ s.renewals = Pulses(a, p, R)
      /\ s.met = {layout \in Station : layout.position[a] = p}
  BY DEF PositionSubject
<1>2. f \in own /\ f \in Frame
  BY FramesAreFrames
<1>3. Ends(s, R)
  BY PositionEnds
<1> HIDE DEF s
<1>4. Renews(s, R, queued)
  <2>1. ASSUME NEW e \in s.renewals
        PROVE  /\ e \in Entry(R) /\ Final(e) \in s.ends /\ e.now = FALSE
               /\ Len(e.slots) = R + PulseSlots + 1 => Head(e.slots) = Switch(a, p)
               /\ Len(e.slots) > 1 => [now |-> e.now, slots |-> Tail(e.slots)] \in s.renewals
    <3>1. e \in Pulses(a, p, R)
      BY <1>1, <2>1
    <3>2. /\ e \in Entry(R) /\ Final(e) = Off(a) /\ e.now = FALSE
          /\ Len(e.slots) = R + PulseSlots + 1 => Head(e.slots) = Switch(a, p)
          /\ Len(e.slots) > 1 => [now |-> e.now, slots |-> Tail(e.slots)] \in Pulses(a, p, R)
      <4>1. /\ e \in Entry(R) /\ Final(e) = Off(a) /\ e.now = FALSE
            /\ Len(e.slots) > 1 => [now |-> e.now, slots |-> Tail(e.slots)] \in Pulses(a, p, R)
        BY <3>1, OutputRenews, Zenon
      <4>2. Len(e.slots) = R + PulseSlots + 1 => Head(e.slots) = Switch(a, p)
        BY <3>1, OutputRenews, Zenon
      <4>3. QED
        BY <4>1, <4>2, Zenon
    <3>3. Off(a) \in s.ends
      BY <1>1
    <3>4. QED
      BY <1>1, <3>2, <3>3, Zenon
  <2>2. QED
    BY <1>1, <2>1, Zenon DEF Renews
<1>5. Meets(s)
  <2>1. ASSUME NEW layout \in Station
        PROVE  Receive(layout, f) \in s.met
    <3>1. Receive(layout, f) \in Station
      BY <1>2, ReceiveType
    <3>2. Receive(layout, f).position[a] = p
      BY ReceiveSwitch
    <3>3. QED
      BY <1>1, <3>1, <3>2
  <2>2. ASSUME NEW layout \in Station, NEW g \in Frame \ own
        PROVE  Receive(layout, g).position[a] = layout.position[a]
    <3>1. CASE g \in {Go, Stop, Other}
      BY <3>1, ReceiveCommand
    <3>2. ASSUME NEW l \in Loco, g = Toggle(l) \/ \E v \in Speed : g = SpeedFrame(l, v)
          PROVE  Receive(layout, g).position[a] = layout.position[a]
      BY <3>2, ReceiveSpeedFrame, ReceiveToggle
    <3>3. ASSUME NEW b \in Accessory, NEW q \in Position, g = Switch(b, q)
          PROVE  Receive(layout, g).position[a] = layout.position[a]
      <4>1. b # a
        BY <2>2, <3>3
      <4>2. QED
        BY <3>3, <4>1, ReceiveSwitch
    <3>4. ASSUME NEW b \in Accessory, g = Off(b)
          PROVE  Receive(layout, g).position[a] = layout.position[a]
      BY <3>4, ReceiveSwitch, ReceiveOff
    <3>5. QED
      BY <3>1, <3>2, <3>3, <3>4 DEF Frame
  <2>3. ASSUME NEW layout \in Station, NEW g \in Frame \ own, layout \in s.met
        PROVE  Receive(layout, g) \in s.met
    <3>1. Receive(layout, g) \in Station
      BY ReceiveType
    <3>2. QED
      BY <1>1, <2>2, <2>3, <3>1
  <2> HIDE DEF f, own
  <2>4. QED
    BY <1>1, <2>1, <2>3 DEF Meets
<1>6. QED
  BY <1>3, <1>4, <1>5 DEF Proper, s

LEMMA CoilProper ==
  ASSUME NEW R \in Nat, NEW queued, NEW a \in Accessory
  PROVE  Proper(CoilSubject(a, R), R, queued)
<1> DEFINE s == CoilSubject(a, R)
           f == Off(a)
           own == {Switch(a, q) : q \in Position} \cup {Off(a)}
<1>1. /\ s.about = own /\ s.ends = {Off(a)} /\ s.wanted = f /\ s.rest = 0
      /\ s.renewals = UNION {Pulses(a, p, R) : p \in Position}
      /\ s.met = {layout \in Station : ~layout.coil[a]}
  BY DEF CoilSubject
<1>2. f \in own /\ f \in Frame
  BY FramesAreFrames
<1>3. Ends(s, R)
  BY CoilEnds
<1> HIDE DEF s
<1>4. Renews(s, R, queued)
  <2>1. ASSUME NEW e \in s.renewals
        PROVE  /\ e \in Entry(R) /\ Final(e) = Off(a) /\ e.now = FALSE
               /\ Len(e.slots) = 1 => Head(e.slots) = Off(a)
               /\ Len(e.slots) > 1 => [now |-> e.now, slots |-> Tail(e.slots)] \in s.renewals
    <3>1. PICK p \in Position : e \in Pulses(a, p, R)
      BY <1>1, <2>1
    <3>2. /\ e \in Entry(R) /\ Final(e) = Off(a) /\ e.now = FALSE
          /\ Len(e.slots) = 1 => Head(e.slots) = Off(a)
          /\ Len(e.slots) > 1 => [now |-> e.now, slots |-> Tail(e.slots)] \in Pulses(a, p, R)
      BY <3>1, OutputRenews
    <3>3. QED
      BY <1>1, <3>2
  <2>2. \A e \in s.renewals : Len(e.slots) = s.rest + 1 => Len(e.slots) = 1
    BY <1>1
  <2>3. Off(a) \in s.ends /\ s.wanted = Off(a)
    BY <1>1
  <2>4. QED
    BY <2>1, <2>2, <2>3, Zenon DEF Renews
<1>5. Meets(s)
  <2>1. ASSUME NEW layout \in Station
        PROVE  Receive(layout, f) \in s.met
    <3>1. Receive(layout, f) \in Station
      BY <1>2, ReceiveType
    <3>2. Receive(layout, f).coil[a] = FALSE
      BY ReceiveOff
    <3>3. QED
      BY <1>1, <3>1, <3>2
  <2>2. ASSUME NEW layout \in Station, NEW g \in Frame \ own
        PROVE  Receive(layout, g).coil[a] = layout.coil[a]
    <3>1. CASE g \in {Go, Stop, Other}
      BY <3>1, ReceiveCommand
    <3>2. ASSUME NEW l \in Loco, g = Toggle(l) \/ \E v \in Speed : g = SpeedFrame(l, v)
          PROVE  Receive(layout, g).coil[a] = layout.coil[a]
      BY <3>2, ReceiveSpeedFrame, ReceiveToggle
    <3>3. ASSUME NEW b \in Accessory, NEW q \in Position, g = Switch(b, q)
          PROVE  Receive(layout, g).coil[a] = layout.coil[a]
      <4>1. b # a
        BY <2>2, <3>3
      <4>2. QED
        BY <3>3, <4>1, ReceiveSwitch
    <3>4. ASSUME NEW b \in Accessory, g = Off(b)
          PROVE  Receive(layout, g).coil[a] = layout.coil[a]
      <4>1. b # a
        BY <2>2, <3>4
      <4>2. QED
        BY <3>4, <4>1, ReceiveOff
    <3>5. QED
      BY <3>1, <3>2, <3>3, <3>4 DEF Frame
  <2>3. ASSUME NEW layout \in Station, NEW g \in Frame \ own, layout \in s.met
        PROVE  Receive(layout, g) \in s.met
    <3>1. Receive(layout, g) \in Station
      BY ReceiveType
    <3>2. QED
      BY <1>1, <2>2, <2>3, <3>1
  <2> HIDE DEF f, own
  <2>4. QED
    BY <1>1, <2>1, <2>3 DEF Meets
<1>6. QED
  BY <1>3, <1>4, <1>5 DEF Proper, s

-----------------------------------------------------------------------------
(* The three ways in which a step changes the kernel: a command is given,  *)
(* the next command takes its turn, or the queue's timer sends a frame.    *)

\* Only the calls may differ.
SameSends(k, n) ==
  n.queue = k.queue /\ n.repeating = k.repeating /\ n.station = k.station /\ n.lost = k.lost

Command(k, f, now, slots) == Repeat(IF now THEN WriteFrameNow(k, f) ELSE SendRaw(k, f), now, slots)

Drained(k, n) ==
  /\ k.queue # <<>> /\ n.queue = Tail(k.queue)
  /\ n.repeating = k.repeating /\ n.station = Receive(k.station, Head(k.queue)) /\ n.lost = k.lost

LEMMA SameTracks ==
  ASSUME NEW k, NEW n, NEW s, SameSends(k, n)
  PROVE  Tracks(n, s) <=> Tracks(k, s)
BY DEF SameSends, Tracks, Follows, Settled

LEMMA CommandEffect ==
  ASSUME NEW k, Good(k), NEW f \in Frame, NEW now \in BOOLEAN, NEW slots
  PROVE  \E m : /\ Good(m)
                /\ IF now THEN Writes(k, m, f) ELSE Sends(k, m, f, config.commandQueue)
                /\ Starts(m, Command(k, f, now, slots), now, slots)
<1>1. CASE now
  <2>1. Good(WriteFrameNow(k, f)) /\ Writes(k, WriteFrameNow(k, f), f)
    BY WriteGood, WriteEffect
  <2>2. Starts(WriteFrameNow(k, f), Repeat(WriteFrameNow(k, f), now, slots), now, slots)
    BY <2>1, RepeatEffect
  <2>3. QED
    BY <1>1, <2>1, <2>2 DEF Command
<1>2. CASE ~now
  <2>1. Good(SendRaw(k, f)) /\ Sends(k, SendRaw(k, f), f, config.commandQueue)
    BY SendGood, SendEffect
  <2>2. Starts(SendRaw(k, f), Repeat(SendRaw(k, f), now, slots), now, slots)
    BY <2>1, RepeatEffect
  <2>3. QED
    BY <1>2, <2>1, <2>2 DEF Command
<1>3. QED
  BY <1>1, <1>2

\* A command that is not about the subject.
LEMMA CommandOther ==
  ASSUME NEW R, NEW s, Proper(s, R, config.commandQueue), NEW k, Good(k),
         NEW f \in Frame \ s.about, NEW now \in BOOLEAN, NEW slots,
         slots # <<>> => Final([now |-> now, slots |-> slots]) \notin s.ends,
         Tracks(k, s)
  PROVE  Tracks(Command(k, f, now, slots), s)
<1> DEFINE n == Command(k, f, now, slots)
<1>1. PICK m : /\ Good(m)
               /\ IF now THEN Writes(k, m, f) ELSE Sends(k, m, f, config.commandQueue)
               /\ Starts(m, n, now, slots)
  BY CommandEffect
<1>2. k \in KernelState /\ m \in KernelState
  BY <1>1 DEF Good, Fits
<1> HIDE DEF n
<1>3. SUFFICES ASSUME ~n.lost PROVE Follows(n, s)
  BY DEF Tracks, n
<1>4. ~m.lost /\ ~k.lost
  <2>1. n.lost = m.lost
    BY <1>1 DEF Starts
  <2>2. k.lost => m.lost
    BY <1>1 DEF Writes, Sends
  <2>3. QED
    BY <1>3, <2>1, <2>2
<1>5. Follows(k, s)
  BY <1>4 DEF Tracks
<1>6. m.repeating = k.repeating
  BY <1>1 DEF Writes, Sends
<1>7. ASSUME Settled(k, s) PROVE Settled(m, s)
  BY <1>1, <1>2, <1>4, <1>7, SettledOther
<1>8. Follows(m, s)
  BY <1>5, <1>6, <1>7 DEF Follows
<1>9. QED
  BY <1>1, <1>2, <1>8, StartOther

\* The command is the newest about the subject; its first frame is the wanted one unless
\* that follows.
Asks(s, f, now, slots) ==
  /\ s.most <= s.rest => f = s.wanted /\ (now => ~config.commandQueue)
  /\ IF slots = <<>> THEN s.most = 0
     ELSE [now |-> now, slots |-> slots] \in s.renewals /\ Len(slots) = s.most

LEMMA CommandOwn ==
  ASSUME NEW R, NEW s, config.commandQueue \in BOOLEAN, Proper(s, R, config.commandQueue),
         NEW k, Good(k), Shaped(k, R, config.commandQueue),
         NEW f \in Frame, NEW now \in BOOLEAN, NEW slots,
         Asks(s, f, now, slots)
  PROVE  Tracks(Command(k, f, now, slots), s)
<1> DEFINE n == Command(k, f, now, slots)
<1>1. PICK m : /\ Good(m)
               /\ IF now THEN Writes(k, m, f) ELSE Sends(k, m, f, config.commandQueue)
               /\ Starts(m, n, now, slots)
  BY CommandEffect
<1>2. k \in KernelState /\ m \in KernelState
  BY <1>1 DEF Good, Fits
<1> HIDE DEF n
<1>3. SUFFICES ASSUME ~n.lost PROVE Follows(n, s)
  BY DEF Tracks, n
<1>4. ~m.lost
  BY <1>1, <1>3 DEF Starts
<1>5. m.repeating = k.repeating /\ (~config.commandQueue => m.queue = k.queue)
  BY <1>1 DEF Writes, Sends
<1>6. Shaped(m, R, config.commandQueue)
  BY <1>5 DEF Shaped
<1>7. ASSUME s.most <= s.rest PROVE Settled(m, s)
  <2>1. \/ Writes(k, m, s.wanted) /\ ~config.commandQueue
        \/ Sends(k, m, s.wanted, config.commandQueue) /\ ~m.lost
    BY <1>1, <1>4, <1>7 DEF Asks
  <2>2. ~config.commandQueue => k.queue = <<>>
    BY DEF Shaped
  <2>3. QED
    BY <1>2, <2>1, <2>2, SettledWanted
<1>8. QED
  BY <1>1, <1>2, <1>6, <1>7, StartOwn DEF Asks

LEMMA CommandShaped ==
  ASSUME NEW R, NEW k, Good(k), Shaped(k, R, config.commandQueue),
         NEW f \in Frame, NEW now \in BOOLEAN, NEW slots,
         slots # <<>> => [now |-> now, slots |-> slots] \in Entry(R)
  PROVE  Shaped(Command(k, f, now, slots), R, config.commandQueue)
<1> DEFINE n == Command(k, f, now, slots)
<1>1. PICK m : /\ Good(m)
               /\ IF now THEN Writes(k, m, f) ELSE Sends(k, m, f, config.commandQueue)
               /\ Starts(m, n, now, slots)
  BY CommandEffect
<1>2. k.repeating \in Seq(Repeating)
  BY DEF Good, Fits, KernelState
<1> HIDE DEF n
<1>3. m.repeating = k.repeating /\ (~config.commandQueue => m.queue = k.queue)
  BY <1>1 DEF Writes, Sends
<1>4. \A i \in DOMAIN n.repeating : n.repeating[i] \in Entry(R)
  BY <1>1, <1>2, <1>3 DEF Starts, Shaped
<1>5. Shaped(n, R, config.commandQueue)
  BY <1>1, <1>3, <1>4 DEF Starts, Shaped
<1>6. QED
  BY <1>5 DEF n

\* The calls that are queued stay queued.
LEMMA CommandCalls ==
  ASSUME NEW k, Good(k), NEW f \in Frame, NEW now \in BOOLEAN, NEW slots
  PROVE  CallsKept(k, Command(k, f, now, slots))
<1> DEFINE n == Command(k, f, now, slots)
<1>1. PICK m : /\ IF now THEN Writes(k, m, f) ELSE Sends(k, m, f, config.commandQueue)
               /\ Starts(m, n, now, slots)
  BY CommandEffect
<1> HIDE DEF n
<1>2. CallsKept(k, n)
  BY <1>1 DEF Writes, Sends, Starts, CallsKept
<1>3. QED
  BY <1>2 DEF n

LEMMA TurnShaped ==
  ASSUME NEW R \in Nat, NEW k \in KernelState, Shaped(k, R, config.commandQueue), k.repeating # <<>>,
         NEW n, TurnSends(k, n, config.commandQueue)
  PROVE  Shaped(n, R, config.commandQueue)
<1> DEFINE left == [now |-> k.repeating[1].now, slots |-> Tail(k.repeating[1].slots)]
           m == [k EXCEPT !.repeating = Turned(@)]
<1>1. k.repeating \in Seq(Repeating) /\ 1 \in DOMAIN k.repeating
  BY DEF KernelState
<1>2. /\ Turned(k.repeating) \in Seq(Repeating)
      /\ \A i \in DOMAIN Turned(k.repeating) :
           \/ \E j \in DOMAIN k.repeating : Turned(k.repeating)[i] = k.repeating[j]
           \/ Turned(k.repeating)[i] = left /\ Len(k.repeating[1].slots) # 1
  BY <1>1, TurnedRest
<1>3. Len(k.repeating[1].slots) # 1 => left \in Entry(R)
  BY <1>1, EntryTail DEF Shaped
<1>4. m.repeating = Turned(k.repeating) /\ m.queue = k.queue
  BY DEF KernelState
<1> HIDE DEF left
<1>5. Shaped(m, R, config.commandQueue)
  BY <1>2, <1>3, <1>4 DEF Shaped
<1>6. n.repeating = m.repeating /\ (~config.commandQueue => n.queue = m.queue)
  <2> HIDE DEF m
  <2>1. n = m \/ \E f : Writes(m, n, f) \/ Sends(m, n, f, config.commandQueue)
    BY DEF TurnSends, m
  <2>2. QED
    BY <2>1 DEF Writes, Sends
<1>7. QED
  BY <1>5, <1>6 DEF Shaped

LEMMA TurnTracks ==
  ASSUME NEW R, config.commandQueue \in BOOLEAN, NEW s, Proper(s, R, config.commandQueue),
         NEW k \in KernelState, Shaped(k, R, config.commandQueue), k.repeating # <<>>,
         NEW n, TurnSends(k, n, config.commandQueue), Tracks(k, s)
  PROVE  Tracks(n, s)
<1>1. k.lost => n.lost
  <2> DEFINE m == [k EXCEPT !.repeating = Turned(@)]
  <2>1. m.lost = k.lost
    BY DEF KernelState
  <2>2. n = m \/ \E f : Writes(m, n, f) \/ Sends(m, n, f, config.commandQueue)
    BY DEF TurnSends
  <2> HIDE DEF m
  <2>3. QED
    BY <2>1, <2>2 DEF Writes, Sends
<1>2. QED
  BY <1>1, TurnFollows DEF Tracks

LEMMA DrainShaped ==
  ASSUME NEW R, NEW k \in KernelState, Shaped(k, R, config.commandQueue), NEW n, Drained(k, n)
  PROVE  Shaped(n, R, config.commandQueue)
BY DEF Shaped, Drained

LEMMA DrainTracks ==
  ASSUME NEW R, NEW s, Proper(s, R, config.commandQueue), NEW k \in KernelState,
         NEW n, Drained(k, n), Tracks(k, s)
  PROVE  Tracks(n, s)
BY DrainFollows DEF Tracks, Drained

-----------------------------------------------------------------------------
(* Directions. The station has a loco's direction when an even number of   *)
(* toggles is still to be sent to it.                                      *)

Pending(k, l) == Count(k.queue, Toggle(l)) + Count(k.repeating, ToggleEntry(l))
Even(n) == n % 2 = 0
Turns(k, l, forward) == ~k.lost => (k.station.forward[l] = forward <=> Even(Pending(k, l)))

LEMMA EvenNext == \A n \in Nat : Even(n + 1) <=> ~Even(n)
BY DEF Even

LEMMA PendingType ==
  ASSUME NEW k \in KernelState, NEW l
  PROVE  /\ Count(k.queue, Toggle(l)) \in Nat /\ Count(k.repeating, ToggleEntry(l)) \in Nat
         /\ Pending(k, l) \in Nat
<1>1. k.queue \in Seq(Frame) /\ k.repeating \in Seq(Repeating)
  BY DEF KernelState
<1>2. Count(k.queue, Toggle(l)) \in Nat /\ Count(k.repeating, ToggleEntry(l)) \in Nat
  BY <1>1, PositionsFinite
<1>3. QED
  BY <1>2 DEF Pending

\* Only a toggle changes the direction, and only that of its loco.
LEMMA ReceiveForward ==
  ASSUME NEW s \in Station, NEW f \in Frame, NEW l \in Loco
  PROVE  /\ f # Toggle(l) => Receive(s, f).forward[l] = s.forward[l]
         /\ f = Toggle(l) => Receive(s, f).forward[l] = ~s.forward[l]
<1>1. CASE f = Toggle(l)
  BY <1>1, ReceiveToggle
<1>2. SUFFICES ASSUME f # Toggle(l) PROVE Receive(s, f).forward[l] = s.forward[l]
  BY <1>1
<1>3. f \in {Go, Stop, Other} => Receive(s, f).forward[l] = s.forward[l]
  BY ReceiveCommand
<1>4. \A k \in Loco, v \in Speed : f = SpeedFrame(k, v) => Receive(s, f).forward[l] = s.forward[l]
  BY ReceiveSpeedFrame
<1>5. \A k \in Loco : f = Toggle(k) => Receive(s, f).forward[l] = s.forward[l]
  <2>1. SUFFICES ASSUME NEW k \in Loco, f = Toggle(k) PROVE Receive(s, f).forward[l] = s.forward[l]
    OBVIOUS
  <2>2. k # l
    BY <1>2, <2>1
  <2>3. QED
    BY <2>1, <2>2, ReceiveToggle
<1>6. ASSUME NEW a \in Accessory, NEW p \in Position, f = Switch(a, p)
      PROVE  Receive(s, f).forward[l] = s.forward[l]
  <2>1. Receive(s, Switch(a, p)).forward = s.forward
    BY ReceiveSwitch
  <2>2. QED
    BY <1>6, <2>1
<1>7. ASSUME NEW a \in Accessory, f = Off(a)
      PROVE  Receive(s, f).forward[l] = s.forward[l]
  BY <1>7, ReceiveOff
<1>8. QED
  BY <1>3, <1>4, <1>5, <1>6, <1>7 DEF Frame

\* A toggle that is sent is pending or has turned the loco.
LEMMA SendTurns ==
  ASSUME NEW k \in KernelState, NEW m, NEW f \in Frame, NEW l \in Loco,
         NEW forward \in BOOLEAN, NEW after \in BOOLEAN, after = forward <=> f # Toggle(l),
         Writes(k, m, f) \/ Sends(k, m, f, config.commandQueue),
         Turns(k, l, forward)
  PROVE  Turns(m, l, after)
<1>1. /\ k.station \in Station /\ k.station.forward[l] \in BOOLEAN
      /\ k.queue \in Seq(Frame)
  BY DEF KernelState, Station
<1>2. Pending(k, l) \in Nat /\ Count(k.queue, Toggle(l)) \in Nat
      /\ Count(k.repeating, ToggleEntry(l)) \in Nat
  BY PendingType
<1>3. SUFFICES ASSUME ~m.lost
               PROVE  m.station.forward[l] = after <=> Even(Pending(m, l))
  BY DEF Turns
<1>4. k.station.forward[l] = forward <=> Even(Pending(k, l))
  BY <1>3 DEF Turns, Writes, Sends
<1>5. CASE m.queue = k.queue /\ m.repeating = k.repeating /\ m.station = Receive(k.station, f)
  <2>1. Pending(m, l) = Pending(k, l)
    BY <1>5 DEF Pending
  <2>2. CASE f = Toggle(l)
    <3>1. m.station.forward[l] = ~k.station.forward[l]
      BY <1>1, <1>5, <2>2, ReceiveForward
    <3>2. QED
      BY <1>1, <1>4, <2>1, <2>2, <3>1
  <2>3. CASE f # Toggle(l)
    <3>1. m.station.forward[l] = k.station.forward[l]
      BY <1>1, <1>5, <2>3, ReceiveForward
    <3>2. QED
      BY <1>4, <2>1, <2>3, <3>1
  <2>4. QED
    BY <2>2, <2>3
<1>6. CASE m.queue = Append(k.queue, f) /\ m.repeating = k.repeating /\ m.station = k.station
  <2>1. Count(m.queue, Toggle(l)) = Count(k.queue, Toggle(l)) + (IF f = Toggle(l) THEN 1 ELSE 0)
    BY <1>1, <1>6, CountAppend
  <2>2. Pending(m, l) = Pending(k, l) + (IF f = Toggle(l) THEN 1 ELSE 0)
    BY <1>2, <1>6, <2>1 DEF Pending
  <2>3. CASE f = Toggle(l)
    <3>1. Even(Pending(m, l)) <=> ~Even(Pending(k, l))
      BY <1>2, <2>2, <2>3, EvenNext
    <3>2. QED
      BY <1>1, <1>4, <1>6, <2>3, <3>1
  <2>4. CASE f # Toggle(l)
    <3>1. Pending(m, l) = Pending(k, l)
      BY <1>2, <2>2, <2>4
    <3>2. QED
      BY <1>4, <1>6, <2>4, <3>1
  <2>5. QED
    BY <2>3, <2>4
<1>7. QED
  BY <1>3, <1>5, <1>6 DEF Writes, Sends

LEMMA StartTurns ==
  ASSUME NEW k \in KernelState, NEW n, NEW now \in BOOLEAN, NEW slots \in Seq(Frame \cup {Pause}),
         Starts(k, n, now, slots), NEW l \in Loco,
         NEW forward \in BOOLEAN, NEW after \in BOOLEAN,
         after = forward <=> [now |-> now, slots |-> slots] # ToggleEntry(l),
         Turns(k, l, forward)
  PROVE  Turns(n, l, after)
<1> DEFINE e == [now |-> now, slots |-> slots]
<1>1. k.repeating \in Seq(Repeating) /\ k.station.forward[l] \in BOOLEAN
  BY DEF KernelState, Station
<1>2. Pending(k, l) \in Nat /\ Count(k.queue, Toggle(l)) \in Nat
      /\ Count(k.repeating, ToggleEntry(l)) \in Nat
  BY PendingType
<1>3. n.queue = k.queue /\ n.station = k.station /\ n.lost = k.lost
  BY DEF Starts
<1>4. after = forward <=> e # ToggleEntry(l)
  OBVIOUS
<1>5. CASE slots = <<>>
  <2>1. e # ToggleEntry(l)
    BY <1>5 DEF ToggleEntry
  <2>2. n.repeating = k.repeating
    BY <1>5 DEF Starts
  <2>3. after = forward
    BY <2>1
  <2>4. QED
    BY <1>3, <2>2, <2>3 DEF Turns, Pending
<1>6. CASE slots # <<>>
  <2>1. n.repeating = Append(k.repeating, e) /\ e \in Repeating
    BY <1>6 DEF Starts, Repeating
  <2> HIDE DEF e
  <2>2. Count(n.repeating, ToggleEntry(l)) =
          Count(k.repeating, ToggleEntry(l)) + (IF e = ToggleEntry(l) THEN 1 ELSE 0)
    BY <1>1, <2>1, CountAppend
  <2>3. Pending(n, l) = Pending(k, l) + (IF e = ToggleEntry(l) THEN 1 ELSE 0)
    BY <1>2, <1>3, <2>2 DEF Pending
  <2>4. CASE e = ToggleEntry(l)
    <3>1. Even(Pending(n, l)) <=> ~Even(Pending(k, l))
      BY <1>2, <2>3, <2>4, EvenNext
    <3>2. after = ~forward
      BY <1>4, <2>4
    <3>3. QED
      BY <1>1, <1>3, <3>1, <3>2 DEF Turns
  <2>5. CASE e # ToggleEntry(l)
    <3>1. Pending(n, l) = Pending(k, l)
      BY <1>2, <2>3, <2>5
    <3>2. QED
      BY <1>3, <1>4, <2>5, <3>1 DEF Turns
  <2>6. QED
    BY <2>4, <2>5
<1>7. QED
  BY <1>5, <1>6

\* A toggle is repeated once, by a command of its own.
LEMMA ToggleAlone ==
  ASSUME NEW R \in Nat, NEW e \in Entry(R), NEW l \in Loco
  PROVE  /\ Head(e.slots) = Toggle(l) => e = ToggleEntry(l)
         /\ Final(e) = Toggle(l) => Len(e.slots) = 1
<1>1. /\ \A k, v : SpeedFrame(k, v) # Toggle(l)
      /\ Toggle(l) \notin {Go, Stop, Other, Pause}
      /\ \A a : Off(a) # Toggle(l) /\ \A p : Switch(a, p) # Toggle(l)
  BY FrameContents, PauseIsNoFrame
<1>2. Toggle(l) \notin Plain
  BY <1>1 DEF Plain
<1>3. \/ Final(e) \in Plain \cup {Stop} /\ Head(e.slots) \in Plain \cup {Stop}
      \/ Len(e.slots) = 1 /\ Final(e) = Head(e.slots)
      \/ \E a \in Accessory, p \in Position :
           Final(e) = Off(a) /\ Head(e.slots) \in {Switch(a, p), Pause, Off(a)}
  BY EntryCases
<1>4. Final(e) = Toggle(l) => Len(e.slots) = 1
  BY <1>1, <1>2, <1>3
<1>5. ASSUME Head(e.slots) = Toggle(l) PROVE e = ToggleEntry(l)
  <2>1. Final(e) = Toggle(l)
    BY <1>1, <1>2, <1>3, <1>5
  <2>2. e \notin PlainEntry(R)
    <3>1. ASSUME NEW f \in Plain, e \in Repeats(FALSE, f, R) PROVE FALSE
      BY <1>2, <2>1, <3>1, PlainRenews
    <3>2. QED
      BY <3>1 DEF PlainEntry
  <2>3. e \notin StopEntry(R)
    BY <1>1, <2>1, StopRenews DEF StopEntry
  <2>4. e \notin OutputEntry(R)
    <3>1. ASSUME NEW a \in Accessory, NEW p \in Position, e \in Pulses(a, p, R) PROVE FALSE
      <4>1. Final(e) = Off(a)
        BY <3>1, OutputRenews
      <4>2. QED
        BY <1>1, <2>1, <4>1
    <3>2. QED
      BY <3>1 DEF OutputEntry
  <2>5. PICK k \in Loco : e = ToggleEntry(k)
    BY <2>2, <2>3, <2>4 DEF Entry
  <2>6. Head(e.slots) = Toggle(k)
    BY <2>5 DEF ToggleEntry
  <2>7. k = l
    BY <1>5, <2>6, FrameContents
  <2>8. QED
    BY <2>5, <2>7
<1>6. QED
  BY <1>4, <1>5

\* The command whose turn it is counts no longer when it has sent its toggle.
LEMMA TurnedToggles ==
  ASSUME NEW R \in Nat, NEW k \in KernelState, Shaped(k, R, config.commandQueue),
         k.repeating # <<>>, NEW l \in Loco
  PROVE  Count(k.repeating, ToggleEntry(l)) =
           Count(Turned(k.repeating), ToggleEntry(l))
             + (IF k.repeating[1] = ToggleEntry(l) THEN 1 ELSE 0)
<1> DEFINE r == k.repeating
           t == r[1]
           left == [now |-> t.now, slots |-> Tail(t.slots)]
<1>1. r \in Seq(Repeating) /\ 1 \in DOMAIN r /\ t = Head(r) /\ Tail(r) \in Seq(Repeating)
      /\ t \in Repeating
  BY DEF KernelState
<1>2. t \in Entry(R)
  BY <1>1 DEF Shaped
<1>3. /\ Tail(t.slots) = <<>> <=> Len(t.slots) = 1
      /\ Len(t.slots) # 1 => Len(left.slots) = Len(t.slots) - 1 /\ Final(left) = Final(t)
      /\ t.slots \in Seq(Frame \cup {Pause})
  BY <1>1, SlotsLeft, Zenon
<1>4. Count(r, ToggleEntry(l)) =
        Count(Tail(r), ToggleEntry(l)) + (IF t = ToggleEntry(l) THEN 1 ELSE 0)
  BY <1>1, CountTail
<1>5. Count(Turned(r), ToggleEntry(l)) = Count(Tail(r), ToggleEntry(l))
  <2>1. CASE Tail(t.slots) = <<>>
    BY <1>1, <2>1 DEF Turned
  <2>2. CASE Tail(t.slots) # <<>>
    <3>1. left # ToggleEntry(l)
      <4>1. Final(ToggleEntry(l)) = Toggle(l)
        BY DEF ToggleEntry, Final
      <4>2. Final(t) # Toggle(l)
        BY <1>2, <1>3, <2>2, ToggleAlone
      <4>3. QED
        BY <1>3, <2>2, <4>1, <4>2
    <3>2. left \in Repeating /\ Turned(r) = Append(Tail(r), left)
      <4>1. Turned(r) = Append(Tail(r), left)
        BY <1>1, <2>2 DEF Turned
      <4>2. left \in Repeating
        BY <1>1, <1>3, <2>2 DEF Repeating
      <4>3. QED
        BY <4>1, <4>2
    <3> DEFINE rest == Tail(r)
    <3>3. rest \in Seq(Repeating) /\ left \in Repeating
      BY <1>1, <3>2
    <3> HIDE DEF left, rest
    <3>4. Count(Append(rest, left), ToggleEntry(l)) =
            Count(rest, ToggleEntry(l)) + (IF left = ToggleEntry(l) THEN 1 ELSE 0)
      BY <3>3, CountAppend
    <3>5. Count(rest, ToggleEntry(l)) \in Nat
      BY <3>3, PositionsFinite
    <3>6. Count(Append(rest, left), ToggleEntry(l)) = Count(rest, ToggleEntry(l))
      BY <3>1, <3>4, <3>5
    <3>7. QED
      BY <3>2, <3>6 DEF rest
  <2>3. QED
    BY <2>1, <2>2
<1>6. QED
  BY <1>4, <1>5

LEMMA TurnTurns ==
  ASSUME NEW R \in Nat, NEW k \in KernelState, Shaped(k, R, config.commandQueue), k.repeating # <<>>,
         NEW n, TurnSends(k, n, config.commandQueue),
         NEW l \in Loco, NEW forward \in BOOLEAN, Turns(k, l, forward)
  PROVE  Turns(n, l, forward)
<1> DEFINE t == k.repeating[1]
           f == Head(t.slots)
           m == [k EXCEPT !.repeating = Turned(@)]
<1>1. k.repeating \in Seq(Repeating) /\ 1 \in DOMAIN k.repeating /\ t = Head(k.repeating)
      /\ t \in Repeating
  BY DEF KernelState
<1>2. Turned(k.repeating) \in Seq(Repeating)
  BY <1>1, TurnedRest, Zenon
<1>3. /\ m \in KernelState /\ m.queue = k.queue /\ m.repeating = Turned(k.repeating)
      /\ m.station = k.station /\ m.lost = k.lost
  BY <1>2 DEF KernelState
<1>4. f \in Frame \cup {Pause} /\ t.now \in BOOLEAN
  BY <1>1 DEF Repeating
<1>5. IF f = Pause THEN n = m
      ELSE IF t.now THEN Writes(m, n, f) ELSE Sends(m, n, f, config.commandQueue)
  BY <1>1 DEF TurnSends
<1>6. t \in Entry(R)
  BY <1>1 DEF Shaped
<1>7. /\ Pending(k, l) \in Nat /\ Pending(m, l) \in Nat
      /\ k.station.forward[l] \in BOOLEAN
  BY <1>3, PendingType DEF KernelState, Station
<1>8. Pending(k, l) = Pending(m, l) + (IF t = ToggleEntry(l) THEN 1 ELSE 0)
  <2>1. Count(k.queue, Toggle(l)) \in Nat
        /\ Count(m.repeating, ToggleEntry(l)) \in Nat
    BY <1>3, PendingType
  <2>2. Count(k.repeating, ToggleEntry(l)) =
          Count(m.repeating, ToggleEntry(l)) + (IF t = ToggleEntry(l) THEN 1 ELSE 0)
    BY <1>3, TurnedToggles
  <2> HIDE DEF t, m
  <2>3. QED
    BY <1>3, <2>1, <2>2 DEF Pending
<1>9. CASE t = ToggleEntry(l)
  <2>1. f = Toggle(l) /\ t.now
    BY <1>9 DEF ToggleEntry
  <2>2. f # Pause /\ f \in Frame
    BY <2>1, FramesAreFrames, PauseIsNoFrame
  <2>3. Writes(m, n, f)
    BY <1>5, <2>1, <2>2
  <2> DEFINE back == ~forward
  <2>4. Turns(m, l, back) /\ back \in BOOLEAN
    <3>1. Even(Pending(k, l)) <=> ~Even(Pending(m, l))
      BY <1>7, <1>8, <1>9, EvenNext
    <3> HIDE DEF m
    <3>2. QED
      BY <1>3, <1>7, <3>1 DEF Turns
  <2>5. forward = back <=> f # Toggle(l)
    BY <2>1
  <2> HIDE DEF m, t, f, back
  <2>6. QED
    BY <1>3, <2>2, <2>3, <2>4, <2>5, SendTurns
<1>10. CASE t # ToggleEntry(l)
  <2>1. f # Toggle(l)
    BY <1>6, <1>10, ToggleAlone
  <2>2. Turns(m, l, forward)
    <3> HIDE DEF m
    <3>1. Pending(m, l) = Pending(k, l)
      BY <1>7, <1>8, <1>10
    <3>2. QED
      BY <1>3, <3>1 DEF Turns
  <2> HIDE DEF m, t, f
  <2>3. CASE f = Pause
    BY <1>5, <2>2, <2>3
  <2>4. CASE f # Pause
    <3>1. Writes(m, n, f) \/ Sends(m, n, f, config.commandQueue)
      BY <1>5, <2>4
    <3>2. f \in Frame
      BY <1>4, <2>4
    <3>3. m \in KernelState /\ (forward = forward <=> f # Toggle(l))
      BY <1>3, <2>1
    <3>4. QED
      BY <2>2, <3>1, <3>2, <3>3, SendTurns
  <2>5. QED
    BY <2>3, <2>4
<1>11. QED
  BY <1>9, <1>10

LEMMA DrainTurns ==
  ASSUME NEW k \in KernelState, NEW n, Drained(k, n),
         NEW l \in Loco, NEW forward \in BOOLEAN, Turns(k, l, forward)
  PROVE  Turns(n, l, forward)
<1> DEFINE f == Head(k.queue)
<1>1. /\ k.queue \in Seq(Frame) /\ k.queue # <<>> /\ f \in Frame /\ Tail(k.queue) \in Seq(Frame)
      /\ k.station \in Station /\ k.station.forward[l] \in BOOLEAN
  BY DEF KernelState, Station, Drained
<1>2. Count(k.queue, Toggle(l)) = Count(n.queue, Toggle(l)) + (IF f = Toggle(l) THEN 1 ELSE 0)
  BY <1>1, CountTail DEF Drained
<1>3. Count(n.queue, Toggle(l)) \in Nat /\ Count(k.repeating, ToggleEntry(l)) \in Nat
  BY <1>1, PendingType, PositionsFinite DEF Drained
<1> HIDE DEF f
<1>4. Pending(k, l) = Pending(n, l) + (IF f = Toggle(l) THEN 1 ELSE 0) /\ Pending(n, l) \in Nat
  BY <1>2, <1>3 DEF Pending, Drained
<1>5. n.station = Receive(k.station, f) /\ n.lost = k.lost
  BY DEF Drained, f
<1>6. SUFFICES ASSUME ~n.lost
               PROVE  n.station.forward[l] = forward <=> Even(Pending(n, l))
  BY DEF Turns
<1>7. k.station.forward[l] = forward <=> Even(Pending(k, l))
  BY <1>5, <1>6 DEF Turns
<1>8. CASE f = Toggle(l)
  <2>1. n.station.forward[l] = ~k.station.forward[l]
    BY <1>1, <1>5, <1>8, ReceiveForward
  <2>2. Even(Pending(k, l)) <=> ~Even(Pending(n, l))
    BY <1>4, <1>8, EvenNext
  <2>3. QED
    BY <1>1, <1>7, <2>1, <2>2
<1>9. CASE f # Toggle(l)
  <2>1. n.station.forward[l] = k.station.forward[l]
    BY <1>1, <1>5, <1>9, ReceiveForward
  <2>2. Pending(k, l) = Pending(n, l)
    BY <1>4, <1>9
  <2>3. QED
    BY <1>7, <2>1, <2>2
<1>10. QED
  BY <1>8, <1>9

-----------------------------------------------------------------------------
(* What a command leaves alone. The last of its slots is g when it has any.*)

Ending(now, slots, g) == slots # <<>> => Final([now |-> now, slots |-> slots]) = g

LEMMA CommandPower ==
  ASSUME NEW R \in Nat, NEW k, Good(k), NEW f \in Neutral, NEW g \in Neutral,
         NEW now \in BOOLEAN, NEW slots, Ending(now, slots, g),
         NEW c \in {Go, Stop}, c = Go \/ ~config.commandQueue,
         Tracks(k, PowerSubject(c, R))
  PROVE  Tracks(Command(k, f, now, slots), PowerSubject(c, R))
<1> DEFINE s == PowerSubject(c, R)
<1>1. Proper(s, R, config.commandQueue)
  BY PowerProper
<1>2. s.about = {Go, Stop} /\ s.ends = {Go, Stop}
  BY DEF PowerSubject
<1>3. Tracks(k, s)
  OBVIOUS
<1> HIDE DEF s
<1>4. f \in Frame \ s.about
  BY <1>2 DEF Neutral
<1>5. slots # <<>> => Final([now |-> now, slots |-> slots]) \notin s.ends
  BY <1>2 DEF Ending, Neutral
<1>6. Tracks(Command(k, f, now, slots), s)
  BY <1>1, <1>3, <1>4, <1>5, CommandOther
<1>7. QED
  BY <1>6 DEF s

LEMMA CommandSpeed ==
  ASSUME NEW R \in Nat, NEW k, Good(k), NEW f \in Frame, NEW g,
         NEW now \in BOOLEAN, NEW slots, Ending(now, slots, g),
         NEW l \in Loco, NEW v \in Speed,
         \A u \in Speed : f # SpeedFrame(l, u) /\ g # SpeedFrame(l, u),
         Tracks(k, SpeedSubject(l, v, R))
  PROVE  Tracks(Command(k, f, now, slots), SpeedSubject(l, v, R))
<1> DEFINE s == SpeedSubject(l, v, R)
<1>1. Proper(s, R, config.commandQueue)
  BY SpeedProper
<1>2. f \notin s.about /\ g \notin s.ends
  BY DEF SpeedSubject
<1>3. Tracks(k, s)
  OBVIOUS
<1> HIDE DEF s
<1>4. f \in Frame \ s.about
  BY <1>2
<1>5. slots # <<>> => Final([now |-> now, slots |-> slots]) \notin s.ends
  BY <1>2 DEF Ending
<1>6. Tracks(Command(k, f, now, slots), s)
  BY <1>1, <1>3, <1>4, <1>5, CommandOther
<1>7. QED
  BY <1>6 DEF s

LEMMA CommandOutput ==
  ASSUME NEW R \in Nat, NEW k, Good(k), NEW f \in Frame, NEW g,
         NEW now \in BOOLEAN, NEW slots, Ending(now, slots, g),
         NEW a \in Accessory, NEW p \in Position,
         f # Off(a) /\ g # Off(a) /\ \A q \in Position : f # Switch(a, q),
         Tracks(k, PositionSubject(a, p, R)), Tracks(k, CoilSubject(a, R))
  PROVE  /\ Tracks(Command(k, f, now, slots), PositionSubject(a, p, R))
         /\ Tracks(Command(k, f, now, slots), CoilSubject(a, R))
<1> DEFINE s == PositionSubject(a, p, R)
           c == CoilSubject(a, R)
<1>1. Proper(s, R, config.commandQueue) /\ Proper(c, R, config.commandQueue)
  BY PositionProper, CoilProper
<1>2. f \notin s.about /\ g \notin s.ends /\ f \notin c.about /\ g \notin c.ends
  BY DEF PositionSubject, CoilSubject
<1>3. Tracks(k, s) /\ Tracks(k, c)
  OBVIOUS
<1> HIDE DEF s, c
<1>4. f \in Frame \ s.about /\ f \in Frame \ c.about
  BY <1>2
<1>5. slots # <<>> => /\ Final([now |-> now, slots |-> slots]) \notin s.ends
                      /\ Final([now |-> now, slots |-> slots]) \notin c.ends
  BY <1>2 DEF Ending
<1>6. Tracks(Command(k, f, now, slots), s)
  BY <1>1, <1>3, <1>4, <1>5, CommandOther
<1>7. Tracks(Command(k, f, now, slots), c)
  BY <1>1, <1>3, <1>4, <1>5, CommandOther
<1>8. QED
  BY <1>6, <1>7 DEF s, c

\* A command is given with at most one toggle now and one that is repeated.
LEMMA CommandTurns ==
  ASSUME NEW k, Good(k), NEW f \in Frame, NEW now \in BOOLEAN,
         NEW slots \in Seq(Frame \cup {Pause}),
         NEW l \in Loco, NEW forward \in BOOLEAN, NEW between \in BOOLEAN, NEW after \in BOOLEAN,
         between = forward <=> f # Toggle(l),
         after = between <=> [now |-> now, slots |-> slots] # ToggleEntry(l),
         Turns(k, l, forward)
  PROVE  Turns(Command(k, f, now, slots), l, after)
<1> DEFINE n == Command(k, f, now, slots)
<1>1. PICK m : /\ Good(m)
               /\ IF now THEN Writes(k, m, f) ELSE Sends(k, m, f, config.commandQueue)
               /\ Starts(m, n, now, slots)
  BY CommandEffect
<1>2. k \in KernelState /\ m \in KernelState
  BY <1>1 DEF Good, Fits
<1> HIDE DEF n
<1>3. Writes(k, m, f) \/ Sends(k, m, f, config.commandQueue)
  BY <1>1
<1>4. Turns(m, l, between)
  BY <1>2, <1>3, SendTurns
<1>5. Turns(n, l, after)
  BY <1>1, <1>2, <1>4, StartTurns
<1>6. QED
  BY <1>5 DEF n

\* No command but a toggle turns a loco.
LEMMA CommandStraight ==
  ASSUME NEW k, Good(k), NEW f \in Frame, NEW g, NEW now \in BOOLEAN,
         NEW slots \in Seq(Frame \cup {Pause}), Ending(now, slots, g),
         NEW l \in Loco, NEW forward \in BOOLEAN, f # Toggle(l), g # Toggle(l),
         Turns(k, l, forward)
  PROVE  Turns(Command(k, f, now, slots), l, forward)
<1>1. [now |-> now, slots |-> slots] # ToggleEntry(l)
  <2>1. ToggleEntry(l).slots # <<>> /\ Final(ToggleEntry(l)) = Toggle(l)
    BY DEF ToggleEntry, Final
  <2>2. QED
    BY <2>1 DEF Ending
<1>2. QED
  BY <1>1, CommandTurns

-----------------------------------------------------------------------------
(* What the users have asked for last is on its way or has arrived.        *)

\* A go or a stop, unless the world has been powered off meanwhile and will be told so.
PowerTold(k, R, queued, on) ==
  \/ Untold(k)
  \/ on /\ Tracks(k, PowerSubject(Go, R))
  \/ /\ on => \E i \in DOMAIN k.calls : k.calls[i] = "powerOff"
     /\ ~queued => Tracks(k, PowerSubject(Stop, R))

\* The throttle; in an emergency stop any speed.
SpeedTold(k, R, d) ==
  \A l \in Loco : \E v \in Speed : /\ ~d[l].emergencyStop => v = d[l].throttle
                                   /\ Tracks(k, SpeedSubject(l, v, R))

ForwardTold(k, d) == \A l \in Loco : Turns(k, l, d[l].forward)

OutputTold(k, R, o) ==
  \A a \in Accessory : Tracks(k, PositionSubject(a, o[a], R)) /\ Tracks(k, CoilSubject(a, R))

Synced(k, R, queued, on, d, o) ==
  /\ Shaped(k, R, queued) /\ PowerTold(k, R, queued, on)
  /\ SpeedTold(k, R, d) /\ ForwardTold(k, d) /\ OutputTold(k, R, o)

\* The strengthening of TrackInSync, LocoInSync and AccessoryInSync that is inductive.
SyncInv ==
  online => Synced(Kernel, config.redundancy, config.commandQueue, power, decoder, output)

-----------------------------------------------------------------------------
LEMMA InitSynced == Init => SyncInv
<1> SUFFICES ASSUME Init
             PROVE  Synced(Kernel, config.redundancy, config.commandQueue, power, decoder, output)
  BY DEF SyncInv
<1>1. /\ Kernel.queue = <<>> /\ Kernel.repeating = <<>> /\ Kernel.station = station
      /\ Kernel.lost = FALSE
  BY DEF Init, Kernel
<1>2. Kernel \in KernelState /\ station \in Station
  BY InitInv, InvSplit DEF SendInv, Fits, KernelState, Kernel
<1>3. ASSUME NEW s, station \in s.met PROVE Tracks(Kernel, s)
  BY <1>1, <1>3 DEF Tracks, Follows, Settled
<1>4. Shaped(Kernel, config.redundancy, config.commandQueue)
  BY <1>1 DEF Shaped
<1>5. PowerTold(Kernel, config.redundancy, config.commandQueue, power)
  BY <1>1 DEF Init, PowerTold, Untold
<1>6. SpeedTold(Kernel, config.redundancy, decoder)
  <2>1. SUFFICES ASSUME NEW l \in Loco
                 PROVE  /\ 0 \in Speed /\ decoder[l].throttle = 0
                        /\ Tracks(Kernel, SpeedSubject(l, 0, config.redundancy))
    BY DEF SpeedTold
  <2>2. 0 \in Speed /\ decoder[l].throttle = 0 /\ station.speed[l] = 0
    BY ConfigAssumption DEF Init
  <2>3. station \in SpeedSubject(l, 0, config.redundancy).met
    BY <1>2, <2>2 DEF SpeedSubject
  <2>4. QED
    BY <1>3, <2>2, <2>3
<1>7. ForwardTold(Kernel, decoder)
  <2>1. SUFFICES ASSUME NEW l \in Loco PROVE Turns(Kernel, l, decoder[l].forward)
    BY DEF ForwardTold
  <2>2. station.forward[l] = TRUE /\ decoder[l].forward = TRUE
    BY DEF Init
  <2>3. ASSUME NEW x PROVE Count(<<>>, x) = 0
    BY FS_EmptySet DEF Count, Positions
  <2>4. Pending(Kernel, l) = 0
    BY <1>1, <2>3 DEF Pending
  <2>5. Even(0)
    BY DEF Even
  <2>6. Kernel.station.forward[l] = decoder[l].forward
    BY <1>1, <2>2
  <2>7. QED
    BY <2>4, <2>5, <2>6 DEF Turns
<1>8. OutputTold(Kernel, config.redundancy, output)
  <2>1. SUFFICES ASSUME NEW a \in Accessory
                 PROVE  /\ Tracks(Kernel, PositionSubject(a, output[a], config.redundancy))
                        /\ Tracks(Kernel, CoilSubject(a, config.redundancy))
    BY DEF OutputTold
  <2>2. station.position[a] = output[a] /\ station.coil[a] = FALSE
    BY DEF Init
  <2>3. /\ station \in PositionSubject(a, output[a], config.redundancy).met
        /\ station \in CoilSubject(a, config.redundancy).met
    BY <1>2, <2>2 DEF PositionSubject, CoilSubject
  <2>4. QED
    BY <1>3, <2>3
<1>9. QED
  BY <1>4, <1>5, <1>6, <1>7, <1>8 DEF Synced

\* A handler's end.
LEMMA BecomesSynced ==
  ASSUME NEW n, Good(n), Becomes(n), config' = config,
         Synced(n, config.redundancy, config.commandQueue, power', decoder', output')
  PROVE  SyncInv'
<1>1. Kernel' = n
  BY DEF Good, Fits, Becomes, Kernel, KernelState
<1>2. QED
  BY <1>1 DEF SyncInv

\* When nothing is left to send, what was asked for has arrived.
LEMMA QuietSettled ==
  ASSUME Quiet, ~lost, NEW s, Tracks(Kernel, s)
  PROVE  station \in s.met
BY DEF Quiet, Tracks, Follows, Settled, Kernel

LEMMA SyncedInSync ==
  ASSUME SessionInv, SyncInv
  PROVE  TrackInSync /\ LocoInSync /\ AccessoryInSync
<1> DEFINE R == config.redundancy
<1>1. ASSUME Quiet PROVE Synced(Kernel, R, config.commandQueue, power, decoder, output)
  BY <1>1 DEF Quiet, SyncInv
<1>2. TrackInSync
  <2>1. SUFFICES ASSUME Quiet, loop = <<>>, ~lost, station.track # "unknown"
                 PROVE  /\ power => station.track = "on"
                        /\ ~config.commandQueue /\ ~power => station.track = "off"
    BY DEF TrackInSync
  <2>2. PowerTold(Kernel, R, config.commandQueue, power)
    BY <1>1, <2>1 DEF Synced
  <2>3. ~Untold(Kernel) /\ ~\E i \in DOMAIN Kernel.calls : Kernel.calls[i] = "powerOff"
    BY <2>1 DEF Untold, Kernel
  <2>4. Tracks(Kernel, PowerSubject(Go, R)) => station.track = "on"
    BY <2>1, QuietSettled DEF PowerSubject
  <2>5. Tracks(Kernel, PowerSubject(Stop, R)) => station.track = "off"
    <3>1. Stop # Go
      BY FrameContents
    <3>2. QED
      BY <2>1, <3>1, QuietSettled DEF PowerSubject
  <2>6. QED
    BY <2>2, <2>3, <2>4, <2>5 DEF PowerTold
<1>3. LocoInSync
  <2>1. SUFFICES ASSUME Quiet, ~lost, NEW l \in Loco
                 PROVE  /\ station.forward[l] = decoder[l].forward
                        /\ ~decoder[l].emergencyStop => station.speed[l] \in {0, decoder[l].throttle}
    BY DEF LocoInSync
  <2>2. Turns(Kernel, l, decoder[l].forward)
    BY <1>1, <2>1 DEF Synced, ForwardTold
  <2>3. Pending(Kernel, l) = 0
    <3>1. ASSUME NEW x PROVE Count(<<>>, x) = 0
      BY FS_EmptySet DEF Count, Positions
    <3>2. QED
      BY <2>1, <3>1 DEF Pending, Kernel, Quiet
  <2>4. station.forward[l] = decoder[l].forward
    BY <2>1, <2>2, <2>3 DEF Turns, Even, Kernel
  <2>5. PICK v \in Speed : /\ ~decoder[l].emergencyStop => v = decoder[l].throttle
                           /\ Tracks(Kernel, SpeedSubject(l, v, R))
    BY <1>1, <2>1 DEF Synced, SpeedTold
  <2>6. station \in SpeedSubject(l, v, R).met
    BY <2>1, <2>5, QuietSettled
  <2>7. station.speed[l] \in {0, v}
    BY <2>6 DEF SpeedSubject
  <2>8. QED
    BY <2>4, <2>5, <2>7
<1>4. AccessoryInSync
  <2>1. SUFFICES ASSUME Quiet, ~lost, NEW a \in Accessory
                 PROVE  ~station.coil[a] /\ station.position[a] = output[a]
    BY DEF AccessoryInSync
  <2>2. /\ Tracks(Kernel, PositionSubject(a, output[a], R))
        /\ Tracks(Kernel, CoilSubject(a, R))
    BY <1>1, <2>1 DEF Synced, OutputTold
  <2>3. station \in PositionSubject(a, output[a], R).met /\ station \in CoilSubject(a, R).met
    BY <2>1, <2>2, QuietSettled
  <2>4. QED
    BY <2>3 DEF PositionSubject, CoilSubject
<1>5. QED
  BY <1>2, <1>3, <1>4

-----------------------------------------------------------------------------
(* The steps of the timers and the monitor: nothing is asked for.          *)

Passes(k, n, R) ==
  /\ Shaped(n, R, config.commandQueue) /\ CallsKept(k, n)
  /\ \A s : Proper(s, R, config.commandQueue) /\ Tracks(k, s) => Tracks(n, s)
  /\ \A l \in Loco, forward \in BOOLEAN : Turns(k, l, forward) => Turns(n, l, forward)

LEMMA PowerKept ==
  ASSUME NEW R, NEW queued, NEW on, NEW k, NEW n, CallsKept(k, n), Untold(k) => Untold(n),
         Tracks(k, PowerSubject(Go, R)) => Tracks(n, PowerSubject(Go, R)),
         ~queued /\ Tracks(k, PowerSubject(Stop, R)) => Tracks(n, PowerSubject(Stop, R)),
         PowerTold(k, R, queued, on)
  PROVE  PowerTold(n, R, queued, on)
BY DEF PowerTold, CallsKept

LEMMA PassSynced ==
  ASSUME NEW R \in Nat, NEW k, NEW n, Passes(k, n, R), Untold(k) => Untold(n), NEW on,
         NEW d \in [Loco -> Decoder], NEW o \in [Accessory -> Position],
         Synced(k, R, config.commandQueue, on, d, o)
  PROVE  Synced(n, R, config.commandQueue, on, d, o)
<1>1. ASSUME NEW s, Proper(s, R, config.commandQueue), Tracks(k, s)
      PROVE  Tracks(n, s)
  BY <1>1 DEF Passes
<1>2. PowerTold(n, R, config.commandQueue, on)
  <2>1. /\ Proper(PowerSubject(Go, R), R, config.commandQueue)
        /\ ~config.commandQueue => Proper(PowerSubject(Stop, R), R, config.commandQueue)
    BY PowerProper
  <2>2. /\ Tracks(k, PowerSubject(Go, R)) => Tracks(n, PowerSubject(Go, R))
        /\ ~config.commandQueue /\ Tracks(k, PowerSubject(Stop, R)) => Tracks(n, PowerSubject(Stop, R))
    BY <1>1, <2>1
  <2>3. QED
    BY <2>2, PowerKept DEF Passes, Synced
<1>3. SpeedTold(n, R, d)
  <2>1. ASSUME NEW l \in Loco, NEW v \in Speed, Tracks(k, SpeedSubject(l, v, R))
        PROVE  Tracks(n, SpeedSubject(l, v, R))
    BY <1>1, <2>1, SpeedProper
  <2>2. QED
    BY <2>1 DEF SpeedTold, Synced
<1>4. ForwardTold(n, d)
  <2>1. ASSUME NEW l \in Loco PROVE d[l].forward \in BOOLEAN
    BY DEF Decoder
  <2>2. QED
    BY <2>1 DEF ForwardTold, Synced, Passes
<1>5. OutputTold(n, R, o)
  <2>1. SUFFICES ASSUME NEW a \in Accessory
                 PROVE  Tracks(n, PositionSubject(a, o[a], R)) /\ Tracks(n, CoilSubject(a, R))
    BY DEF OutputTold
  <2>2. o[a] \in Position /\ Tracks(k, PositionSubject(a, o[a], R)) /\ Tracks(k, CoilSubject(a, R))
    BY DEF OutputTold, Synced
  <2>3. Proper(PositionSubject(a, o[a], R), R, config.commandQueue)
        /\ Proper(CoilSubject(a, R), R, config.commandQueue)
    BY <2>2, PositionProper, CoilProper
  <2>4. QED
    BY <1>1, <2>2, <2>3
<1>6. QED
  BY <1>2, <1>3, <1>4, <1>5 DEF Synced, Passes

LEMMA SamePasses ==
  ASSUME NEW k, NEW n, NEW R, Shaped(k, R, config.commandQueue), SameSends(k, n), CallsKept(k, n)
  PROVE  Passes(k, n, R)
<1>1. Shaped(n, R, config.commandQueue)
  BY DEF SameSends, Shaped
<1>2. \A s : Tracks(k, s) => Tracks(n, s)
  BY SameTracks
<1>3. \A l \in Loco, forward \in BOOLEAN : Turns(k, l, forward) => Turns(n, l, forward)
  BY DEF SameSends, Turns, Pending
<1>4. QED
  BY <1>1, <1>2, <1>3 DEF Passes

LEMMA DrainPasses ==
  ASSUME NEW R, NEW k \in KernelState, Shaped(k, R, config.commandQueue), NEW n, Drained(k, n),
         CallsKept(k, n)
  PROVE  Passes(k, n, R)
<1>1. \A s : Proper(s, R, config.commandQueue) /\ Tracks(k, s) => Tracks(n, s)
  BY DrainTracks
<1>2. \A l \in Loco, forward \in BOOLEAN : Turns(k, l, forward) => Turns(n, l, forward)
  BY DrainTurns
<1>3. QED
  BY <1>1, <1>2, DrainShaped DEF Passes

LEMMA TurnPasses ==
  ASSUME NEW R \in Nat, config.commandQueue \in BOOLEAN, NEW k \in KernelState,
         Shaped(k, R, config.commandQueue), k.repeating # <<>>,
         NEW n, TurnSends(k, n, config.commandQueue)
  PROVE  Passes(k, n, R)
<1>1. \A s : Proper(s, R, config.commandQueue) /\ Tracks(k, s) => Tracks(n, s)
  BY TurnTracks
<1>2. \A l \in Loco, forward \in BOOLEAN : Turns(k, l, forward) => Turns(n, l, forward)
  BY TurnTurns
<1>3. CallsKept(k, n)
  <2> DEFINE m == [k EXCEPT !.repeating = Turned(@)]
  <2>1. m.calls = k.calls
    BY DEF KernelState
  <2>2. n = m \/ \E f : Writes(m, n, f) \/ Sends(m, n, f, config.commandQueue)
    BY DEF TurnSends
  <2> HIDE DEF m
  <2>3. QED
    BY <2>1, <2>2 DEF Writes, Sends, CallsKept
<1>4. QED
  BY <1>1, <1>2, <1>3, TurnShaped DEF Passes

-----------------------------------------------------------------------------
\* The setting of a step, and what it leaves to its handler.
LEMMA SyncStart ==
  ASSUME HandlerInv, SendInv, online, SyncInv
  PROVE  /\ Good(Kernel) /\ Kernel \in KernelState
         /\ config.redundancy \in Nat /\ config.commandQueue \in BOOLEAN
         /\ decoder \in [Loco -> Decoder] /\ output \in [Accessory -> Position]
         /\ Shaped(Kernel, config.redundancy, config.commandQueue)
         /\ Synced(Kernel, config.redundancy, config.commandQueue, power, decoder, output)
BY KernelGood, ConfigAssumption DEF HandlerInv, SyncInv, Synced, Good, Fits

\* A step that passes.
LEMMA StepPasses ==
  ASSUME HandlerInv, SendInv, online, SyncInv, StillUntold,
         Passes(Kernel, Kernel', config.redundancy), UNCHANGED <<power, decoder, output, config>>
  PROVE  SyncInv'
<1>1. Untold(Kernel) => Untold(Kernel')
  BY DEF StillUntold
<1>2. Synced(Kernel', config.redundancy, config.commandQueue, power, decoder, output)
  BY <1>1, SyncStart, PassSynced
<1>3. QED
  BY <1>2 DEF SyncInv

LEMMA DrainTxSynced ==
  ASSUME HandlerInv, SendInv, CoupledInv, online, SyncInv, DrainTx
  PROVE  SyncInv'
<1> DEFINE k == [Kernel EXCEPT !.armed = FALSE]
           R == config.redundancy
<1>1. Good(Kernel) /\ Kernel \in KernelState /\ Shaped(Kernel, R, config.commandQueue)
  BY SyncStart
<1>2. Kernel.queue = txQueue
  BY DEF Kernel
<1>3. UNCHANGED <<power, decoder, output, config>> /\ StillUntold
  BY DrainTxCoupled DEF DrainTx, world
<1>4. CASE txQueue = <<>>
  <2>1. k \in KernelState /\ SameSends(Kernel, k) /\ CallsKept(Kernel, k)
    BY <1>1 DEF KernelState, SameSends, CallsKept
  <2>2. Becomes(k)
    BY <1>4 DEF DrainTx
  <2> HIDE DEF k
  <2>3. Kernel' = k
    BY <2>1, <2>2 DEF Becomes, Kernel, KernelState
  <2>4. QED
    BY <1>1, <1>3, <2>1, <2>3, SamePasses, StepPasses
<1>5. CASE txQueue # <<>>
  <2> DEFINE rest == Tail(txQueue)
             first == Head(txQueue)
             shorter == [k EXCEPT !.queue = rest]
             sent == WriteFrameNow(shorter, first)
             after == ArmTxTimer(CheckTxOverflow(sent))
  <2>1. rest \in Seq(Frame) /\ Len(rest) <= QueueLimit /\ first \in Frame
    BY <1>1, <1>2, <1>5, ConfigAssumption DEF Good, Fits, KernelState
  <2>2. Becomes(after)
    <3>1. shorter = [k EXCEPT !.queue = Tail(@)]
      BY <1>1, <1>2 DEF KernelState
    <3>2. QED
      BY <1>5, <3>1 DEF DrainTx
  <2> HIDE DEF rest, first
  <2>3. /\ Fits(shorter) /\ shorter \in KernelState
        /\ shorter.queue = rest /\ shorter.repeating = Kernel.repeating
        /\ shorter.station = Kernel.station /\ shorter.lost = Kernel.lost
        /\ shorter.calls = Kernel.calls
    BY <1>1, <2>1 DEF Fits, KernelState
  <2> HIDE DEF shorter
  <2>4. /\ Fits(sent)
        /\ sent.queue = rest /\ sent.repeating = Kernel.repeating
        /\ sent.station = Receive(Kernel.station, first) /\ sent.lost = Kernel.lost
        /\ sent.calls = Kernel.calls
    <3>1. Fits(sent)
      BY <2>1, <2>3, WriteFits
    <3>2. QED
      BY <2>3, <3>1 DEF WriteFrameNow, KernelState
  <2> HIDE DEF sent
  <2>5. /\ Good(after)
        /\ after.queue = sent.queue /\ after.repeating = sent.repeating
        /\ after.station = sent.station /\ after.lost = sent.lost
        /\ CallsKept(sent, after)
    BY <2>4, RefreshGood, RefreshEffect
  <2> HIDE DEF after
  <2>6. Kernel' = after
    BY <2>2, <2>5 DEF Good, Fits, Becomes, Kernel, KernelState
  <2>7. Drained(Kernel, after) /\ CallsKept(Kernel, after)
    BY <1>2, <1>5, <2>4, <2>5 DEF Drained, CallsKept, rest, first
  <2>8. QED
    BY <1>1, <1>3, <2>6, <2>7, DrainPasses, StepPasses
<1>6. QED
  BY <1>4, <1>5

LEMMA RedundancyTimerSynced ==
  ASSUME HandlerInv, SendInv, CoupledInv, online, SyncInv, RedundancyTimer
  PROVE  SyncInv'
<1> DEFINE t == Head(redundancyTimers)
           others == Tail(redundancyTimers)
           f == Head(t.slots)
           left == Tail(t.slots)
           expired == [Kernel EXCEPT !.repeating = others]
           k == Repeat(expired, t.now, left)
           after == IF f = Pause THEN k
                    ELSE IF t.now THEN WriteFrameNow(k, f) ELSE SendRaw(k, f)
           R == config.redundancy
<1>1. /\ Good(Kernel) /\ Kernel \in KernelState /\ Shaped(Kernel, R, config.commandQueue)
      /\ R \in Nat /\ config.commandQueue \in BOOLEAN
  BY SyncStart
<1>2. redundancyTimers \in Seq(Repeating) /\ redundancyTimers # <<>>
      /\ redundancyTimers = Kernel.repeating
  BY <1>1 DEF Kernel, KernelState, RedundancyTimer
<1>3. t \in Repeating /\ others \in Seq(Repeating)
  BY <1>2
<1>4. Becomes(after)
  BY DEF RedundancyTimer, Kernel
<1>5. t.now \in BOOLEAN /\ f \in Frame \cup {Pause} /\ left \in Seq(Frame \cup {Pause})
  <2>1. t.now \in BOOLEAN /\ t.slots \in Seq(Frame \cup {Pause}) /\ t.slots # <<>>
    BY <1>3 DEF Repeating
  <2>2. QED
    BY <2>1
<1>6. k = [Kernel EXCEPT !.repeating = Turned(@)]
  <2>1. expired \in KernelState /\ expired.repeating = others
    BY <1>1, <1>3 DEF KernelState
  <2>2. CASE left = <<>>
    BY <1>1, <1>2, <2>2 DEF Turned, Repeat, KernelState
  <2>3. CASE left # <<>>
    <3>1. k = [expired EXCEPT !.repeating = Append(others, [now |-> t.now, slots |-> left])]
      BY <2>1, <2>3 DEF Repeat
    <3>2. Turned(Kernel.repeating) = Append(others, [now |-> t.now, slots |-> left])
      BY <1>2, <2>3 DEF Turned
    <3> DEFINE longer == Append(others, [now |-> t.now, slots |-> left])
    <3> HIDE DEF longer
    <3>3. [expired EXCEPT !.repeating = longer] = [Kernel EXCEPT !.repeating = longer]
      BY <1>1 DEF KernelState
    <3>4. QED
      BY <3>1, <3>2, <3>3 DEF longer
  <2>4. QED
    BY <2>2, <2>3
<1>7. Good(k)
  <2>1. Good(expired)
    BY <1>1, <1>3 DEF Good, Fits, Told, KernelState
  <2> HIDE DEF expired, t, left
  <2>2. QED
    BY <1>5, <2>1, RepeatGood
<1>8. TurnSends(Kernel, after, config.commandQueue)
  <2>1. f # Pause => /\ Writes(k, WriteFrameNow(k, f), f)
                     /\ Sends(k, SendRaw(k, f), f, config.commandQueue)
    BY <1>5, <1>7, WriteEffect, SendEffect
  <2> DEFINE turned == [Kernel EXCEPT !.repeating = Turned(@)]
  <2>2. k = turned
    BY <1>6
  <2> HIDE DEF k, turned
  <2>3. IF f = Pause THEN after = turned
        ELSE IF t.now THEN Writes(turned, after, f)
        ELSE Sends(turned, after, f, config.commandQueue)
    BY <2>1, <2>2
  <2>4. QED
    BY <1>2, <2>3 DEF TurnSends, turned
<1>9. Good(after)
  BY <1>5, <1>7, WriteGood, SendGood
<1>10. UNCHANGED <<power, decoder, output, config>> /\ StillUntold
  BY RedundancyTimerCoupled DEF RedundancyTimer, world
<1> HIDE DEF after
<1>11. Kernel' = after
  BY <1>4, <1>9 DEF Good, Fits, Becomes, Kernel, KernelState
<1>12. Passes(Kernel, after, R)
  BY <1>1, <1>2, <1>8, TurnPasses
<1>13. QED
  BY <1>10, <1>11, <1>12, StepPasses

LEMMA MonitorSynced ==
  ASSUME HandlerInv, SendInv, online, SyncInv, CtsMonitor \/ CtsChanges
  PROVE  SyncInv'
<1>1. /\ UNCHANGED <<power, decoder, output, config, txQueue, redundancyTimers, station, lost>>
      /\ loop' \in {loop, Append(loop, "stopWorld")}
  BY DEF CtsMonitor, CtsChanges, world
<1>2. Kernel \in KernelState /\ Shaped(Kernel, config.redundancy, config.commandQueue)
  BY SyncStart
<1>3. loop \in Seq(Call)
  BY <1>2 DEF KernelState, Kernel
<1>4. CallsKept(Kernel, Kernel')
  <2>1. \A i \in DOMAIN loop : i \in DOMAIN loop' /\ loop'[i] = loop[i]
    BY <1>1, <1>3
  <2>2. QED
    BY <2>1 DEF CallsKept, Kernel
<1>5. SameSends(Kernel, Kernel')
  BY <1>1 DEF SameSends, Kernel
<1>6. StillUntold
  BY <1>1 DEF StillUntold, Untold, Kernel
<1>7. QED
  BY <1>1, <1>2, <1>4, <1>5, <1>6, SamePasses, StepPasses

-----------------------------------------------------------------------------
(* The steps of the users: a command changes what it is about.             *)

SpeedAsked(k, R, l, d) ==
  \E v \in Speed : (~d.emergencyStop => v = d.throttle) /\ Tracks(k, SpeedSubject(l, v, R))

\* What a command from k to n leaves, by its frame and the last of its slots.
Leaves(k, n, f, g, R, on, d, o) ==
  /\ f \in Neutral /\ g \in Neutral /\ (Untold(k) => Untold(n))
       /\ PowerTold(k, R, config.commandQueue, on) => PowerTold(n, R, config.commandQueue, on)
  /\ \A l \in Loco : (\A u \in Speed : f # SpeedFrame(l, u) /\ g # SpeedFrame(l, u))
       => SpeedAsked(n, R, l, d[l])
  /\ \A l \in Loco : f # Toggle(l) /\ g # Toggle(l) => Turns(n, l, d[l].forward)
  /\ \A a \in Accessory : f # Off(a) /\ g # Off(a) /\ (\A q \in Position : f # Switch(a, q))
       => Tracks(n, PositionSubject(a, o[a], R)) /\ Tracks(n, CoilSubject(a, R))

LEMMA Untouched ==
  ASSUME NEW R \in Nat, NEW k, Good(k), NEW f \in Frame, NEW g \in Frame, NEW now \in BOOLEAN,
         NEW slots \in Seq(Frame \cup {Pause}), Ending(now, slots, g),
         NEW on, NEW d \in [Loco -> Decoder], NEW o \in [Accessory -> Position],
         SpeedTold(k, R, d), ForwardTold(k, d), OutputTold(k, R, o)
  PROVE  Leaves(k, Command(k, f, now, slots), f, g, R, on, d, o)
<1> DEFINE n == Command(k, f, now, slots)
<1>1. ASSUME f \in Neutral, g \in Neutral, Untold(k) => Untold(n),
             PowerTold(k, R, config.commandQueue, on)
      PROVE  PowerTold(n, R, config.commandQueue, on)
  <2>1. ASSUME NEW c \in {Go, Stop}, c = Go \/ ~config.commandQueue, Tracks(k, PowerSubject(c, R))
        PROVE  Tracks(n, PowerSubject(c, R))
    BY <1>1, <2>1, CommandPower
  <2>2. CallsKept(k, n)
    BY CommandCalls
  <2> HIDE DEF n
  <2>3. Tracks(k, PowerSubject(Go, R)) => Tracks(n, PowerSubject(Go, R))
    BY <2>1
  <2>4. ~config.commandQueue /\ Tracks(k, PowerSubject(Stop, R)) => Tracks(n, PowerSubject(Stop, R))
    BY <2>1
  <2>5. QED
    BY <1>1, <2>2, <2>3, <2>4, PowerKept
<1>2. ASSUME NEW l \in Loco, \A u \in Speed : f # SpeedFrame(l, u) /\ g # SpeedFrame(l, u)
      PROVE  SpeedAsked(n, R, l, d[l])
  <2>1. PICK v \in Speed : /\ ~d[l].emergencyStop => v = d[l].throttle
                           /\ Tracks(k, SpeedSubject(l, v, R))
    BY DEF SpeedTold
  <2>2. Tracks(n, SpeedSubject(l, v, R))
    BY <1>2, <2>1, CommandSpeed
  <2>3. QED
    BY <2>1, <2>2 DEF SpeedAsked
<1>3. ASSUME NEW l \in Loco, f # Toggle(l), g # Toggle(l)
      PROVE  Turns(n, l, d[l].forward)
  <2>1. d[l].forward \in BOOLEAN /\ Turns(k, l, d[l].forward)
    BY DEF ForwardTold, Decoder
  <2>2. QED
    BY <1>3, <2>1, CommandStraight
<1>4. ASSUME NEW a \in Accessory,
             f # Off(a) /\ g # Off(a) /\ \A q \in Position : f # Switch(a, q)
      PROVE  Tracks(n, PositionSubject(a, o[a], R)) /\ Tracks(n, CoilSubject(a, R))
  <2>1. o[a] \in Position /\ Tracks(k, PositionSubject(a, o[a], R)) /\ Tracks(k, CoilSubject(a, R))
    BY DEF OutputTold
  <2>2. QED
    BY <1>4, <2>1, CommandOutput
<1> HIDE DEF n
<1>5. Leaves(k, n, f, g, R, on, d, o)
  BY <1>1, <1>2, <1>3, <1>4 DEF Leaves
<1>6. QED
  BY <1>5 DEF n

\* The commands that repeat a frame.
LEMMA TimesEnding ==
  ASSUME NEW R \in Nat, NEW now, NEW f \in Frame
  PROVE  Times(R, f) \in Seq(Frame \cup {Pause}) /\ Ending(now, Times(R, f), f)
<1>1. Times(R, f) # <<>> => R # 0 /\ Len(Times(R, f)) = R /\ Times(R, f)[R] = f
  BY TimesSlots
<1>2. QED
  BY <1>1, TimesType DEF Ending, Final

LEMMA RedundancyIsCommand ==
  ASSUME NEW k, NEW f
  PROVE  /\ SendWithRedundancy(k, f) = Command(k, f, FALSE, Times(config.redundancy, f))
         /\ SendImmediateWithRedundancy(k, f) = Command(k, f, TRUE, Times(config.redundancy, f))
         /\ SendRaw(k, f) = Command(k, f, FALSE, <<>>)
<1>1. \A m : Repeat(m, FALSE, <<>>) = m
  BY DEF Repeat
<1>2. QED
  BY <1>1 DEF SendWithRedundancy, SendImmediateWithRedundancy, Command

\* The speed that a command asks for is the newest.
LEMMA SpeedSynced ==
  ASSUME NEW R \in Nat, R = config.redundancy, config.commandQueue \in BOOLEAN,
         NEW k, Good(k), NEW l \in Loco, NEW v \in Speed,
         NEW on, NEW d \in [Loco -> Decoder], NEW o \in [Accessory -> Position],
         Synced(k, R, config.commandQueue, on, d, o),
         Untold(k) => Untold(SendWithRedundancy(k, SpeedFrame(l, v))),
         NEW e \in [Loco -> Decoder], \A m \in Loco : m # l => e[m] = d[m],
         e[l].forward = d[l].forward, ~e[l].emergencyStop => v = e[l].throttle
  PROVE  Synced(SendWithRedundancy(k, SpeedFrame(l, v)), R, config.commandQueue, on, e, o)
<1> DEFINE f == SpeedFrame(l, v)
           slots == Times(R, f)
           n == Command(k, f, FALSE, slots)
           s == SpeedSubject(l, v, R)
<1>1. n = SendWithRedundancy(k, f)
  BY RedundancyIsCommand
<1>2. /\ f \in Frame /\ f \in Neutral /\ f \in Plain
      /\ \A m \in Loco, u \in Speed : m # l => f # SpeedFrame(m, u)
      /\ \A m \in Loco : f # Toggle(m)
      /\ \A a \in Accessory : f # Off(a) /\ \A q \in Position : f # Switch(a, q)
  BY FramesAreFrames, NeutralFrames, FrameContents DEF Plain
<1>3. slots \in Seq(Frame \cup {Pause}) /\ Ending(FALSE, slots, f)
  BY <1>2, TimesEnding
<1>4. /\ Proper(s, R, config.commandQueue) /\ s.wanted = f
      /\ s.rest = 0 /\ s.most = R /\ s.renewals = Repeats(FALSE, f, R)
  BY SpeedProper DEF SpeedSubject
<1>5. IF slots = <<>> THEN R = 0
      ELSE [now |-> FALSE, slots |-> slots] \in Repeats(FALSE, f, R) /\ Len(slots) = R /\ R # 0
  <2>1. CASE R = 0
    BY <2>1, TimesSlots
  <2>2. CASE R # 0
    <3>1. R \in 1..R
      BY <2>2
    <3>2. [now |-> FALSE, slots |-> slots] \in Repeats(FALSE, f, R)
      BY <3>1, Zenon DEF Repeats
    <3>3. slots # <<>> /\ Len(slots) = R
      BY <2>2, TimesSlots
    <3>4. QED
      BY <2>2, <3>2, <3>3
  <2>3. QED
    BY <2>1, <2>2
<1>6. slots # <<>> => [now |-> FALSE, slots |-> slots] \in Entry(R)
  BY <1>2, <1>5, EntryStarts
<1> HIDE DEF f, slots
<1>7. Shaped(k, R, config.commandQueue)
  BY DEF Synced
<1>8. Shaped(n, R, config.commandQueue)
  BY <1>2, <1>6, <1>7, CommandShaped
<1>9. Tracks(n, s)
  <2> HIDE DEF s
  <2>1. Asks(s, f, FALSE, slots)
    BY <1>4, <1>5 DEF Asks
  <2>2. QED
    <3> DEFINE now == FALSE
    <3>1. Asks(s, f, now, slots) /\ now \in BOOLEAN
      BY <2>1
    <3> HIDE DEF now
    <3>2. Tracks(Command(k, f, now, slots), s)
      BY <1>2, <1>4, <1>7, <3>1, CommandOwn
    <3>3. QED
      BY <3>2 DEF now
<1>10. /\ PowerTold(n, R, config.commandQueue, on)
       /\ \A m \in Loco : m # l => SpeedAsked(n, R, m, d[m])
       /\ \A m \in Loco : Turns(n, m, d[m].forward)
       /\ \A a \in Accessory : Tracks(n, PositionSubject(a, o[a], R)) /\ Tracks(n, CoilSubject(a, R))
  <2>1. Untold(k) => Untold(n)
    BY <1>1 DEF f
  <2>2. Leaves(k, n, f, f, R, on, d, o)
    BY <1>2, <1>3, Untouched DEF Synced
  <2> HIDE DEF n
  <2>3. QED
    BY <1>2, <2>1, <2>2 DEF Leaves, Synced
<1>11. SpeedTold(n, R, e)
  <2>1. ASSUME NEW m \in Loco PROVE SpeedAsked(n, R, m, e[m])
    <3>1. CASE m = l
      BY <1>9, <3>1 DEF SpeedAsked
    <3>2. CASE m # l
      BY <1>10, <3>2
    <3>3. QED
      BY <3>1, <3>2
  <2>2. QED
    BY <2>1 DEF SpeedTold, SpeedAsked
<1>12. ForwardTold(n, e)
  <2>1. \A m \in Loco : e[m].forward = d[m].forward
    OBVIOUS
  <2>2. QED
    BY <1>10, <2>1 DEF ForwardTold
<1>13. QED
  BY <1>1, <1>8, <1>10, <1>11, <1>12 DEF Synced, OutputTold, f

\* Polls and the functions F1 to F4 say nothing that is asked for.
LEMMA OtherSynced ==
  ASSUME NEW R \in Nat, NEW k, Good(k), NEW slots \in Seq(Frame \cup {Pause}),
         Ending(FALSE, slots, Other),
         slots # <<>> => [now |-> FALSE, slots |-> slots] \in Entry(R),
         NEW on, NEW d \in [Loco -> Decoder], NEW o \in [Accessory -> Position],
         Synced(k, R, config.commandQueue, on, d, o),
         Untold(k) => Untold(Command(k, Other, FALSE, slots))
  PROVE  Synced(Command(k, Other, FALSE, slots), R, config.commandQueue, on, d, o)
<1> DEFINE n == Command(k, Other, FALSE, slots)
<1>1. /\ Other \in Frame /\ Other \in Neutral
      /\ \A m \in Loco : Other # Toggle(m) /\ \A u \in Speed : Other # SpeedFrame(m, u)
      /\ \A a \in Accessory : Other # Off(a) /\ \A q \in Position : Other # Switch(a, q)
  BY FramesAreFrames, NeutralFrames, FrameContents
<1>2. /\ PowerTold(n, R, config.commandQueue, on)
      /\ \A m \in Loco : SpeedAsked(n, R, m, d[m])
      /\ \A m \in Loco : Turns(n, m, d[m].forward)
      /\ \A a \in Accessory : Tracks(n, PositionSubject(a, o[a], R)) /\ Tracks(n, CoilSubject(a, R))
  <2>1. Leaves(k, n, Other, Other, R, on, d, o)
    BY <1>1, Untouched DEF Synced
  <2>2. Untold(k) => Untold(n)
    OBVIOUS
  <2> HIDE DEF n
  <2>3. QED
    BY <1>1, <2>1, <2>2 DEF Leaves, Synced
<1>3. Shaped(n, R, config.commandQueue)
  BY <1>1, CommandShaped DEF Synced
<1> HIDE DEF n
<1>4. Synced(n, R, config.commandQueue, on, d, o)
  BY <1>2, <1>3 DEF Synced, SpeedTold, SpeedAsked, ForwardTold, OutputTold
<1>5. QED
  BY <1>4 DEF n

\* A toggle for a new direction, or the two of an emergency stop.
LEMMA ToggleSynced ==
  ASSUME NEW R \in Nat, NEW k, Good(k), NEW l \in Loco, NEW now \in BOOLEAN,
         NEW slots, now => slots = <<Toggle(l)>>, ~now => slots = <<>>,
         NEW on, NEW d \in [Loco -> Decoder], NEW o \in [Accessory -> Position],
         Synced(k, R, config.commandQueue, on, d, o),
         Untold(k) => Untold(Command(k, Toggle(l), now, slots)),
         NEW e \in [Loco -> Decoder], \A m \in Loco : m # l => e[m] = d[m],
         e[l].forward = d[l].forward <=> now,
         \/ e[l].emergencyStop
         \/ e[l].emergencyStop = d[l].emergencyStop /\ e[l].throttle = d[l].throttle
  PROVE  Synced(Command(k, Toggle(l), now, slots), R, config.commandQueue, on, e, o)
<1> DEFINE f == Toggle(l)
           n == Command(k, f, now, slots)
           entry == [now |-> now, slots |-> slots]
<1>1. /\ f \in Frame /\ f \in Neutral
      /\ \A m \in Loco : m # l => f # Toggle(m)
      /\ \A m \in Loco, u \in Speed : f # SpeedFrame(m, u)
      /\ \A a \in Accessory : f # Off(a) /\ \A q \in Position : f # Switch(a, q)
  BY FramesAreFrames, NeutralFrames, FrameContents
<1>2. /\ slots \in Seq(Frame \cup {Pause}) /\ Ending(now, slots, f)
      /\ now => entry = ToggleEntry(l) /\ slots # <<>>
      /\ ~now => entry # ToggleEntry(l)
  <2>1. CASE now
    <3>1. slots = <<f>> /\ now = TRUE
      BY <2>1
    <3>2. <<f>> \in Seq(Frame \cup {Pause}) /\ <<f>> # <<>> /\ <<f>>[Len(<<f>>)] = f
      BY <1>1
    <3>3. entry = ToggleEntry(l)
      BY <3>1 DEF ToggleEntry
    <3> HIDE DEF f
    <3>4. QED
      BY <2>1, <3>1, <3>2, <3>3 DEF Ending, Final
  <2>2. CASE ~now
    BY <2>2 DEF Ending, ToggleEntry
  <2>3. QED
    BY <2>1, <2>2
<1>3. slots # <<>> => entry \in Entry(R)
  BY <1>2, EntryStarts
<1>4. d[l].forward \in BOOLEAN /\ e[l].forward \in BOOLEAN /\ Turns(k, l, d[l].forward)
  BY DEF Synced, ForwardTold, Decoder
<1>5. Turns(n, l, e[l].forward)
  <2> DEFINE between == ~d[l].forward
             after == e[l].forward
             before == d[l].forward
  <2>1. /\ between \in BOOLEAN /\ before \in BOOLEAN /\ after \in BOOLEAN
        /\ between = before <=> f # Toggle(l)
        /\ after = between <=> entry # ToggleEntry(l)
    BY <1>2, <1>4
  <2>2. Turns(k, l, before)
    BY <1>4
  <2> HIDE DEF between, after, before
  <2>3. Turns(n, l, after)
    BY <1>1, <1>2, <2>1, <2>2, CommandTurns
  <2>4. QED
    BY <2>3 DEF after
<1> HIDE DEF f, entry
<1>6. /\ PowerTold(n, R, config.commandQueue, on)
      /\ \A m \in Loco : SpeedAsked(n, R, m, d[m])
      /\ \A m \in Loco : m # l => Turns(n, m, d[m].forward)
      /\ \A a \in Accessory : Tracks(n, PositionSubject(a, o[a], R)) /\ Tracks(n, CoilSubject(a, R))
  <2>1. Untold(k) => Untold(n)
    BY DEF f
  <2>2. Leaves(k, n, f, f, R, on, d, o)
    BY <1>1, <1>2, Untouched DEF Synced
  <2> HIDE DEF n
  <2>3. QED
    BY <1>1, <2>1, <2>2 DEF Leaves, Synced
<1>7. Shaped(n, R, config.commandQueue)
  <2>1. slots # <<>> => [now |-> now, slots |-> slots] \in Entry(R)
    BY <1>3 DEF entry
  <2>2. Shaped(k, R, config.commandQueue)
    BY DEF Synced
  <2>3. QED
    BY <1>1, <2>1, <2>2, CommandShaped
<1> HIDE DEF n
<1>8. SpeedTold(n, R, e)
  <2>1. ASSUME NEW m \in Loco PROVE SpeedAsked(n, R, m, e[m])
    <3>1. CASE m = l
      BY <1>6, <3>1 DEF SpeedAsked
    <3>2. CASE m # l
      BY <1>6, <3>2
    <3>3. QED
      BY <3>1, <3>2
  <2>2. QED
    BY <2>1 DEF SpeedTold, SpeedAsked
<1>9. ForwardTold(n, e)
  <2>1. ASSUME NEW m \in Loco, m # l PROVE e[m].forward = d[m].forward
    BY <2>1
  <2>2. QED
    BY <1>5, <1>6, <2>1 DEF ForwardTold
<1>10. Synced(n, R, config.commandQueue, on, e, o)
  BY <1>6, <1>7, <1>8, <1>9 DEF Synced, OutputTold
<1>11. QED
  BY <1>10 DEF n, f

\* The position that is asked for is the newest.
LEMMA OutputSynced ==
  ASSUME NEW R \in Nat, R = config.redundancy, config.commandQueue \in BOOLEAN,
         NEW k, Good(k), NEW a \in Accessory, NEW p \in Position, NEW slots,
         slots = AccessorySlots(a, p),
         NEW on, NEW d \in [Loco -> Decoder], NEW o \in [Accessory -> Position],
         Synced(k, R, config.commandQueue, on, d, o),
         Untold(k) => Untold(Command(k, Switch(a, p), FALSE, slots)),
         NEW e, \A b \in Accessory : e[b] = IF b = a THEN p ELSE o[b]
  PROVE  Synced(Command(k, Switch(a, p), FALSE, slots), R, config.commandQueue, on, d, e)
<1> DEFINE f == Switch(a, p)
           g == Off(a)
           most == 2 * R + PulseSlots
           now == FALSE
           entry == [now |-> now, slots |-> slots]
           n == Command(k, f, now, slots)
           s == PositionSubject(a, p, R)
           c == CoilSubject(a, R)
<1>1. /\ f \in Frame /\ f \in Neutral /\ g \in Frame /\ g \in Neutral
      /\ \A m \in Loco : f # Toggle(m) /\ g # Toggle(m)
      /\ \A m \in Loco, u \in Speed : f # SpeedFrame(m, u) /\ g # SpeedFrame(m, u)
      /\ \A b \in Accessory : b # a =>
           f # Off(b) /\ g # Off(b) /\ \A q \in Position : f # Switch(b, q)
  BY FramesAreFrames, NeutralFrames, FrameContents
<1>2. slots = Rest(a, p, R, most)
  BY AccessoryRest
<1>3. most \in Nat /\ most # 0 /\ PulseSlots \in Nat /\ PulseSlots # 0 /\ most \in 1..most
  BY ConfigAssumption
<1>4. Len(slots) = most /\ slots[most] = Off(a)
  <2> HIDE DEF most
  <2>1. Len(Rest(a, p, R, most)) = most /\ Rest(a, p, R, most)[most] = Off(a)
    BY <1>3, RestSlots, Zenon
  <2>2. QED
    BY <1>2, <2>1
<1>5. slots # <<>>
  <2>1. slots = <<>> => Len(slots) = 0
    OBVIOUS
  <2> HIDE DEF most
  <2>2. QED
    BY <1>3, <1>4, <2>1
<1>6. slots \in Seq(Frame \cup {Pause})
  <2> DEFINE r == Rest(a, p, R, most)
  <2>1. most \in Nat
    BY <1>3
  <2> HIDE DEF most
  <2>2. r \in Seq({Switch(a, p), Pause, Off(a)})
    BY <2>1 DEF Rest
  <2>3. QED
    BY <1>1, <1>2, <2>2
<1>7. entry \in Pulses(a, p, R)
  BY <1>2, <1>3, Zenon DEF Pulses
<1>8. Ending(now, slots, g)
  BY <1>4 DEF Ending, Final
<1>9. entry \in Entry(R)
  BY <1>7, OutputRenews
<1>10. /\ Proper(s, R, config.commandQueue) /\ Asks(s, f, now, slots)
       /\ Proper(c, R, config.commandQueue) /\ Asks(c, f, now, slots)
  <2>1. Proper(s, R, config.commandQueue) /\ Proper(c, R, config.commandQueue)
    BY PositionProper, CoilProper
  <2>2. /\ s.wanted = f /\ s.rest = R + PulseSlots /\ s.most = most /\ s.renewals = Pulses(a, p, R)
        /\ c.rest = 0 /\ c.most = most /\ c.renewals = UNION {Pulses(a, q, R) : q \in Position}
    BY DEF PositionSubject, CoilSubject
  <2>3. entry \in c.renewals
    BY <1>7, <2>2
  <2> HIDE DEF s, c
  <2>4. Asks(s, f, now, slots)
    BY <1>4, <1>5, <1>7, <2>2 DEF Asks
  <2>5. Asks(c, f, now, slots)
    <3>1. ~(c.most <= c.rest)
      BY <1>3, <2>2
    <3>2. QED
      BY <1>4, <1>5, <2>2, <2>3, <3>1 DEF Asks
  <2>6. QED
    BY <2>1, <2>4, <2>5
<1>11. now \in BOOLEAN /\ Shaped(k, R, config.commandQueue)
  BY DEF Synced
<1>12. Untold(k) => Untold(n)
  OBVIOUS
<1>13. slots # <<>> => [now |-> now, slots |-> slots] \in Entry(R)
  BY <1>9
<1> HIDE DEF f, g, entry, now, s, c
<1>14. /\ PowerTold(n, R, config.commandQueue, on)
       /\ \A m \in Loco : SpeedAsked(n, R, m, d[m])
       /\ \A m \in Loco : Turns(n, m, d[m].forward)
       /\ \A b \in Accessory :
            b # a => Tracks(n, PositionSubject(b, o[b], R)) /\ Tracks(n, CoilSubject(b, R))
  <2>1. Leaves(k, n, f, g, R, on, d, o)
    BY <1>1, <1>6, <1>8, <1>11, Untouched DEF Synced
  <2> HIDE DEF n
  <2>2. QED
    BY <1>1, <1>12, <2>1 DEF Leaves, Synced
<1>15. Tracks(n, s) /\ Tracks(n, c)
  BY <1>1, <1>10, <1>11, CommandOwn
<1>16. Shaped(n, R, config.commandQueue)
  BY <1>1, <1>11, <1>13, CommandShaped
<1> HIDE DEF n
<1>17. OutputTold(n, R, e)
  BY <1>14, <1>15 DEF OutputTold, s, c
<1>18. Synced(n, R, config.commandQueue, on, d, e)
  BY <1>14, <1>16, <1>17 DEF Synced, SpeedTold, SpeedAsked, ForwardTold
<1>19. QED
  BY <1>18 DEF n, f, now

-----------------------------------------------------------------------------
(* The steps of the world: a go, or a stop that overtakes the queue.       *)

\* Calls that are added change nothing of what is sent.
LEMMA SameSynced ==
  ASSUME NEW R, NEW queued, NEW k, NEW n, SameSends(k, n),
         NEW d, NEW o, Shaped(k, R, queued), SpeedTold(k, R, d), ForwardTold(k, d), OutputTold(k, R, o)
  PROVE  Shaped(n, R, queued) /\ SpeedTold(n, R, d) /\ ForwardTold(n, d) /\ OutputTold(n, R, o)
<1>1. \A s : Tracks(n, s) <=> Tracks(k, s)
  BY SameTracks
<1>2. Shaped(n, R, queued) /\ \A l : \A forward : Turns(k, l, forward) => Turns(n, l, forward)
  BY DEF SameSends, Shaped, Turns, Pending
<1>3. SpeedTold(n, R, d)
  BY <1>1 DEF SpeedTold
<1>4. OutputTold(n, R, o)
  BY <1>1 DEF OutputTold
<1>5. QED
  BY <1>2, <1>3, <1>4 DEF ForwardTold

\* A go or a stop is the newest command about the track's power, a stop only where no
\* queue holds back what it overtakes.
LEMMA TrackSynced ==
  ASSUME NEW R \in Nat, R = config.redundancy, config.commandQueue \in BOOLEAN,
         NEW k, Good(k), NEW f \in {Go, Stop}, NEW now \in BOOLEAN, now <=> f = Stop,
         NEW d \in [Loco -> Decoder], NEW o \in [Accessory -> Position],
         Shaped(k, R, config.commandQueue),
         SpeedTold(k, R, d), ForwardTold(k, d), OutputTold(k, R, o)
  PROVE  LET n == Command(k, f, now, Times(R, f))
         IN  /\ Shaped(n, R, config.commandQueue)
             /\ SpeedTold(n, R, d) /\ ForwardTold(n, d) /\ OutputTold(n, R, o)
             /\ f = Go \/ ~config.commandQueue => Tracks(n, PowerSubject(f, R))
<1> DEFINE slots == Times(R, f)
           n == Command(k, f, now, slots)
           s == PowerSubject(f, R)
           entry == [now |-> now, slots |-> slots]
<1>1. /\ f \in Frame
      /\ \A m \in Loco : f # Toggle(m) /\ \A u \in Speed : f # SpeedFrame(m, u)
      /\ \A a \in Accessory : f # Off(a) /\ \A q \in Position : f # Switch(a, q)
  BY FramesAreFrames, FrameContents
<1>2. slots \in Seq(Frame \cup {Pause}) /\ Ending(now, slots, f)
  BY <1>1, TimesEnding
<1>3. IF slots = <<>> THEN R = 0 ELSE R # 0 /\ Len(slots) = R
  BY TimesSlots
<1>4. now = (f = Stop) /\ (f = Stop => now = TRUE) /\ (f # Stop => now = FALSE)
  OBVIOUS
<1>5. R # 0 => entry \in Repeats(f = Stop, f, R)
  <2>1. R # 0 => R \in 1..R
    OBVIOUS
  <2>2. QED
    BY <1>4, <2>1, Zenon DEF Repeats
<1>6. R # 0 => entry \in Entry(R)
  <2>1. CASE f = Go
    <3>1. Go # Stop
      BY FrameContents
    <3>2. now = FALSE /\ f \in Plain
      BY <1>4, <2>1, <3>1 DEF Plain
    <3>3. QED
      BY <3>2, EntryStarts
  <2>2. CASE f = Stop
    <3>1. now = TRUE
      BY <1>4, <2>2
    <3>2. QED
      BY <2>2, <3>1, EntryStarts
  <2>3. QED
    BY <2>1, <2>2
<1>7. Shaped(n, R, config.commandQueue)
  <2>1. slots # <<>> => [now |-> now, slots |-> slots] \in Entry(R)
    BY <1>3, <1>6
  <2> HIDE DEF slots
  <2>2. QED
    BY <1>1, <2>1, CommandShaped
<1>8. ASSUME f = Go \/ ~config.commandQueue PROVE Tracks(n, s)
  <2>1. Proper(s, R, config.commandQueue)
    BY <1>8, PowerProper
  <2>2. /\ s.wanted = f /\ s.rest = 0 /\ s.most = R
        /\ s.renewals = Repeats(f = Stop, f, R)
    BY DEF PowerSubject
  <2>3. now => ~config.commandQueue
    <3>1. Go # Stop
      BY FrameContents
    <3>2. QED
      BY <1>8, <3>1
  <2>4. slots # <<>> => [now |-> now, slots |-> slots] \in s.renewals
    BY <1>3, <1>5, <2>2
  <2> HIDE DEF s, slots
  <2>5. Asks(s, f, now, slots)
    BY <1>3, <2>2, <2>3, <2>4 DEF Asks
  <2>6. QED
    BY <1>1, <2>1, <2>5, CommandOwn
<1>9. Leaves(k, n, f, f, R, FALSE, d, o)
  <2> HIDE DEF slots
  <2>1. QED
    BY <1>1, <1>2, Untouched
<1> HIDE DEF n
<1>10. SpeedTold(n, R, d) /\ ForwardTold(n, d) /\ OutputTold(n, R, o)
  BY <1>1, <1>9 DEF Leaves, SpeedTold, SpeedAsked, ForwardTold, OutputTold
<1>11. QED
  BY <1>7, <1>8, <1>10 DEF n

LEMMA WorldEventSynced ==
  ASSUME HandlerInv, NEW R \in Nat, R = config.redundancy, config.commandQueue \in BOOLEAN,
         config' = config, UNCHANGED <<decoder, output>>,
         NEW k, Good(k), NEW event \in {"PowerOn", "PowerOff", "Run", "Stop"}, WorldEvent(k, event),
         Shaped(k, R, config.commandQueue),
         SpeedTold(k, R, decoder), ForwardTold(k, decoder), OutputTold(k, R, output)
  PROVE  SyncInv'
<1> DEFINE f == IF event \in {"PowerOff", "Stop"} THEN Stop ELSE Go
           now == event \in {"PowerOff", "Stop"}
           told == Command(k, f, now, Times(R, f))
           calls == told.calls \o CoupledCalls(event)
           n == [told EXCEPT !.calls = calls]
<1>1. told = IF event \in {"PowerOff", "Stop"} THEN SendImmediateWithRedundancy(k, Stop)
             ELSE SendWithRedundancy(k, Go)
  <2>1. CASE event \in {"PowerOff", "Stop"}
    <3>1. f = Stop /\ now = TRUE
      BY <2>1
    <3>2. QED
      BY <2>1, <3>1, RedundancyIsCommand
  <2>2. CASE event \notin {"PowerOff", "Stop"}
    <3>1. f = Go /\ now = FALSE
      BY <2>2
    <3>2. QED
      BY <2>2, <3>1, RedundancyIsCommand
  <2>3. QED
    BY <2>1, <2>2
<1>2. Good(told) /\ told \in KernelState
  BY <1>1, RedundancyGood, FramesAreFrames DEF Good, Fits
<1>3. CoupledCalls(event) \in Seq(Call)
  <2>1. CoupledCalls(event) \in {<<"powerOff">>, <<"run">>, <<>>}
    BY DEF CoupledCalls
  <2>2. <<"powerOff">> \in Seq(Call) /\ <<"run">> \in Seq(Call) /\ <<>> \in Seq(Call)
    BY DEF Call
  <2>3. QED
    BY <2>1, <2>2
<1>4. Becomes(n) /\ power' = PowerAfter(event)
  BY <1>1 DEF WorldEvent
<1>5. /\ f \in {Go, Stop} /\ now \in BOOLEAN /\ (now <=> f = Stop) /\ Go # Stop
  BY FrameContents
<1>6. /\ Shaped(told, R, config.commandQueue)
      /\ SpeedTold(told, R, decoder) /\ ForwardTold(told, decoder) /\ OutputTold(told, R, output)
      /\ f = Go \/ ~config.commandQueue => Tracks(told, PowerSubject(f, R))
  <2>1. decoder \in [Loco -> Decoder] /\ output \in [Accessory -> Position]
    BY DEF HandlerInv
  <2> HIDE DEF f, now
  <2>2. QED
    BY <1>5, <2>1, TrackSynced
<1>7. f = Go => power'
  BY <1>4, <1>5 DEF PowerAfter
<1>8. f = Stop /\ power' => CoupledCalls(event) = <<"powerOff">>
  BY <1>4, <1>5 DEF PowerAfter, CoupledCalls
<1> HIDE DEF f, now, told
<1>9. calls \in Seq(Call) /\ told.calls \in Seq(Call)
  BY <1>2, <1>3 DEF KernelState
<1>10. f = Stop /\ power' => \E i \in DOMAIN calls : calls[i] = "powerOff"
  <2>1. SUFFICES ASSUME f = Stop, power' PROVE \E i \in DOMAIN calls : calls[i] = "powerOff"
    OBVIOUS
  <2>2. calls = told.calls \o <<"powerOff">>
    BY <1>8, <2>1
  <2> DEFINE i == Len(told.calls) + 1
  <2> HIDE DEF calls
  <2>3. i \in DOMAIN calls /\ calls[i] = "powerOff"
    BY <1>9, <2>2
  <2>4. QED
    BY <2>3
<1> HIDE DEF calls
<1>11. Good(n) /\ SameSends(told, n) /\ n.calls = calls
  BY <1>2, <1>9, CalledGood DEF KernelState, SameSends
<1> HIDE DEF n
<1>12. /\ Shaped(n, R, config.commandQueue)
       /\ SpeedTold(n, R, decoder) /\ ForwardTold(n, decoder) /\ OutputTold(n, R, output)
  BY <1>6, <1>11, SameSynced
<1>13. f = Go \/ ~config.commandQueue => Tracks(n, PowerSubject(f, R))
  BY <1>6, <1>11, SameTracks
<1>14. PowerTold(n, R, config.commandQueue, power')
  BY <1>5, <1>7, <1>10, <1>11, <1>13 DEF PowerTold
<1>15. Synced(n, R, config.commandQueue, power', decoder', output')
  BY <1>12, <1>14 DEF Synced
<1>16. QED
  BY <1>4, <1>11, <1>15, BecomesSynced

LEMMA WorldStepSynced ==
  ASSUME HandlerInv, SendInv, online, SyncInv,
         RunCall \/ \E event \in Button : WorldButton(event)
  PROVE  SyncInv'
<1> DEFINE R == config.redundancy
           calls == Tail(loop)
           k == [Kernel EXCEPT !.calls = calls]
<1>1. /\ Good(Kernel) /\ Kernel \in KernelState /\ R \in Nat /\ config.commandQueue \in BOOLEAN
      /\ Shaped(Kernel, R, config.commandQueue)
      /\ SpeedTold(Kernel, R, decoder) /\ ForwardTold(Kernel, decoder)
      /\ OutputTold(Kernel, R, output)
      /\ PowerTold(Kernel, R, config.commandQueue, power)
  BY SyncStart DEF Synced
<1>2. UNCHANGED <<decoder, output, config>>
  BY DEF RunCall, WorldButton
<1>3. ASSUME NEW event \in Button, WorldButton(event) PROVE SyncInv'
  <2>1. event \in {"PowerOn", "PowerOff", "Run", "Stop"} /\ WorldEvent(Kernel, event)
    BY <1>3, ConfigAssumption DEF WorldButton
  <2>2. QED
    BY <1>1, <1>2, <2>1, WorldEventSynced
<1>4. CASE RunCall
  <2>1. calls \in Seq(Call)
    BY <1>1, <1>4 DEF Kernel, KernelState, RunCall
  <2>2. \/ WorldEvent(k, "Run") \/ WorldEvent(k, "PowerOff")
        \/ Becomes(k) /\ UNCHANGED world /\ ~power
    BY <1>4 DEF RunCall, Kernel
  <2> HIDE DEF calls
  <2>3. Good(k) /\ SameSends(Kernel, k)
    BY <1>1, <2>1, CalledGood DEF SameSends, KernelState
  <2>4. Untold(Kernel) => Untold(k)
    BY <2>3 DEF SameSends, Untold
  <2> HIDE DEF k
  <2>5. /\ Shaped(k, R, config.commandQueue)
        /\ SpeedTold(k, R, decoder) /\ ForwardTold(k, decoder) /\ OutputTold(k, R, output)
    BY <1>1, <2>3, SameSynced
  <2>6. CASE WorldEvent(k, "Run") \/ WorldEvent(k, "PowerOff")
    BY <1>1, <1>2, <2>3, <2>5, <2>6, WorldEventSynced
  <2>7. CASE Becomes(k) /\ UNCHANGED world /\ ~power
    <3>1. PowerTold(k, R, config.commandQueue, power)
      BY <1>1, <2>3, <2>4, <2>7, SameTracks DEF PowerTold
    <3>2. Synced(k, R, config.commandQueue, power', decoder', output')
      BY <1>2, <2>5, <2>7, <3>1 DEF Synced, world
    <3>3. QED
      BY <1>2, <2>3, <2>7, <3>2, BecomesSynced
  <2>8. QED
    BY <2>2, <2>6, <2>7
<1>5. QED
  BY <1>3, <1>4

\* The other users: the decoders, the outputs and the polls.
LEMMA DecoderStepSynced ==
  ASSUME HandlerInv, SendInv, CoupledInv, online, SyncInv, NEW l \in Loco,
         \/ \E s \in Speed : SetThrottle(l, s)
         \/ SetDirection(l) \/ SetFunction(l) \/ SetEmergencyStop(l)
  PROVE  SyncInv'
<1> DEFINE R == config.redundancy
<1>1. /\ Good(Kernel) /\ R \in Nat /\ config.commandQueue \in BOOLEAN
      /\ decoder \in [Loco -> Decoder] /\ output \in [Accessory -> Position]
      /\ Synced(Kernel, R, config.commandQueue, power, decoder, output)
  BY SyncStart
<1>2. decoder' \in [Loco -> Decoder] /\ StillUntold
  BY DecoderStepInv, DecoderStepCoupled
<1>3. UNCHANGED <<power, output, config>>
  BY DEF SetThrottle, SetDirection, SetFunction, SetEmergencyStop, commanded, world
<1>4. decoder[l] \in Decoder /\ 0 \in Speed /\ \A m \in Loco : decoder'[m] \in Decoder
  BY <1>1, <1>2, ConfigAssumption
<1>5. ASSUME NEW n, Good(n), Becomes(n)
      PROVE  Kernel' = n /\ (Untold(Kernel) => Untold(n))
  <2>1. Kernel' = n
    BY <1>5 DEF Good, Fits, Becomes, Kernel, KernelState
  <2>2. QED
    BY <1>2, <2>1 DEF StillUntold
<1>6. ASSUME NEW n, Good(n), Becomes(n),
             Synced(n, R, config.commandQueue, power, decoder', output)
      PROVE  SyncInv'
  BY <1>3, <1>6, BecomesSynced
<1>7. ASSUME NEW v \in Speed, Becomes(SendWithRedundancy(Kernel, SpeedFrame(l, v))),
             \A m \in Loco : m # l => decoder'[m] = decoder[m],
             decoder'[l].forward = decoder[l].forward,
             ~decoder'[l].emergencyStop => v = decoder'[l].throttle
      PROVE  SyncInv'
  <2> DEFINE n == SendWithRedundancy(Kernel, SpeedFrame(l, v))
             e == decoder'
  <2>1. Good(n)
    BY <1>1, FramesAreFrames, RedundancyGood
  <2>2. Untold(Kernel) => Untold(n)
    BY <1>5, <1>7, <2>1
  <2>3. e \in [Loco -> Decoder] /\ (\A m \in Loco : m # l => e[m] = decoder[m])
        /\ e[l].forward = decoder[l].forward /\ (~e[l].emergencyStop => v = e[l].throttle)
    BY <1>2, <1>7
  <2> HIDE DEF e
  <2>4. Synced(n, R, config.commandQueue, power, e, output)
    BY <1>1, <2>2, <2>3, SpeedSynced
  <2> HIDE DEF n
  <2>5. QED
    BY <1>6, <1>7, <2>1, <2>4 DEF n, e
<1>8. ASSUME NEW now \in BOOLEAN, NEW slots, now => slots = <<Toggle(l)>>, ~now => slots = <<>>,
             Good(Command(Kernel, Toggle(l), now, slots)),
             Becomes(Command(Kernel, Toggle(l), now, slots)),
             \A m \in Loco : m # l => decoder'[m] = decoder[m],
             decoder'[l].forward = decoder[l].forward <=> now,
             \/ decoder'[l].emergencyStop
             \/ /\ decoder'[l].emergencyStop = decoder[l].emergencyStop
                /\ decoder'[l].throttle = decoder[l].throttle
      PROVE  SyncInv'
  <2> DEFINE n == Command(Kernel, Toggle(l), now, slots)
             e == decoder'
  <2>1. Untold(Kernel) => Untold(n)
    BY <1>5, <1>8
  <2>2. e \in [Loco -> Decoder] /\ (\A m \in Loco : m # l => e[m] = decoder[m])
        /\ (e[l].forward = decoder[l].forward <=> now)
        /\ \/ e[l].emergencyStop
           \/ /\ e[l].emergencyStop = decoder[l].emergencyStop
              /\ e[l].throttle = decoder[l].throttle
    BY <1>2, <1>8
  <2> HIDE DEF e
  <2>3. Synced(n, R, config.commandQueue, power, e, output)
    BY <1>1, <1>8, <2>1, <2>2, ToggleSynced
  <2>4. QED
    BY <1>6, <1>8, <2>3 DEF e
<1>9. ASSUME NEW s \in Speed, SetThrottle(l, s) PROVE SyncInv'
  <2>1. decoder' = [decoder EXCEPT ![l].throttle = s]
    BY <1>9 DEF SetThrottle
  <2>2. CommandedSpeed(decoder'[l]) \in Speed
    BY <1>4 DEF CommandedSpeed, Decoder
  <2>3. decoder'[l].forward = decoder[l].forward /\ \A m \in Loco : m # l => decoder'[m] = decoder[m]
    BY <1>1, <1>4, <2>1 DEF Decoder
  <2>4. ~decoder'[l].emergencyStop => CommandedSpeed(decoder'[l]) = decoder'[l].throttle
    BY DEF CommandedSpeed
  <2>5. QED
    BY <1>7, <1>9, <2>2, <2>3, <2>4 DEF SetThrottle
<1>10. CASE SetFunction(l)
  <2>1. decoder' = decoder /\ CommandedSpeed(decoder[l]) \in Speed
    BY <1>4, <1>10 DEF SetFunction, CommandedSpeed, Decoder
  <2>2. ~decoder[l].emergencyStop => CommandedSpeed(decoder[l]) = decoder[l].throttle
    BY DEF CommandedSpeed
  <2>3. QED
    BY <1>7, <1>10, <2>1, <2>2 DEF SetFunction
<1>11. CASE SetDirection(l)
  <2>1. decoder' = [decoder EXCEPT ![l].forward = ~@]
    BY <1>11 DEF SetDirection
  <2>2. /\ \A m \in Loco : m # l => decoder'[m] = decoder[m]
        /\ decoder'[l].forward # decoder[l].forward
        /\ decoder'[l].emergencyStop = decoder[l].emergencyStop
        /\ decoder'[l].throttle = decoder[l].throttle
    BY <1>1, <1>4, <2>1 DEF Decoder
  <2> DEFINE now == FALSE
             slots == <<>>
             n == Command(Kernel, Toggle(l), now, slots)
  <2>3. n = SendRaw(Kernel, Toggle(l))
    BY RedundancyIsCommand
  <2>4. Good(n) /\ Becomes(n)
    BY <1>1, <1>11, <2>3, FramesAreFrames, SendGood DEF SetDirection, SendDirection
  <2>5. now \in BOOLEAN /\ ~now /\ (~now => slots = <<>>)
    OBVIOUS
  <2> HIDE DEF now, slots
  <2>6. QED
    BY <1>8, <2>2, <2>4, <2>5
<1>12. CASE SetEmergencyStop(l)
  <2>1. decoder' = [decoder EXCEPT ![l].throttle = 0, ![l].emergencyStop = ~@]
    BY <1>12 DEF SetEmergencyStop
  <2>2. /\ \A m \in Loco : m # l => decoder'[m] = decoder[m]
        /\ decoder'[l].forward = decoder[l].forward
        /\ decoder'[l].throttle = 0
    BY <1>1, <1>4, <2>1 DEF Decoder
  <2>3. CASE decoder'[l].emergencyStop
    <3> DEFINE now == TRUE
               slots == <<Toggle(l)>>
               n == Command(Kernel, Toggle(l), now, slots)
    <3>1. n = EmergencyStop(l)
      BY DEF Command, EmergencyStop
    <3>2. Good(n)
      <4>1. Toggle(l) \in Frame /\ slots \in Seq(Frame \cup {Pause})
        BY FramesAreFrames
      <4>2. QED
        BY <1>1, <3>1, <4>1, WriteGood, RepeatGood DEF EmergencyStop
    <3>3. Becomes(n)
      BY <1>12, <2>3, <3>1 DEF SetEmergencyStop
    <3>4. now \in BOOLEAN /\ now /\ (now => slots = <<Toggle(l)>>)
      OBVIOUS
    <3> HIDE DEF now, slots
    <3>5. QED
      BY <1>8, <2>2, <2>3, <3>2, <3>3, <3>4
  <2>4. CASE ~decoder'[l].emergencyStop
    BY <1>4, <1>7, <1>12, <2>2, <2>4 DEF SetEmergencyStop
  <2>5. QED
    BY <2>3, <2>4
<1>13. QED
  BY <1>9, <1>10, <1>11, <1>12

LEMMA SetOutputSynced ==
  ASSUME HandlerInv, SendInv, CoupledInv, online, SyncInv, NEW a \in Accessory, NEW p \in Position,
         SetOutput(a, p)
  PROVE  SyncInv'
<1> DEFINE R == config.redundancy
           slots == AccessorySlots(a, p)
           n == Command(Kernel, Switch(a, p), FALSE, slots)
           e == output'
<1>1. /\ Good(Kernel) /\ R \in Nat /\ config.commandQueue \in BOOLEAN
      /\ decoder \in [Loco -> Decoder] /\ output \in [Accessory -> Position]
      /\ Synced(Kernel, R, config.commandQueue, power, decoder, output)
  BY SyncStart
<1>2. UNCHANGED <<power, decoder, config>> /\ output' = [output EXCEPT ![a] = p]
  BY DEF SetOutput, world
<1>3. \A b \in Accessory : e[b] = IF b = a THEN p ELSE output[b]
  BY <1>1, <1>2
<1>4. Becomes(n)
  BY DEF SetOutput, Command
<1>5. slots \in Seq(Frame \cup {Pause})
  <2>1. Switch(a, p) \in Frame /\ Off(a) \in Frame /\ PulseSlots - 1 \in Nat
    BY FramesAreFrames, ConfigAssumption
  <2>2. <<Off(a)>> \in Seq(Frame \cup {Pause})
    BY <2>1
  <2>3. /\ Times(R, Switch(a, p)) \in Seq(Frame \cup {Pause})
        /\ Times(PulseSlots - 1, Pause) \in Seq(Frame \cup {Pause})
        /\ Times(R, Off(a)) \in Seq(Frame \cup {Pause})
    BY <1>1, <2>1, TimesType
  <2>4. QED
    BY <2>2, <2>3 DEF AccessorySlots
<1> HIDE DEF slots
<1>6. Good(n)
  BY <1>1, <1>5, FramesAreFrames, SendGood, RepeatGood DEF Command
<1>7. Untold(Kernel) => Untold(n)
  <2>1. Kernel' = n
    BY <1>4, <1>6 DEF Good, Fits, Becomes, Kernel, KernelState
  <2>2. QED
    BY <2>1, SetOutputCoupled DEF StillUntold
<1>8. slots = AccessorySlots(a, p)
  BY DEF slots
<1> HIDE DEF e
<1>9. Synced(n, R, config.commandQueue, power, decoder, e)
  BY <1>1, <1>3, <1>7, <1>8, OutputSynced
<1> HIDE DEF n
<1>10. QED
  BY <1>2, <1>4, <1>6, <1>9, BecomesSynced DEF e

\* The functions F1 to F4 and the polls.
LEMMA OtherStepSynced ==
  ASSUME HandlerInv, SendInv, CoupledInv, online, SyncInv, SetFunctions1to4 \/ Poll
  PROVE  SyncInv'
<1> DEFINE R == config.redundancy
<1>1. /\ Good(Kernel) /\ R \in Nat /\ config.commandQueue \in BOOLEAN
      /\ decoder \in [Loco -> Decoder] /\ output \in [Accessory -> Position]
      /\ Synced(Kernel, R, config.commandQueue, power, decoder, output)
  BY SyncStart
<1>2. Other \in Frame /\ Other \in Neutral
  BY FramesAreFrames, NeutralFrames
<1>3. UNCHANGED <<power, decoder, output, config>> /\ UNCHANGED world
  BY DEF SetFunctions1to4, Poll, commanded, world
<1>4. ASSUME NEW slots \in Seq(Frame \cup {Pause}), Ending(FALSE, slots, Other),
             slots # <<>> => [now |-> FALSE, slots |-> slots] \in Entry(R),
             Good(Command(Kernel, Other, FALSE, slots)), Becomes(Command(Kernel, Other, FALSE, slots)),
             Keeps(Kernel, Command(Kernel, Other, FALSE, slots), TRUE)
      PROVE  SyncInv'
  <2> DEFINE n == Command(Kernel, Other, FALSE, slots)
  <2>1. Untold(Kernel) => Untold(n)
    BY <1>4 DEF Keeps
  <2>2. Synced(n, R, config.commandQueue, power, decoder, output)
    BY <1>1, <1>4, <2>1, OtherSynced
  <2>3. Good(n) /\ Becomes(n)
    BY <1>4
  <2> HIDE DEF n
  <2>4. QED
    BY <1>3, <2>2, <2>3, BecomesSynced
<1>5. CASE SetFunctions1to4
  <2> DEFINE slots == Times(R, Other)
             n == SendWithRedundancy(Kernel, Other)
  <2>1. Good(n) /\ Keeps(Kernel, n, TRUE)
    BY <1>1, <1>2, RedundancyGood, RedundancyKeeps
  <2>2. Becomes(n) /\ n = Command(Kernel, Other, FALSE, slots)
    BY <1>5, RedundancyIsCommand DEF SetFunctions1to4
  <2>3. slots \in Seq(Frame \cup {Pause}) /\ Ending(FALSE, slots, Other)
    BY <1>1, <1>2, TimesEnding
  <2>4. slots # <<>> => [now |-> FALSE, slots |-> slots] \in Entry(R)
    <3>1. slots # <<>> => R # 0
      BY <1>1, TimesSlots
    <3>2. Other \in Plain
      BY DEF Plain
    <3>3. QED
      BY <1>1, <3>1, <3>2, EntryStarts
  <2> HIDE DEF slots, n
  <2>5. QED
    BY <1>4, <2>1, <2>2, <2>3, <2>4
<1>6. CASE Poll
  <2> DEFINE n == SendRaw(Kernel, Other)
  <2>1. Good(n) /\ Keeps(Kernel, n, TRUE)
    BY <1>1, <1>2, SendGood, SendKeeps
  <2>2. Becomes(n) /\ n = Command(Kernel, Other, FALSE, <<>>)
    BY <1>6, RedundancyIsCommand DEF Poll
  <2>3. <<>> \in Seq(Frame \cup {Pause}) /\ Ending(FALSE, <<>>, Other)
    BY DEF Ending
  <2> HIDE DEF n
  <2>4. QED
    BY <1>4, <2>1, <2>2, <2>3
<1>7. QED
  BY <1>5, <1>6

LEMMA NextSynced == SessionInv /\ CoupledInv /\ SyncInv /\ [Next]_vars => SyncInv'
<1> SUFFICES ASSUME SendInv, HandlerInv, CoupledInv, SyncInv, [Next]_vars
             PROVE  SyncInv'
  BY InvSplit
<1>1. CASE UNCHANGED vars
  BY <1>1 DEF vars, SyncInv, Kernel
<1> SUFFICES ASSUME online, UserStep \/ KernelStep \/ RunCall \/ CtsChanges
             PROVE  SyncInv'
  BY <1>1 DEF Next
<1>2. CASE GoOffline
  BY <1>2 DEF GoOffline, SyncInv
<1>3. ASSUME NEW l \in Loco,
             \/ \E s \in Speed : SetThrottle(l, s)
             \/ SetDirection(l) \/ SetFunction(l) \/ SetEmergencyStop(l)
      PROVE  SyncInv'
  BY <1>3, DecoderStepSynced
<1>4. ASSUME NEW a \in Accessory, NEW p \in Position, SetOutput(a, p) PROVE SyncInv'
  BY <1>4, SetOutputSynced
<1>5. QED
  BY <1>2, <1>3, <1>4, WorldStepSynced, OtherStepSynced, DrainTxSynced, RedundancyTimerSynced,
     MonitorSynced DEF UserStep, KernelStep

LEMMA SyncAlways == Spec => [](SessionInv /\ CoupledInv /\ SyncInv)
<1>1. Init => SessionInv /\ CoupledInv /\ SyncInv
  BY InitInv, InitCoupled, InitSynced
<1>2. (SessionInv /\ CoupledInv /\ SyncInv) /\ [Next]_vars => (SessionInv /\ CoupledInv /\ SyncInv)'
  BY NextInv, NextCoupled, NextSynced
<1>3. QED
  BY <1>1, <1>2, PTL DEF Spec

\* When everything sent has arrived, nothing of it was dropped and nothing is queued for
\* the event loop, the layout's power is the world's, whatever gos, stops, repetitions
\* and deferred calls crossed on the way; a power-off only where no command queue lets an
\* immediate stop be overtaken by the gos that still wait in it.
THEOREM TrackAlwaysInSync == Spec => []TrackInSync
<1>1. SessionInv /\ CoupledInv /\ SyncInv => TrackInSync
  BY SyncedInSync
<1>2. QED
  BY <1>1, SyncAlways, PTL

\* When everything sent has arrived and nothing of it was dropped, each loco goes in
\* its decoder's direction and, outside an emergency stop, at its decoder's throttle or
\* stands: no late repetition brings back an earlier speed, and the toggles of direction
\* changes and emergency stops, which a loco only counts, come out even.
THEOREM LocoAlwaysInSync == Spec => []LocoInSync
<1>1. SessionInv /\ CoupledInv /\ SyncInv => LocoInSync
  BY SyncedInSync
<1>2. QED
  BY <1>1, SyncAlways, PTL

\* When everything sent has arrived and nothing of it was dropped, each accessory
\* stands as its output was set last and its coil is off, however many pulses with
\* their repetitions overlapped.
THEOREM AccessoryAlwaysInSync == Spec => []AccessoryInSync
<1>1. SessionInv /\ CoupledInv /\ SyncInv => AccessoryInSync
  BY SyncedInSync
<1>2. QED
  BY <1>1, SyncAlways, PTL
=============================================================================
