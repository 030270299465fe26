------------------------- MODULE Marklin6050Proofs -------------------------
(***************************************************************************)
(* The transmitting kernel, for every set of locos, accessories and        *)
(* settings: its variables keep their types, its queue its bound and its   *)
(* timer, overflow and crash are reported once per occurrence, and power   *)
(* and run end together. What the layout ends up as: Marklin6050SyncProofs.*)
(*                                                                         *)
(* Every send maps one state of the kernel to the next. Good says what     *)
(* they all preserve; a handler is a composition of them, so that its step *)
(* follows from the lemmas of what it calls.                               *)
(***************************************************************************)
EXTENDS Marklin6050, TLAPS

KernelState ==
  [queue: Seq(Frame), armed: BOOLEAN, overflow: BOOLEAN, repeating: Seq(Repeating),
   calls: Seq(Call), station: Station, lost: BOOLEAN]

Told(k) ==
  /\ Len(k.queue) >= QueueLimit => k.overflow
  /\ 2 * Len(k.queue) < QueueLimit => ~k.overflow

\* What holds within a handler, and what does between two.
Fits(k) == k \in KernelState /\ Len(k.queue) <= QueueLimit
Good(k) == Fits(k) /\ (k.queue # <<>> => k.armed) /\ Told(k)

\* The inductive invariant: what a session's kernel is like between two handlers, with
\* the variables that no send touches.
SessionInv == TypeOK /\ QueueServed /\ OverflowTold /\ CrashTold

\* The same, split by who changes it: the sends, or the handlers themselves.
SendInv == Fits(Kernel) /\ QueueServed /\ OverflowTold
HandlerInv ==
  /\ power \in BOOLEAN /\ run \in BOOLEAN /\ online \in BOOLEAN
  /\ decoder \in [Loco -> Decoder]
  /\ output \in [Accessory -> Position]
  /\ config \in Config
  /\ cts \in BOOLEAN /\ ctsLow \in -1..CrashSeconds /\ crashFired \in BOOLEAN
  /\ CrashTold

-----------------------------------------------------------------------------
LEMMA FramesAreFrames ==
  /\ Go \in Frame /\ Stop \in Frame /\ Other \in Frame
  /\ \A l \in Loco : Toggle(l) \in Frame /\ \A s \in Speed : SpeedFrame(l, s) \in Frame
  /\ \A a \in Accessory : Off(a) \in Frame /\ \A p \in Position : Switch(a, p) \in Frame
BY DEF Frame

\* A frame is told apart by its tag, which comes first, and carries what follows it.
LEMMA FrameContents ==
  /\ Go[1] = "go" /\ Stop[1] = "stop" /\ Other[1] = "other"
  /\ \A l, v : /\ SpeedFrame(l, v)[1] = "speed" /\ SpeedFrame(l, v)[2] = l
               /\ SpeedFrame(l, v)[3] = v
  /\ \A l : Toggle(l)[1] = "toggle" /\ Toggle(l)[2] = l
  /\ \A a, p : /\ Switch(a, p)[1] = "on" /\ Switch(a, p)[2] = a /\ Switch(a, p)[3] = p
  /\ \A a : Off(a)[1] = "off" /\ Off(a)[2] = a
BY DEF Go, Stop, Other, SpeedFrame, Toggle, Switch, Off

LEMMA Updated ==
  ASSUME NEW S, NEW T, NEW d \in [S -> T], NEW i, NEW v \in T
  PROVE  [d EXCEPT ![i] = v] \in [S -> T]
OBVIOUS

\* The station stays one whatever frame it receives.
LEMMA ReceiveType ==
  ASSUME NEW s \in Station, NEW f \in Frame
  PROVE  Receive(s, f) \in Station
<1>0. /\ s.speed \in [Loco -> Speed] /\ s.forward \in [Loco -> BOOLEAN]
      /\ s.coil \in [Accessory -> BOOLEAN] /\ s.position \in [Accessory -> Position]
  BY DEF Station
<1>1. CASE f = Go
  <2>1. Receive(s, f) = [s EXCEPT !.track = "on"]
    BY <1>1, FrameContents DEF Receive
  <2>2. QED
    BY <2>1 DEF Station
<1>2. CASE f = Stop
  <2>1. Receive(s, f) = [s EXCEPT !.track = "off"]
    BY <1>2, FrameContents DEF Receive
  <2>2. QED
    BY <2>1 DEF Station
<1>3. CASE f = Other
  <2>1. Receive(s, f) = s
    BY <1>3, FrameContents DEF Receive
  <2>2. QED
    BY <2>1
<1>4. ASSUME NEW l \in Loco, NEW v \in Speed, f = SpeedFrame(l, v)
      PROVE  Receive(s, f) \in Station
  <2> DEFINE speeds == [s.speed EXCEPT ![l] = v]
  <2>1. f # Go /\ f # Stop /\ f[1] = "speed" /\ f[2] = l /\ f[3] = v
    BY <1>4, FrameContents
  <2>2. Receive(s, f) = [s EXCEPT !.speed = speeds, !.forward = s.forward]
    BY <2>1 DEF Receive, Station
  <2>3. speeds \in [Loco -> Speed]
    BY <1>0, Updated
  <2> HIDE DEF speeds
  <2>4. QED
    BY <1>0, <2>2, <2>3 DEF Station
<1>5. ASSUME NEW l \in Loco, f = Toggle(l)
      PROVE  Receive(s, f) \in Station
  <2> DEFINE speeds == [s.speed EXCEPT ![l] = 0]
             directions == [s.forward EXCEPT ![l] = ~@]
  <2>1. f # Go /\ f # Stop /\ f[1] = "toggle" /\ f[2] = l
    BY <1>5, FrameContents
  <2>2. Receive(s, f) = [s EXCEPT !.speed[l] = 0, !.forward[l] = ~@]
    BY <2>1 DEF Receive
  <2>3. @ = [s EXCEPT !.speed = speeds, !.forward = directions]
    OBVIOUS
  <2>4. speeds \in [Loco -> Speed] /\ directions \in [Loco -> BOOLEAN]
    BY <1>0, ConfigAssumption
  <2>5. Receive(s, f) = [s EXCEPT !.speed = speeds, !.forward = directions]
    BY <2>2, <2>3
  <2> HIDE DEF speeds, directions
  <2>6. QED
    BY <2>4, <2>5 DEF Station
<1>6. ASSUME NEW a \in Accessory, NEW p \in Position, f = Switch(a, p)
      PROVE  Receive(s, f) \in Station
  <2> DEFINE coils == [s.coil EXCEPT ![a] = TRUE]
             positions == [s.position EXCEPT ![a] = p]
  <2>1. f # Go /\ f # Stop /\ f[1] = "on" /\ f[2] = a /\ f[3] = p
    BY <1>6, FrameContents
  <2>2. Receive(s, f) = [s EXCEPT !.coil[a] = TRUE, !.position[a] = p]
    BY <2>1 DEF Receive
  <2>3. @ = [s EXCEPT !.coil = coils, !.position = positions]
    OBVIOUS
  <2>4. coils \in [Accessory -> BOOLEAN] /\ positions \in [Accessory -> Position]
    BY <1>0, Updated
  <2>5. Receive(s, f) = [s EXCEPT !.coil = coils, !.position = positions]
    BY <2>2, <2>3
  <2> HIDE DEF coils, positions
  <2>6. QED
    BY <2>4, <2>5 DEF Station
<1>7. ASSUME NEW a \in Accessory, f = Off(a)
      PROVE  Receive(s, f) \in Station
  <2> DEFINE coils == [s.coil EXCEPT ![a] = FALSE]
  <2>1. f # Go /\ f # Stop /\ f[1] = "off" /\ f[2] = a
    BY <1>7, FrameContents
  <2>2. Receive(s, f) = [s EXCEPT !.coil = coils, !.position = s.position]
    BY <2>1 DEF Receive, Station
  <2>3. coils \in [Accessory -> BOOLEAN]
    BY <1>0, Updated
  <2> HIDE DEF coils
  <2>4. QED
    BY <1>0, <2>2, <2>3 DEF Station
<1>8. QED
  BY <1>1, <1>2, <1>3, <1>4, <1>5, <1>6, <1>7 DEF Frame

LEMMA WriteFits ==
  ASSUME NEW k, Fits(k), NEW f \in Frame
  PROVE  LET w == WriteFrameNow(k, f)
         IN  Fits(w) /\ w.queue = k.queue /\ w.armed = k.armed /\ w.overflow = k.overflow
<1>1. k \in KernelState /\ k.station \in Station
  BY DEF Fits, KernelState
<1>2. Receive(k.station, f) \in Station
  BY <1>1, ReceiveType
<1>3. WriteFrameNow(k, f) = [k EXCEPT !.station = Receive(k.station, f)]
  BY DEF WriteFrameNow
<1>4. QED
  BY <1>1, <1>2, <1>3 DEF Fits, KernelState

LEMMA WriteGood ==
  ASSUME NEW k, Good(k), NEW f \in Frame
  PROVE  Good(WriteFrameNow(k, f))
BY WriteFits DEF Good, Told

\* Whatever the queue has become, checking it for overflow and starting its timer
\* makes the state right again.
LEMMA RefreshGood ==
  ASSUME NEW k, Fits(k)
  PROVE  Good(ArmTxTimer(CheckTxOverflow(k)))
<1> DEFINE c == CheckTxOverflow(k)
<1>1. c \in KernelState /\ c.queue = k.queue /\ c.armed = k.armed
  <2> DEFINE told == IF config.ignoreWarnings THEN k.calls ELSE Append(k.calls, "stopWorld")
  <2>1. k \in KernelState /\ told \in Seq(Call)
    BY DEF Fits, KernelState, Call
  <2>2. c \in {k, [k EXCEPT !.overflow = TRUE, !.calls = told], [k EXCEPT !.overflow = FALSE]}
    BY DEF CheckTxOverflow
  <2> HIDE DEF told, c
  <2>3. QED
    BY <2>1, <2>2 DEF KernelState
<1>2. Told(c)
  BY ConfigAssumption DEF Fits, KernelState, CheckTxOverflow, Told
<1> HIDE DEF c
<1>3. ArmTxTimer(c) \in KernelState
  BY <1>1 DEF ArmTxTimer, KernelState
<1>4. /\ ArmTxTimer(c).queue = c.queue
      /\ ArmTxTimer(c).overflow = c.overflow
      /\ c.queue # <<>> => ArmTxTimer(c).armed
  BY <1>1 DEF ArmTxTimer, KernelState
<1>5. Good(ArmTxTimer(c))
  BY <1>1, <1>2, <1>3, <1>4 DEF Good, Fits, Told
<1>6. QED
  BY <1>5 DEF c

LEMMA EnqueueGood ==
  ASSUME NEW k, Good(k), NEW f \in Frame
  PROVE  Good(EnqueueTx(k, f))
<1>1. CASE Len(k.queue) >= QueueLimit
  <2>1. CheckTxOverflow(k) = k
    BY <1>1 DEF Good, Told, CheckTxOverflow
  <2>2. EnqueueTx(k, f) = [k EXCEPT !.lost = TRUE]
    BY <1>1, <2>1 DEF EnqueueTx
  <2>3. QED
    BY <2>2 DEF Good, Fits, Told, KernelState
<1>2. CASE ~(Len(k.queue) >= QueueLimit)
  <2> DEFINE queue == Append(k.queue, f)
             longer == [k EXCEPT !.queue = queue]
  <2>0. k \in KernelState /\ queue \in Seq(Frame) /\ Len(queue) <= QueueLimit
    BY <1>2, ConfigAssumption DEF Good, Fits, KernelState
  <2> HIDE DEF queue
  <2>1. Fits(longer)
    BY <2>0 DEF Fits, KernelState
  <2> HIDE DEF longer
  <2>2. Good(ArmTxTimer(CheckTxOverflow(longer)))
    BY <2>1, RefreshGood
  <2>3. QED
    BY <1>2, <2>2 DEF EnqueueTx, longer, queue
<1>3. QED
  BY <1>1, <1>2

LEMMA SendGood ==
  ASSUME NEW k, Good(k), NEW f \in Frame
  PROVE  Good(SendRaw(k, f))
BY WriteGood, EnqueueGood DEF SendRaw

LEMMA RepeatGood ==
  ASSUME NEW k, Good(k), NEW now \in BOOLEAN, NEW slots \in Seq(Frame \cup {Pause})
  PROVE  Good(Repeat(k, now, slots))
<1>1. CASE slots = <<>>
  BY <1>1 DEF Repeat
<1>2. CASE slots # <<>>
  <2> DEFINE r == [now |-> now, slots |-> slots]
  <2>1. r \in Repeating
    BY <1>2 DEF Repeating
  <2> DEFINE more == Append(k.repeating, r)
  <2>2. Repeat(k, now, slots) = [k EXCEPT !.repeating = more]
    BY <1>2 DEF Repeat
  <2> HIDE DEF r
  <2>3. more \in Seq(Repeating)
    BY <2>1 DEF Good, Fits, KernelState
  <2> HIDE DEF more
  <2>4. QED
    BY <2>2, <2>3 DEF Good, Fits, Told, KernelState
<1>3. QED
  BY <1>1, <1>2

LEMMA TimesType ==
  ASSUME NEW n \in Nat, NEW f
  PROVE  /\ f \in Frame => Times(n, f) \in Seq(Frame \cup {Pause})
         /\ Times(n, Pause) \in Seq(Frame \cup {Pause})
BY DEF Times

-----------------------------------------------------------------------------
LEMMA InvSplit == /\ SessionInv <=> SendInv /\ HandlerInv
                  /\ SessionInv' <=> SendInv' /\ HandlerInv'
BY DEF SessionInv, SendInv, HandlerInv, TypeOK, Fits, KernelState, Kernel

LEMMA KernelGood ==
  ASSUME SendInv, online
  PROVE  Good(Kernel)
BY DEF SendInv, QueueServed, OverflowTold, Good, Told, Kernel

LEMMA BecomesGood ==
  ASSUME NEW k, Good(k), Becomes(k)
  PROVE  SendInv'
<1>1. k \in KernelState /\ Kernel' = k
  BY DEF Good, Fits, Becomes, Kernel, KernelState
<1>2. Fits(Kernel)'
  BY <1>1 DEF Good, Fits
<1>3. QueueServed' /\ OverflowTold'
  BY <1>1 DEF Good, Fits, Becomes, Told, QueueServed, OverflowTold
<1>4. QED
  BY <1>2, <1>3 DEF SendInv

\* The sends of the handlers.
LEMMA RedundancyGood ==
  ASSUME HandlerInv, NEW k, Good(k), NEW f \in Frame
  PROVE  Good(SendWithRedundancy(k, f)) /\ Good(SendImmediateWithRedundancy(k, f))
<1>1. Times(config.redundancy, f) \in Seq(Frame \cup {Pause})
  <2>1. config.redundancy \in Nat
    BY ConfigAssumption DEF HandlerInv
  <2>2. QED
    BY <2>1, TimesType
<1>2. Good(SendRaw(k, f)) /\ Good(WriteFrameNow(k, f))
  BY SendGood, WriteGood
<1>3. QED
  BY <1>1, <1>2, RepeatGood DEF SendWithRedundancy, SendImmediateWithRedundancy

LEMMA CalledGood ==
  ASSUME NEW k, Good(k), NEW calls \in Seq(Call)
  PROVE  Good([k EXCEPT !.calls = calls])
BY DEF Good, Fits, Told, KernelState

LEMMA WorldEventInv ==
  ASSUME HandlerInv, NEW k, Good(k), NEW event \in {"PowerOn", "PowerOff", "Run", "Stop"},
         WorldEvent(k, event)
  PROVE  SendInv' /\ power' \in BOOLEAN /\ run' \in BOOLEAN
<1> DEFINE told == IF event \in {"PowerOff", "Stop"} THEN SendImmediateWithRedundancy(k, Stop)
                   ELSE SendWithRedundancy(k, Go)
           calls == told.calls \o CoupledCalls(event)
<1>1. Good(told)
  BY RedundancyGood, FramesAreFrames
<1>2. CoupledCalls(event) \in Seq(Call)
  <2>1. CoupledCalls(event) \in {<<"powerOff">>, <<"run">>, <<>>}
    BY DEF CoupledCalls
  <2>2. <<"powerOff">> \in Seq(Call) /\ <<"run">> \in Seq(Call) /\ <<>> \in Seq(Call)
    BY DEF Call
  <2>3. QED
    BY <2>1, <2>2
<1>3. Becomes([told EXCEPT !.calls = calls])
  BY DEF WorldEvent
<1>4. power' \in BOOLEAN /\ run' \in BOOLEAN
  BY DEF WorldEvent, PowerAfter, RunAfter, HandlerInv
<1> HIDE DEF told
<1>5. calls \in Seq(Call)
  BY <1>1, <1>2 DEF Good, Fits, KernelState
<1> HIDE DEF calls
<1>6. QED
  BY <1>1, <1>3, <1>4, <1>5, CalledGood, BecomesGood

-----------------------------------------------------------------------------
LEMMA InitInv == Init => SessionInv
<1> SUFFICES ASSUME Init PROVE SendInv /\ HandlerInv
  BY InvSplit
<1>1. station \in Station
  BY ConfigAssumption DEF Init, Station, Position
<1>2. Kernel \in KernelState
  <2>1. txQueue \in Seq(Frame) /\ redundancyTimers \in Seq(Repeating) /\ loop \in Seq(Call)
    BY DEF Init
  <2>2. txTimerArmed \in BOOLEAN /\ txOverflowFired \in BOOLEAN /\ lost \in BOOLEAN
    BY DEF Init
  <2>3. QED
    BY <1>1, <2>1, <2>2 DEF Kernel, KernelState
<1>3. SendInv
  BY <1>2, ConfigAssumption DEF Init, SendInv, Fits, QueueServed, OverflowTold, Kernel
<1>4. HandlerInv
  <2>1. decoder \in [Loco -> Decoder]
    BY ConfigAssumption DEF Init, Decoder
  <2>2. output \in [Accessory -> Position] /\ config \in Config
    BY DEF Init, Position
  <2>3. /\ power \in BOOLEAN /\ run \in BOOLEAN /\ online \in BOOLEAN
        /\ cts \in BOOLEAN /\ crashFired \in BOOLEAN
    BY DEF Init
  <2>4. ctsLow \in -1..CrashSeconds /\ ctsLow # CrashSeconds
    BY ConfigAssumption DEF Init
  <2>5. CrashTold
    BY <2>4 DEF Init, CrashTold
  <2>6. QED
    BY <2>1, <2>2, <2>3, <2>4, <2>5 DEF HandlerInv
<1>5. QED
  BY <1>3, <1>4

\* The steps of the kernel: its timers and what the users send through it.
LEMMA DrainTxInv ==
  ASSUME SendInv, HandlerInv, online, DrainTx
  PROVE  SendInv'
<1> DEFINE k == [Kernel EXCEPT !.armed = FALSE]
<1>1. Good(Kernel) /\ Kernel \in KernelState
  BY KernelGood DEF Good, Fits
<1>2. Kernel.queue = txQueue
  BY DEF Kernel
<1>3. CASE txQueue = <<>>
  <2>1. Good(k)
    BY <1>1, <1>2, <1>3 DEF Good, Fits, Told, KernelState
  <2>2. Becomes(k)
    BY <1>3 DEF DrainTx
  <2> HIDE DEF k
  <2>3. QED
    BY <2>1, <2>2, BecomesGood
<1>4. CASE txQueue # <<>>
  <2> DEFINE rest == Tail(txQueue)
             shorter == [k EXCEPT !.queue = rest]
             sent == WriteFrameNow(shorter, Head(txQueue))
  <2>1. /\ rest \in Seq(Frame) /\ Len(rest) <= QueueLimit
        /\ Head(txQueue) \in Frame
    BY <1>1, <1>2, <1>4, ConfigAssumption DEF Good, Fits, KernelState
  <2> HIDE DEF rest
  <2>2. Fits(shorter)
    BY <1>1, <2>1 DEF Fits, KernelState
  <2>3. shorter = [k EXCEPT !.queue = Tail(@)]
    BY <1>1, <1>2 DEF KernelState, rest
  <2> HIDE DEF shorter
  <2>4. Fits(sent)
    BY <2>1, <2>2, WriteFits
  <2> HIDE DEF sent
  <2>5. Good(ArmTxTimer(CheckTxOverflow(sent)))
    BY <2>4, RefreshGood
  <2>6. Becomes(ArmTxTimer(CheckTxOverflow(sent)))
    BY <1>4, <2>3 DEF DrainTx, sent
  <2>7. QED
    BY <2>5, <2>6, BecomesGood
<1>5. QED
  BY <1>3, <1>4

LEMMA RedundancyTimerInv ==
  ASSUME SendInv, HandlerInv, online, RedundancyTimer
  PROVE  SendInv'
<1> DEFINE t == Head(redundancyTimers)
           others == Tail(redundancyTimers)
           expired == [Kernel EXCEPT !.repeating = others]
           k == Repeat(expired, t.now, Tail(t.slots))
           f == Head(t.slots)
<1>1. Good(Kernel) /\ Kernel \in KernelState
  BY KernelGood DEF Good, Fits
<1>2. redundancyTimers \in Seq(Repeating) /\ redundancyTimers # <<>>
  BY <1>1 DEF Kernel, KernelState, RedundancyTimer
<1>3. t \in Repeating /\ others \in Seq(Repeating)
  BY <1>2
<1>4. Becomes(IF f = Pause THEN k ELSE IF t.now THEN WriteFrameNow(k, f) ELSE SendRaw(k, f))
  BY DEF RedundancyTimer, Kernel
<1> HIDE DEF t, others
<1>5. t.now \in BOOLEAN /\ t.slots \in Seq(Frame \cup {Pause}) /\ t.slots # <<>>
  BY <1>3 DEF Repeating
<1>6. f \in Frame \cup {Pause} /\ Tail(t.slots) \in Seq(Frame \cup {Pause})
  BY <1>5
<1>7. Good(expired)
  BY <1>1, <1>3 DEF Good, Fits, Told, KernelState
<1> HIDE DEF f, expired
<1>8. Good(k)
  BY <1>5, <1>6, <1>7, RepeatGood
<1> HIDE DEF k
<1>9. Good(IF f = Pause THEN k ELSE IF t.now THEN WriteFrameNow(k, f) ELSE SendRaw(k, f))
  BY <1>6, <1>8, WriteGood, SendGood
<1>10. QED
  BY <1>4, <1>9, BecomesGood

\* The steps of the world: buttons and the calls queued for the event loop.
LEMMA RunCallInv ==
  ASSUME SendInv, HandlerInv, online, RunCall
  PROVE  SendInv' /\ power' \in BOOLEAN /\ run' \in BOOLEAN
<1> DEFINE calls == Tail(loop)
           k == [Kernel EXCEPT !.calls = calls]
<1>1. Good(Kernel) /\ Kernel \in KernelState
  BY KernelGood DEF Good, Fits
<1>2. calls \in Seq(Call)
  BY <1>1 DEF Kernel, KernelState, RunCall
<1>3. \/ WorldEvent(k, "Run") \/ WorldEvent(k, "PowerOff")
      \/ Becomes(k) /\ UNCHANGED world
  BY DEF RunCall, Kernel
<1> HIDE DEF calls
<1>4. Good(k)
  BY <1>1, <1>2, CalledGood
<1> HIDE DEF k
<1>5. CASE WorldEvent(k, "Run") \/ WorldEvent(k, "PowerOff")
  BY <1>4, <1>5, WorldEventInv
<1>6. CASE Becomes(k) /\ UNCHANGED world
  BY <1>4, <1>6, BecomesGood DEF world, HandlerInv
<1>7. QED
  BY <1>3, <1>5, <1>6

\* The steps of the decoders and the outputs.
LEMMA DecoderStepInv ==
  ASSUME SendInv, HandlerInv, online, NEW l \in Loco,
         \/ \E s \in Speed : SetThrottle(l, s)
         \/ SetDirection(l) \/ SetFunction(l) \/ SetEmergencyStop(l)
  PROVE  SendInv' /\ decoder' \in [Loco -> Decoder]
<1>1. Good(Kernel)
  BY KernelGood
<1>2. decoder[l] \in Decoder /\ 0 \in Speed
  BY ConfigAssumption DEF HandlerInv
<1>3. ASSUME NEW d \in Decoder PROVE CommandedSpeed(d) \in Speed
  BY <1>2 DEF CommandedSpeed, Decoder
<1>4. ASSUME NEW s \in Speed, SetThrottle(l, s)
      PROVE  SendInv' /\ decoder' \in [Loco -> Decoder]
  <2>1. decoder' \in [Loco -> Decoder]
    BY <1>2, <1>4 DEF SetThrottle, HandlerInv, Decoder
  <2>2. SpeedFrame(l, CommandedSpeed(decoder'[l])) \in Frame
    BY <1>3, <2>1, FramesAreFrames
  <2>3. Good(SendWithRedundancy(Kernel, SpeedFrame(l, CommandedSpeed(decoder'[l]))))
    BY <1>1, <2>2, RedundancyGood
  <2>4. QED
    BY <1>4, <2>1, <2>3, BecomesGood DEF SetThrottle
<1>5. CASE SetDirection(l)
  <2>1. decoder' \in [Loco -> Decoder]
    BY <1>2, <1>5 DEF SetDirection, HandlerInv, Decoder
  <2>2. Good(SendRaw(Kernel, Toggle(l)))
    BY <1>1, FramesAreFrames, SendGood
  <2>3. QED
    BY <1>5, <2>1, <2>2, BecomesGood DEF SetDirection, SendDirection
<1>6. CASE SetFunction(l)
  <2>1. SpeedFrame(l, CommandedSpeed(decoder[l])) \in Frame
    BY <1>2, <1>3, FramesAreFrames
  <2>2. Good(SendWithRedundancy(Kernel, SpeedFrame(l, CommandedSpeed(decoder[l]))))
    BY <1>1, <2>1, RedundancyGood
  <2>3. QED
    BY <1>6, <2>2, BecomesGood DEF SetFunction, HandlerInv
<1>7. CASE SetEmergencyStop(l)
  <2>1. decoder' \in [Loco -> Decoder]
    BY <1>2, <1>7 DEF SetEmergencyStop, HandlerInv, Decoder
  <2>2. Good(SendWithRedundancy(Kernel, SpeedFrame(l, 0)))
    BY <1>1, <1>2, FramesAreFrames, RedundancyGood
  <2>3. <<Toggle(l)>> \in Seq(Frame \cup {Pause})
    BY FramesAreFrames
  <2>4. Good(EmergencyStop(l))
    BY <1>1, <2>3, FramesAreFrames, WriteGood, RepeatGood DEF EmergencyStop
  <2>5. QED
    BY <1>7, <2>1, <2>2, <2>4, BecomesGood DEF SetEmergencyStop
<1>8. QED
  BY <1>4, <1>5, <1>6, <1>7

LEMMA SetOutputInv ==
  ASSUME SendInv, HandlerInv, online, NEW a \in Accessory, NEW p \in Position, SetOutput(a, p)
  PROVE  SendInv' /\ output' \in [Accessory -> Position]
<1> DEFINE slots == AccessorySlots(a, p)
<1>1. Good(SendRaw(Kernel, Switch(a, p)))
  BY KernelGood, FramesAreFrames, SendGood
<1>2. config.redundancy \in Nat /\ PulseSlots - 1 \in Nat
  BY ConfigAssumption DEF HandlerInv
<1>3. /\ Times(config.redundancy, Switch(a, p)) \in Seq(Frame \cup {Pause})
      /\ Times(PulseSlots - 1, Pause) \in Seq(Frame \cup {Pause})
      /\ <<Off(a)>> \in Seq(Frame \cup {Pause})
      /\ Times(config.redundancy, Off(a)) \in Seq(Frame \cup {Pause})
  <2>1. Switch(a, p) \in Frame /\ Off(a) \in Frame
    BY FramesAreFrames
  <2>2. <<Off(a)>> \in Seq(Frame \cup {Pause})
    BY <2>1
  <2>3. QED
    BY <1>2, <2>1, <2>2, TimesType
<1>4. slots \in Seq(Frame \cup {Pause})
  BY <1>3 DEF AccessorySlots
<1> HIDE DEF slots
<1>5. Good(Repeat(SendRaw(Kernel, Switch(a, p)), FALSE, slots))
  BY <1>1, <1>4, RepeatGood
<1>6. Becomes(Repeat(SendRaw(Kernel, Switch(a, p)), FALSE, slots))
  BY DEF SetOutput, slots
<1>7. output' \in [Accessory -> Position]
  BY DEF SetOutput, HandlerInv
<1>8. QED
  BY <1>5, <1>6, <1>7, BecomesGood

\* The crash monitor, which touches nothing of the queue.
LEMMA CtsMonitorInv ==
  ASSUME SendInv, HandlerInv, CtsMonitor
  PROVE  /\ SendInv'
         /\ ctsLow' \in -1..CrashSeconds /\ crashFired' \in BOOLEAN /\ CrashTold'
<1>1. /\ loop' \in {loop, Append(loop, "stopWorld")}
      /\ UNCHANGED <<txQueue, txTimerArmed, txOverflowFired, redundancyTimers, station, lost,
                     online>>
  BY DEF CtsMonitor
<1>2. Kernel \in KernelState /\ Len(txQueue) <= QueueLimit
  BY DEF SendInv, Fits, Kernel
<1>3. loop' \in Seq(Call)
  BY <1>1, <1>2 DEF Kernel, KernelState, Call
<1>4. Fits(Kernel)'
  BY <1>1, <1>2, <1>3 DEF Fits, Kernel, KernelState
<1>5. SendInv'
  BY <1>1, <1>4 DEF SendInv, QueueServed, OverflowTold
<1>6. ctsLow' \in -1..CrashSeconds
  BY ConfigAssumption DEF CtsMonitor, HandlerInv
<1>7. crashFired' \in BOOLEAN /\ CrashTold'
  <2>1. CASE cts
    <3>1. ctsLow' # CrashSeconds
      BY <2>1, ConfigAssumption DEF CtsMonitor
    <3>2. crashFired' = FALSE
      BY <2>1 DEF CtsMonitor
    <3>3. QED
      BY <3>1, <3>2 DEF CrashTold
  <2>2. CASE ~cts
    <3>1. ctsLow = CrashSeconds => ctsLow' = CrashSeconds
      BY <2>2, ConfigAssumption DEF CtsMonitor
    <3>2. crashFired' = (crashFired \/ ctsLow' = CrashSeconds)
      BY <2>2 DEF CtsMonitor
    <3>3. crashFired => ctsLow = CrashSeconds
      BY DEF HandlerInv, CrashTold
    <3>4. QED
      BY <3>1, <3>2, <3>3 DEF CrashTold
  <2>3. QED
    BY <2>1, <2>2
<1>8. QED
  BY <1>5, <1>6, <1>7

-----------------------------------------------------------------------------
LEMMA NextInv == SessionInv /\ [Next]_vars => SessionInv'
<1> SUFFICES ASSUME SendInv, HandlerInv, [Next]_vars
             PROVE  SendInv' /\ HandlerInv'
  BY InvSplit
<1> USE DEF HandlerInv
<1>1. CASE UNCHANGED vars
  BY <1>1 DEF vars, SendInv, Fits, KernelState, Kernel, QueueServed, OverflowTold, CrashTold
<1> SUFFICES ASSUME online, UserStep \/ KernelStep \/ RunCall \/ CtsChanges
             PROVE  SendInv' /\ HandlerInv'
  BY <1>1 DEF Next
<1>2. ASSUME NEW event \in Button, WorldButton(event)
      PROVE  SendInv' /\ HandlerInv'
  <2>1. event \in {"PowerOn", "PowerOff", "Run", "Stop"} /\ Good(Kernel)
    BY ConfigAssumption, KernelGood
  <2>2. SendInv' /\ power' \in BOOLEAN /\ run' \in BOOLEAN
    BY <1>2, <2>1, WorldEventInv DEF WorldButton
  <2>3. QED
    BY <1>2, <2>2 DEF WorldButton, monitor, CrashTold
<1>3. ASSUME NEW l \in Loco,
             \/ \E s \in Speed : SetThrottle(l, s)
             \/ SetDirection(l) \/ SetFunction(l) \/ SetEmergencyStop(l)
      PROVE  SendInv' /\ HandlerInv'
  <2>1. SendInv' /\ decoder' \in [Loco -> Decoder]
    BY <1>3, DecoderStepInv
  <2>2. UNCHANGED commanded
    BY <1>3 DEF SetThrottle, SetDirection, SetFunction, SetEmergencyStop
  <2>3. QED
    BY <2>1, <2>2 DEF commanded, world, monitor, CrashTold
<1>4. CASE SetFunctions1to4
  <2>1. Good(SendWithRedundancy(Kernel, Other))
    BY KernelGood, FramesAreFrames, RedundancyGood
  <2>2. SendInv'
    BY <1>4, <2>1, BecomesGood DEF SetFunctions1to4
  <2>3. QED
    BY <1>4, <2>2 DEF SetFunctions1to4, commanded, world, monitor, CrashTold
<1>5. ASSUME NEW a \in Accessory, NEW p \in Position, SetOutput(a, p)
      PROVE  SendInv' /\ HandlerInv'
  <2>1. SendInv' /\ output' \in [Accessory -> Position]
    BY <1>5, SetOutputInv
  <2>2. QED
    BY <1>5, <2>1 DEF SetOutput, world, monitor, CrashTold
<1>6. CASE GoOffline
  <2>1. Fits(Kernel)'
    <3>1. Kernel \in KernelState
      BY DEF SendInv, Fits
    <3>2. /\ txQueue' \in Seq(Frame) /\ Len(txQueue') <= QueueLimit
          /\ redundancyTimers' \in Seq(Repeating)
      BY <1>6, ConfigAssumption DEF GoOffline
    <3>3. txTimerArmed' \in BOOLEAN
      BY <1>6 DEF GoOffline
    <3>4. UNCHANGED <<loop, txOverflowFired, station, lost>>
      BY <1>6 DEF GoOffline
    <3>5. QED
      BY <3>1, <3>2, <3>3, <3>4 DEF Fits, KernelState, Kernel
  <2>2. QueueServed' /\ OverflowTold'
    BY <1>6 DEF GoOffline, QueueServed, OverflowTold
  <2>3. QED
    BY <1>6, <2>1, <2>2 DEF GoOffline, SendInv, world, monitor, CrashTold
<1>7. CASE DrainTx
  <2>1. SendInv'
    BY <1>7, DrainTxInv
  <2>2. QED
    BY <1>7, <2>1 DEF DrainTx, world, monitor, CrashTold
<1>8. CASE RedundancyTimer
  <2>1. SendInv'
    BY <1>8, RedundancyTimerInv
  <2>2. QED
    BY <1>8, <2>1 DEF RedundancyTimer, world, monitor, CrashTold
<1>9. CASE Poll
  <2>1. Good(SendRaw(Kernel, Other))
    BY KernelGood, FramesAreFrames, SendGood
  <2>2. SendInv'
    BY <1>9, <2>1, BecomesGood DEF Poll
  <2>3. QED
    BY <1>9, <2>2 DEF Poll, world, monitor, CrashTold
<1>10. CASE CtsMonitor
  <2>1. /\ SendInv'
        /\ ctsLow' \in -1..CrashSeconds /\ crashFired' \in BOOLEAN /\ CrashTold'
    BY <1>10, CtsMonitorInv
  <2>2. QED
    BY <1>10, <2>1 DEF CtsMonitor, world
<1>11. CASE RunCall
  <2>1. SendInv' /\ power' \in BOOLEAN /\ run' \in BOOLEAN
    BY <1>11, RunCallInv
  <2>2. QED
    BY <1>11, <2>1 DEF RunCall, monitor, CrashTold
<1>12. CASE CtsChanges
  <2>1. SendInv'
    BY <1>12 DEF CtsChanges, SendInv, Fits, KernelState, Kernel, QueueServed, OverflowTold
  <2>2. QED
    BY <1>12, <2>1 DEF CtsChanges, world, CrashTold
<1>13. QED
  BY <1>2, <1>3, <1>4, <1>5, <1>6, <1>7, <1>8, <1>9, <1>10, <1>11, <1>12 DEF UserStep, KernelStep

LEMMA SessionAlways == Spec => []SessionInv
BY InitInv, NextInv, PTL DEF Spec

\* Every variable of a session keeps its type and the queue never holds more than its
\* limit, for any number of locos and accessories and any settings: no handler can
\* undo what enqueueTx checks.
THEOREM TypeCorrect == Spec => []TypeOK
<1>1. SessionInv => TypeOK
  BY DEF SessionInv
<1>2. QED
  BY <1>1, SessionAlways, PTL

\* Frames that wait always have a timer running for them, whichever of the users,
\* the repetitions, the polls and drainTx itself touched the queue last.
THEOREM QueueAlwaysServed == Spec => []QueueServed
<1>1. SessionInv => QueueServed
  BY DEF SessionInv
<1>2. QED
  BY <1>1, SessionAlways, PTL

\* The overflow's flag follows the queue: set when it is full and cleared when less
\* than half of it is left, for every limit and every order of sends and drains.
THEOREM OverflowAlwaysTold == Spec => []OverflowTold
<1>1. SessionInv => OverflowTold
  BY DEF SessionInv
<1>2. QED
  BY <1>1, SessionAlways, PTL

\* The crash flag says that the line has been low for as long as a crash takes, for
\* every length of that time.
THEOREM CrashAlwaysTold == Spec => []CrashTold
<1>1. SessionInv => CrashTold
  BY DEF SessionInv
<1>2. QED
  BY <1>1, SessionAlways, PTL

-----------------------------------------------------------------------------
(* The coupling of power and run. As long as no go and no stop has been    *)
(* given, the layout's power is unknown and power and run may differ, as   *)
(* the world was loaded. From then on they agree or a call that makes them *)
(* agree is queued: sends add calls and never take one away.               *)

Neutral == Frame \ {Go, Stop}
NeutralRepeating == [now: BOOLEAN, slots: Seq(Neutral \cup {Pause}) \ {<<>>}]

\* No go and no stop has been given.
Untold(k) ==
  /\ k.station.track = "unknown"
  /\ k.queue \in Seq(Neutral)
  /\ k.repeating \in Seq(NeutralRepeating)

\* What every send keeps: the calls that are queued and, if it is no go and no stop,
\* that none was given.
Keeps(k, r, neutral) ==
  /\ k.calls # <<>> => r.calls # <<>>
  /\ neutral /\ Untold(k) => Untold(r)

\* The strengthening of PowerRunCoupled that is inductive.
CoupledInv ==
  /\ run => power
  /\ Untold(Kernel) \/ power = run \/ loop # <<>>

-----------------------------------------------------------------------------
LEMMA NeutralFrames ==
  /\ Other \in Neutral
  /\ \A l \in Loco : Toggle(l) \in Neutral /\ \A s \in Speed : SpeedFrame(l, s) \in Neutral
  /\ \A a \in Accessory : Off(a) \in Neutral /\ \A p \in Position : Switch(a, p) \in Neutral
BY FramesAreFrames, FrameContents DEF Neutral

\* Only go and stop change the layout's power.
LEMMA ReceiveTrack ==
  ASSUME NEW s \in Station, NEW f \in Neutral
  PROVE  Receive(s, f).track = s.track
<1>1. f # Go /\ f # Stop
  BY DEF Neutral
<1>2. CASE f = Other
  BY <1>2, FrameContents DEF Receive
<1>3. ASSUME NEW l \in Loco, NEW v \in Speed, f = SpeedFrame(l, v)
      PROVE  Receive(s, f).track = s.track
  <2>1. f[1] = "speed"
    BY <1>3, FrameContents
  <2>2. Receive(s, f) = [s EXCEPT !.speed[f[2]] = f[3]]
    BY <1>1, <2>1 DEF Receive
  <2>3. QED
    BY <2>2 DEF Station
<1>4. ASSUME NEW l \in Loco, f = Toggle(l)
      PROVE  Receive(s, f).track = s.track
  <2>1. f[1] = "toggle"
    BY <1>4, FrameContents
  <2>2. Receive(s, f) = [s EXCEPT !.speed[f[2]] = 0, !.forward[f[2]] = ~@]
    BY <1>1, <2>1 DEF Receive
  <2>3. QED
    BY <2>2 DEF Station
<1>5. ASSUME NEW a \in Accessory, NEW p \in Position, f = Switch(a, p)
      PROVE  Receive(s, f).track = s.track
  <2>1. f[1] = "on"
    BY <1>5, FrameContents
  <2>2. Receive(s, f) = [s EXCEPT !.coil[f[2]] = TRUE, !.position[f[2]] = f[3]]
    BY <1>1, <2>1 DEF Receive
  <2>3. QED
    BY <2>2 DEF Station
<1>6. ASSUME NEW a \in Accessory, f = Off(a)
      PROVE  Receive(s, f).track = s.track
  <2>1. f[1] = "off"
    BY <1>6, FrameContents
  <2>2. Receive(s, f) = [s EXCEPT !.coil[f[2]] = FALSE]
    BY <1>1, <2>1 DEF Receive
  <2>3. QED
    BY <2>2 DEF Station
<1>7. QED
  BY <1>2, <1>3, <1>4, <1>5, <1>6 DEF Neutral, Frame

LEMMA WriteKeeps ==
  ASSUME NEW k, Fits(k), NEW f \in Frame
  PROVE  Keeps(k, WriteFrameNow(k, f), f \in Neutral)
<1>1. k \in KernelState /\ k.station \in Station
  BY DEF Fits, KernelState
<1>2. WriteFrameNow(k, f) = [k EXCEPT !.station = Receive(k.station, f)]
  BY DEF WriteFrameNow
<1>3. f \in Neutral => Receive(k.station, f).track = k.station.track
  BY <1>1, ReceiveTrack
<1>4. QED
  BY <1>1, <1>2, <1>3 DEF Keeps, Untold, KernelState

LEMMA RefreshKeeps ==
  ASSUME NEW k, Fits(k)
  PROVE  Keeps(k, ArmTxTimer(CheckTxOverflow(k)), TRUE)
<1> DEFINE c == CheckTxOverflow(k)
           told == IF config.ignoreWarnings THEN k.calls ELSE Append(k.calls, "stopWorld")
<1>1. k \in KernelState /\ told \in Seq(Call) /\ (k.calls # <<>> => told # <<>>)
  BY DEF Fits, KernelState, Call
<1>2. c \in {k, [k EXCEPT !.overflow = TRUE, !.calls = told], [k EXCEPT !.overflow = FALSE]}
  BY DEF CheckTxOverflow
<1> HIDE DEF told, c
<1>3. /\ c \in KernelState
      /\ c.queue = k.queue /\ c.repeating = k.repeating /\ c.station = k.station
      /\ k.calls # <<>> => c.calls # <<>>
  BY <1>1, <1>2 DEF KernelState
<1>4. /\ ArmTxTimer(c).queue = c.queue /\ ArmTxTimer(c).repeating = c.repeating
      /\ ArmTxTimer(c).station = c.station /\ ArmTxTimer(c).calls = c.calls
  BY <1>3 DEF ArmTxTimer, KernelState
<1>5. Keeps(k, ArmTxTimer(c), TRUE)
  BY <1>3, <1>4 DEF Keeps, Untold
<1>6. QED
  BY <1>5 DEF c

LEMMA SendKeeps ==
  ASSUME NEW k, Good(k), NEW f \in Frame
  PROVE  Keeps(k, SendRaw(k, f), f \in Neutral)
<1>1. CASE ~config.commandQueue
  BY <1>1, WriteKeeps DEF SendRaw, Good
<1>2. CASE config.commandQueue /\ Len(k.queue) >= QueueLimit
  <2>1. CheckTxOverflow(k) = k
    BY <1>2 DEF Good, Told, CheckTxOverflow
  <2>2. SendRaw(k, f) = [k EXCEPT !.lost = TRUE]
    BY <1>2, <2>1 DEF SendRaw, EnqueueTx
  <2>3. QED
    BY <2>2 DEF Good, Fits, KernelState, Keeps, Untold
<1>3. CASE config.commandQueue /\ ~(Len(k.queue) >= QueueLimit)
  <2> DEFINE queue == Append(k.queue, f)
             longer == [k EXCEPT !.queue = queue]
  <2>1. k \in KernelState /\ queue \in Seq(Frame) /\ Len(queue) <= QueueLimit
    BY <1>3, ConfigAssumption DEF Good, Fits, KernelState
  <2>2. f \in Neutral /\ k.queue \in Seq(Neutral) => queue \in Seq(Neutral)
    OBVIOUS
  <2> HIDE DEF queue
  <2>3. Fits(longer)
    BY <2>1 DEF Fits, KernelState
  <2>4. Keeps(k, longer, f \in Neutral)
    BY <2>1, <2>2 DEF KernelState, Keeps, Untold
  <2> HIDE DEF longer
  <2>5. Keeps(longer, ArmTxTimer(CheckTxOverflow(longer)), TRUE)
    BY <2>3, RefreshKeeps
  <2>6. SendRaw(k, f) = ArmTxTimer(CheckTxOverflow(longer))
    BY <1>3 DEF SendRaw, EnqueueTx, longer, queue
  <2>7. QED
    BY <2>4, <2>5, <2>6 DEF Keeps
<1>4. QED
  BY <1>1, <1>2, <1>3

LEMMA RepeatKeeps ==
  ASSUME NEW k, Good(k), NEW now \in BOOLEAN, NEW slots \in Seq(Frame \cup {Pause})
  PROVE  Keeps(k, Repeat(k, now, slots), slots \in Seq(Neutral \cup {Pause}))
<1>1. CASE slots = <<>>
  BY <1>1 DEF Repeat, Keeps
<1>2. CASE slots # <<>>
  <2> DEFINE r == [now |-> now, slots |-> slots]
             more == Append(k.repeating, r)
  <2>1. slots \in Seq(Neutral \cup {Pause}) => r \in NeutralRepeating
    BY <1>2 DEF NeutralRepeating
  <2>2. Repeat(k, now, slots) = [k EXCEPT !.repeating = more]
    BY <1>2 DEF Repeat
  <2> HIDE DEF r
  <2>3. r \in NeutralRepeating /\ k.repeating \in Seq(NeutralRepeating)
          => more \in Seq(NeutralRepeating)
    OBVIOUS
  <2> HIDE DEF more
  <2>4. QED
    BY <2>1, <2>2, <2>3 DEF Good, Fits, KernelState, Keeps, Untold
<1>3. QED
  BY <1>1, <1>2

LEMMA TimesNeutral ==
  ASSUME NEW n \in Nat, NEW f
  PROVE  /\ f \in Neutral => Times(n, f) \in Seq(Neutral \cup {Pause})
         /\ Times(n, Pause) \in Seq(Neutral \cup {Pause})
BY DEF Times

LEMMA RedundancyKeeps ==
  ASSUME HandlerInv, NEW k, Good(k), NEW f \in Frame
  PROVE  /\ Keeps(k, SendWithRedundancy(k, f), f \in Neutral)
         /\ Keeps(k, SendImmediateWithRedundancy(k, f), f \in Neutral)
<1> DEFINE slots == Times(config.redundancy, f)
<1>1. config.redundancy \in Nat
  BY ConfigAssumption DEF HandlerInv
<1>2. slots \in Seq(Frame \cup {Pause}) /\ (f \in Neutral => slots \in Seq(Neutral \cup {Pause}))
  BY <1>1, TimesType, TimesNeutral
<1> HIDE DEF slots
<1>3. Good(SendRaw(k, f)) /\ Good(WriteFrameNow(k, f))
  BY SendGood, WriteGood
<1>4. Keeps(k, SendRaw(k, f), f \in Neutral) /\ Keeps(k, WriteFrameNow(k, f), f \in Neutral)
  BY SendKeeps, WriteKeeps DEF Good
<1>5. /\ Keeps(SendRaw(k, f), Repeat(SendRaw(k, f), FALSE, slots),
               slots \in Seq(Neutral \cup {Pause}))
      /\ Keeps(WriteFrameNow(k, f), Repeat(WriteFrameNow(k, f), TRUE, slots),
               slots \in Seq(Neutral \cup {Pause}))
  BY <1>2, <1>3, RepeatKeeps
<1>6. /\ SendWithRedundancy(k, f) = Repeat(SendRaw(k, f), FALSE, slots)
      /\ SendImmediateWithRedundancy(k, f) = Repeat(WriteFrameNow(k, f), TRUE, slots)
  BY DEF SendWithRedundancy, SendImmediateWithRedundancy, slots
<1>7. QED
  BY <1>2, <1>4, <1>5, <1>6 DEF Keeps

\* A step that gives no go and no stop to a layout that was never given one.
StillUntold == Untold(Kernel) => Untold(Kernel)'

\* A step that only sends, and no go or stop but those that were given before.
LEMMA SendsCoupled ==
  ASSUME CoupledInv, UNCHANGED world, NEW k, Good(k), Becomes(k),
         Keeps(Kernel, k, Untold(Kernel))
  PROVE  CoupledInv' /\ StillUntold
<1>1. k \in KernelState /\ Kernel' = k
  BY DEF Good, Fits, Becomes, Kernel, KernelState
<1>2. loop' = k.calls /\ loop = Kernel.calls
  BY DEF Becomes, Kernel
<1>3. Untold(Kernel) => Untold(Kernel')
  BY <1>1 DEF Keeps
<1>4. loop # <<>> => loop' # <<>>
  BY <1>2 DEF Keeps
<1>5. QED
  BY <1>3, <1>4 DEF CoupledInv, world, Untold, StillUntold

\* After any of the world's events power and run agree or will be made to.
LEMMA EventCoupled ==
  ASSUME HandlerInv, run => power, NEW k, Good(k),
         NEW event \in {"PowerOn", "PowerOff", "Run", "Stop"}, WorldEvent(k, event)
  PROVE  /\ run' => power'
         /\ power' = run' \/ loop' # <<>>
         /\ event \in {"Run", "PowerOff"} => power' = run'
<1> DEFINE told == IF event \in {"PowerOff", "Stop"} THEN SendImmediateWithRedundancy(k, Stop)
                   ELSE SendWithRedundancy(k, Go)
<1>1. power' = PowerAfter(event) /\ run' = RunAfter(event)
  BY DEF WorldEvent
<1>2. (run' => power') /\ (event \in {"Run", "PowerOff"} => power' = run')
  BY <1>1 DEF PowerAfter, RunAfter, HandlerInv
<1>3. power' # run' => CoupledCalls(event) \in {<<"powerOff">>, <<"run">>}
  BY <1>1, <1>2 DEF CoupledCalls, PowerAfter, RunAfter, HandlerInv
<1>4. Good(told)
  BY RedundancyGood, FramesAreFrames
<1>5. loop' = told.calls \o CoupledCalls(event)
  <2>1. Becomes([told EXCEPT !.calls = told.calls \o CoupledCalls(event)])
    BY DEF WorldEvent
  <2> HIDE DEF told
  <2>2. QED
    BY <1>4, <2>1 DEF Becomes, Good, Fits, KernelState
<1> HIDE DEF told
<1>6. told.calls \in Seq(Call)
  BY <1>4 DEF Good, Fits, KernelState
<1>7. told.calls \o <<"powerOff">> # <<>> /\ told.calls \o <<"run">> # <<>>
  BY <1>6
<1>8. power' # run' => loop' # <<>>
  BY <1>3, <1>5, <1>7, Zenon
<1>9. QED
  BY <1>2, <1>8

-----------------------------------------------------------------------------
LEMMA InitCoupled == Init => CoupledInv
<1> SUFFICES ASSUME Init PROVE CoupledInv
  OBVIOUS
<1>1. txQueue = <<>> /\ redundancyTimers = <<>> /\ station.track = "unknown"
  BY DEF Init
<1>2. Untold(Kernel)
  BY <1>1 DEF Untold, Kernel
<1>3. QED
  BY <1>2 DEF Init, CoupledInv

LEMMA DrainTxCoupled ==
  ASSUME SendInv, HandlerInv, online, CoupledInv, DrainTx
  PROVE  CoupledInv' /\ StillUntold
<1> DEFINE k == [Kernel EXCEPT !.armed = FALSE]
<1>1. Good(Kernel) /\ Kernel \in KernelState
  BY KernelGood DEF Good, Fits
<1>2. Kernel.queue = txQueue
  BY DEF Kernel
<1>3. UNCHANGED world
  BY DEF DrainTx, world
<1>4. CASE txQueue = <<>>
  <2>1. Good(k)
    BY <1>1, <1>2, <1>4 DEF Good, Fits, Told, KernelState
  <2>2. Keeps(Kernel, k, Untold(Kernel))
    BY <1>1 DEF Keeps, Untold, KernelState
  <2>3. Becomes(k)
    BY <1>4 DEF DrainTx
  <2> HIDE DEF k
  <2>4. QED
    BY <1>3, <2>1, <2>2, <2>3, SendsCoupled
<1>5. CASE txQueue # <<>>
  <2> DEFINE rest == Tail(txQueue)
             first == Head(txQueue)
             shorter == [k EXCEPT !.queue = rest]
             sent == WriteFrameNow(shorter, first)
             after == ArmTxTimer(CheckTxOverflow(sent))
  <2>1. rest \in Seq(Frame) /\ Len(rest) <= QueueLimit /\ first \in Frame
    BY <1>1, <1>2, <1>5, ConfigAssumption DEF Good, Fits, KernelState
  <2>2. txQueue \in Seq(Neutral) => rest \in Seq(Neutral) /\ first \in Neutral
    BY <1>5
  <2>3. Becomes(after)
    <3>1. shorter = [k EXCEPT !.queue = Tail(@)]
      BY <1>1, <1>2 DEF KernelState
    <3>2. QED
      BY <1>5, <3>1 DEF DrainTx
  <2> HIDE DEF rest, first
  <2>4. Fits(shorter)
    BY <1>1, <2>1 DEF Fits, KernelState
  <2>5. Keeps(Kernel, shorter, TRUE)
    BY <1>1, <1>2, <2>2 DEF Keeps, Untold, KernelState
  <2> HIDE DEF shorter
  <2>6. Fits(sent) /\ Keeps(shorter, sent, first \in Neutral)
    BY <2>1, <2>4, WriteFits, WriteKeeps
  <2> HIDE DEF sent
  <2>7. Good(after) /\ Keeps(sent, after, TRUE)
    BY <2>6, RefreshGood, RefreshKeeps
  <2> HIDE DEF after
  <2>8. Untold(Kernel) => first \in Neutral
    BY <1>2, <2>2 DEF Untold
  <2>9. Keeps(Kernel, after, Untold(Kernel))
    BY <2>5, <2>6, <2>7, <2>8 DEF Keeps
  <2>10. QED
    BY <1>3, <2>3, <2>7, <2>9, SendsCoupled
<1>6. QED
  BY <1>4, <1>5

LEMMA RedundancyTimerCoupled ==
  ASSUME SendInv, HandlerInv, online, CoupledInv, RedundancyTimer
  PROVE  CoupledInv' /\ StillUntold
<1> DEFINE t == Head(redundancyTimers)
           others == Tail(redundancyTimers)
           expired == [Kernel EXCEPT !.repeating = others]
           f == Head(t.slots)
           left == Tail(t.slots)
           k == Repeat(expired, t.now, left)
           after == IF f = Pause THEN k
                    ELSE IF t.now THEN WriteFrameNow(k, f) ELSE SendRaw(k, f)
<1>1. Good(Kernel) /\ Kernel \in KernelState
  BY KernelGood DEF Good, Fits
<1>2. redundancyTimers \in Seq(Repeating) /\ redundancyTimers # <<>>
      /\ redundancyTimers = Kernel.repeating
  BY <1>1 DEF Kernel, KernelState, RedundancyTimer
<1>3. t \in Repeating /\ others \in Seq(Repeating)
  BY <1>2
<1>4. Untold(Kernel) => t \in NeutralRepeating /\ others \in Seq(NeutralRepeating)
  BY <1>2 DEF Untold
<1>5. Becomes(after)
  BY DEF RedundancyTimer, Kernel
<1> HIDE DEF t, others
<1>6. t.now \in BOOLEAN /\ t.slots \in Seq(Frame \cup {Pause}) /\ t.slots # <<>>
  BY <1>3 DEF Repeating
<1>7. f \in Frame \cup {Pause} /\ left \in Seq(Frame \cup {Pause})
  BY <1>6
<1>8. Untold(Kernel) => f \in Neutral \cup {Pause} /\ left \in Seq(Neutral \cup {Pause})
  BY <1>4 DEF NeutralRepeating
<1>9. Good(expired)
  BY <1>1, <1>3 DEF Good, Fits, Told, KernelState
<1>10. Keeps(Kernel, expired, TRUE)
  BY <1>1, <1>4 DEF Keeps, Untold, KernelState
<1> HIDE DEF f, left, expired
<1>11. Good(k) /\ Keeps(expired, k, left \in Seq(Neutral \cup {Pause}))
  BY <1>6, <1>7, <1>9, RepeatGood, RepeatKeeps
<1>12. Keeps(Kernel, k, Untold(Kernel))
  BY <1>8, <1>10, <1>11 DEF Keeps
<1> HIDE DEF k
<1>13. Good(after)
  BY <1>7, <1>11, WriteGood, SendGood
<1>14. f # Pause => Keeps(k, WriteFrameNow(k, f), f \in Neutral)
                    /\ Keeps(k, SendRaw(k, f), f \in Neutral)
  BY <1>7, <1>11, WriteKeeps, SendKeeps DEF Good
<1>15. Keeps(Kernel, after, Untold(Kernel))
  BY <1>8, <1>12, <1>14 DEF Keeps
<1> HIDE DEF after
<1>16. UNCHANGED world
  BY DEF RedundancyTimer, world
<1>17. QED
  BY <1>5, <1>13, <1>15, <1>16, SendsCoupled

\* A deferred call either makes power and run agree or finds the world powered off.
LEMMA RunCallCoupled ==
  ASSUME SendInv, HandlerInv, online, CoupledInv, RunCall
  PROVE  CoupledInv'
<1> DEFINE calls == Tail(loop)
           k == [Kernel EXCEPT !.calls = calls]
<1>1. Good(Kernel) /\ Kernel \in KernelState
  BY KernelGood DEF Good, Fits
<1>2. calls \in Seq(Call)
  BY <1>1 DEF Kernel, KernelState, RunCall
<1>3. \/ WorldEvent(k, "Run") \/ WorldEvent(k, "PowerOff")
      \/ Becomes(k) /\ UNCHANGED world /\ ~power
  BY DEF RunCall, Kernel
<1> HIDE DEF calls
<1>4. Good(k)
  BY <1>1, <1>2, CalledGood
<1> HIDE DEF k
<1>5. run => power
  BY DEF CoupledInv
<1>6. CASE WorldEvent(k, "Run")
  BY <1>4, <1>5, <1>6, EventCoupled DEF CoupledInv
<1>7. CASE WorldEvent(k, "PowerOff")
  BY <1>4, <1>5, <1>7, EventCoupled DEF CoupledInv
<1>8. CASE UNCHANGED world /\ ~power
  <2>1. run = FALSE /\ power = FALSE
    BY <1>5, <1>8 DEF HandlerInv
  <2>2. QED
    BY <1>8, <2>1 DEF CoupledInv, world
<1>9. QED
  BY <1>3, <1>6, <1>7, <1>8

LEMMA DecoderStepCoupled ==
  ASSUME SendInv, HandlerInv, online, CoupledInv, NEW l \in Loco,
         \/ \E s \in Speed : SetThrottle(l, s)
         \/ SetDirection(l) \/ SetFunction(l) \/ SetEmergencyStop(l)
  PROVE  CoupledInv' /\ StillUntold
<1>1. Good(Kernel) /\ 0 \in Speed
  BY KernelGood, ConfigAssumption
<1>2. Toggle(l) \in Frame /\ Toggle(l) \in Neutral
  BY FramesAreFrames, NeutralFrames
<1>3. ASSUME NEW s \in Speed, Becomes(SendWithRedundancy(Kernel, SpeedFrame(l, s))),
             UNCHANGED world
      PROVE  CoupledInv' /\ StillUntold
  <2>1. SpeedFrame(l, s) \in Frame /\ SpeedFrame(l, s) \in Neutral
    BY FramesAreFrames, NeutralFrames
  <2>2. /\ Good(SendWithRedundancy(Kernel, SpeedFrame(l, s)))
        /\ Keeps(Kernel, SendWithRedundancy(Kernel, SpeedFrame(l, s)), TRUE)
    BY <1>1, <2>1, RedundancyGood, RedundancyKeeps
  <2>3. Keeps(Kernel, SendWithRedundancy(Kernel, SpeedFrame(l, s)), Untold(Kernel))
    BY <2>2 DEF Keeps
  <2>4. QED
    BY <1>3, <2>2, <2>3, SendsCoupled
<1>4. decoder[l] \in Decoder /\ decoder' \in [Loco -> Decoder]
  BY DecoderStepInv DEF HandlerInv
<1>5. CommandedSpeed(decoder[l]) \in Speed /\ CommandedSpeed(decoder'[l]) \in Speed
  BY <1>1, <1>4 DEF CommandedSpeed, Decoder
<1>6. UNCHANGED world
  BY DEF SetThrottle, SetDirection, SetFunction, SetEmergencyStop, commanded
<1>7. ASSUME NEW s \in Speed, SetThrottle(l, s) PROVE CoupledInv' /\ StillUntold
  BY <1>3, <1>5, <1>6, <1>7 DEF SetThrottle
<1>8. CASE SetDirection(l)
  <2>1. Good(SendRaw(Kernel, Toggle(l))) /\ Keeps(Kernel, SendRaw(Kernel, Toggle(l)), TRUE)
    BY <1>1, <1>2, SendGood, SendKeeps
  <2>2. Keeps(Kernel, SendRaw(Kernel, Toggle(l)), Untold(Kernel))
    BY <2>1 DEF Keeps
  <2>3. QED
    BY <1>6, <1>8, <2>1, <2>2, SendsCoupled DEF SetDirection, SendDirection
<1>9. CASE SetFunction(l)
  BY <1>3, <1>5, <1>6, <1>9 DEF SetFunction
<1>10. CASE SetEmergencyStop(l)
  <2> DEFINE slots == <<Toggle(l)>>
             told == WriteFrameNow(Kernel, Toggle(l))
             k == Repeat(told, TRUE, slots)
  <2>1. slots \in Seq(Frame \cup {Pause}) /\ slots \in Seq(Neutral \cup {Pause})
    BY <1>2
  <2>2. k = EmergencyStop(l)
    BY DEF EmergencyStop
  <2> HIDE DEF slots
  <2>3. Good(told) /\ Keeps(Kernel, told, TRUE)
    BY <1>1, <1>2, WriteGood, WriteKeeps DEF Good
  <2> HIDE DEF told
  <2>4. Good(k) /\ Keeps(told, k, TRUE)
    BY <2>1, <2>3, RepeatGood, RepeatKeeps
  <2>5. Keeps(Kernel, k, Untold(Kernel))
    BY <2>3, <2>4 DEF Keeps
  <2> HIDE DEF k
  <2>6. Becomes(k) \/ Becomes(SendWithRedundancy(Kernel, SpeedFrame(l, 0)))
    BY <1>10, <2>2 DEF SetEmergencyStop
  <2>7. QED
    BY <1>1, <1>3, <1>6, <2>4, <2>5, <2>6, SendsCoupled
<1>11. QED
  BY <1>7, <1>8, <1>9, <1>10

LEMMA SetOutputCoupled ==
  ASSUME SendInv, HandlerInv, online, CoupledInv, NEW a \in Accessory, NEW p \in Position,
         SetOutput(a, p)
  PROVE  CoupledInv' /\ StillUntold
<1> DEFINE slots == AccessorySlots(a, p)
           told == SendRaw(Kernel, Switch(a, p))
           k == Repeat(told, FALSE, slots)
<1>1. /\ Switch(a, p) \in Frame /\ Off(a) \in Frame
      /\ Switch(a, p) \in Neutral /\ Off(a) \in Neutral
  BY FramesAreFrames, NeutralFrames
<1>2. config.redundancy \in Nat /\ PulseSlots - 1 \in Nat
  BY ConfigAssumption DEF HandlerInv
<1>3. slots \in Seq(Neutral \cup {Pause})
  <2>1. /\ Times(config.redundancy, Switch(a, p)) \in Seq(Neutral \cup {Pause})
        /\ Times(PulseSlots - 1, Pause) \in Seq(Neutral \cup {Pause})
        /\ Times(config.redundancy, Off(a)) \in Seq(Neutral \cup {Pause})
    BY <1>1, <1>2, TimesNeutral
  <2>2. <<Off(a)>> \in Seq(Neutral \cup {Pause})
    BY <1>1
  <2>3. QED
    BY <2>1, <2>2 DEF AccessorySlots
<1>4. Becomes(k)
  BY DEF SetOutput
<1> HIDE DEF slots
<1>5. slots \in Seq(Frame \cup {Pause})
  BY <1>3 DEF Neutral
<1>6. Good(told) /\ Keeps(Kernel, told, TRUE)
  BY <1>1, KernelGood, SendGood, SendKeeps
<1> HIDE DEF told
<1>7. Good(k) /\ Keeps(told, k, TRUE)
  BY <1>3, <1>5, <1>6, RepeatGood, RepeatKeeps
<1>8. Keeps(Kernel, k, Untold(Kernel))
  BY <1>6, <1>7 DEF Keeps
<1> HIDE DEF k
<1>9. QED
  BY <1>4, <1>7, <1>8, SendsCoupled DEF SetOutput

LEMMA NextCoupled == SessionInv /\ CoupledInv /\ [Next]_vars => CoupledInv'
<1> SUFFICES ASSUME SendInv, HandlerInv, CoupledInv, [Next]_vars
             PROVE  CoupledInv'
  BY InvSplit
<1>1. CASE UNCHANGED vars
  BY <1>1 DEF vars, CoupledInv, Untold, Kernel
<1> SUFFICES ASSUME online, UserStep \/ KernelStep \/ RunCall \/ CtsChanges
             PROVE  CoupledInv'
  BY <1>1 DEF Next
<1>2. Other \in Frame /\ Other \in Neutral /\ Good(Kernel)
  BY FramesAreFrames, NeutralFrames, KernelGood
<1>3. ASSUME NEW event \in Button, WorldButton(event) PROVE CoupledInv'
  <2>1. event \in {"PowerOn", "PowerOff", "Run", "Stop"} /\ (run => power)
    BY ConfigAssumption DEF CoupledInv
  <2>2. WorldEvent(Kernel, event)
    BY <1>3 DEF WorldButton
  <2>3. QED
    BY <1>2, <2>1, <2>2, EventCoupled DEF CoupledInv
<1>4. ASSUME NEW l \in Loco,
             \/ \E s \in Speed : SetThrottle(l, s)
             \/ SetDirection(l) \/ SetFunction(l) \/ SetEmergencyStop(l)
      PROVE  CoupledInv'
  BY <1>4, DecoderStepCoupled
<1>5. CASE SetFunctions1to4
  <2>1. /\ Good(SendWithRedundancy(Kernel, Other))
        /\ Keeps(Kernel, SendWithRedundancy(Kernel, Other), TRUE)
    BY <1>2, RedundancyGood, RedundancyKeeps
  <2>2. Keeps(Kernel, SendWithRedundancy(Kernel, Other), Untold(Kernel))
    BY <2>1 DEF Keeps
  <2>3. QED
    BY <1>5, <2>1, <2>2, SendsCoupled DEF SetFunctions1to4, commanded
<1>6. ASSUME NEW a \in Accessory, NEW p \in Position, SetOutput(a, p) PROVE CoupledInv'
  BY <1>6, SetOutputCoupled
<1>7. CASE GoOffline
  <2>1. UNCHANGED <<world, loop, station>> /\ txQueue' = <<>> /\ redundancyTimers' = <<>>
    BY <1>7 DEF GoOffline
  <2>2. Untold(Kernel) => Untold(Kernel)'
    BY <2>1 DEF Untold, Kernel
  <2>3. QED
    BY <2>1, <2>2 DEF CoupledInv, world
<1>8. CASE Poll
  <2>1. Good(SendRaw(Kernel, Other)) /\ Keeps(Kernel, SendRaw(Kernel, Other), TRUE)
    BY <1>2, SendGood, SendKeeps
  <2>2. Keeps(Kernel, SendRaw(Kernel, Other), Untold(Kernel))
    BY <2>1 DEF Keeps
  <2>3. QED
    BY <1>8, <2>1, <2>2, SendsCoupled DEF Poll
<1>9. CASE CtsMonitor
  <2>1. /\ UNCHANGED <<world, txQueue, redundancyTimers, station>>
        /\ loop' = loop \/ loop' = Append(loop, "stopWorld")
    BY <1>9 DEF CtsMonitor
  <2>2. loop \in Seq(Call)
    BY <1>2 DEF Good, Fits, Kernel, KernelState
  <2>3. Untold(Kernel) => Untold(Kernel)'
    BY <2>1 DEF Untold, Kernel
  <2>4. loop # <<>> => loop' # <<>>
    BY <2>1, <2>2
  <2>5. QED
    BY <2>1, <2>3, <2>4 DEF CoupledInv, world
<1>10. CASE CtsChanges
  BY <1>10 DEF CtsChanges, CoupledInv, Untold, Kernel, world
<1>11. QED
  BY <1>3, <1>4, <1>5, <1>6, <1>7, <1>8, <1>9, <1>10, DrainTxCoupled, RedundancyTimerCoupled,
     RunCallCoupled DEF UserStep, KernelStep

\* Once a go or a stop has reached the layout and nothing is queued for the event
\* loop, power and run agree, whatever buttons were pressed while reports were
\* pending, for any number of devices, any settings and any limits.
THEOREM PowerRunAgree == Spec => []PowerRunCoupled
<1>1. Init => SessionInv /\ CoupledInv
  BY InitInv, InitCoupled
<1>2. (SessionInv /\ CoupledInv) /\ [Next]_vars => (SessionInv /\ CoupledInv)'
  BY NextInv, NextCoupled
<1>3. SessionInv /\ CoupledInv => PowerRunCoupled
  BY DEF CoupledInv, PowerRunCoupled, Untold, Kernel
<1>4. QED
  BY <1>1, <1>2, <1>3, PTL DEF Spec
=============================================================================
